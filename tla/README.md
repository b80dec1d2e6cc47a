# Formal models of the starter template's back end

TLA+ specifications of the stateful back-end packages of this repository, the
TLC configurations that check them on small instances, and TLAPS proofs of
their main properties for every instance. The code is the reference: each
definition is translated from the lines that `PROJECT.json` names under `map`.

## 1. The system and its components

The repository is a TypeScript monorepo for a multi-tenant SaaS product: a
Next.js dashboard, a public HTTP API, an MCP server, a worker process, and
packages that hold the domain logic over one PostgreSQL database reached
through Prisma. There is no shared memory between processes: components meet in
database rows, in jobs of a queue, and in webhooks of Stripe and of the e-mail
provider.

| Component | State it keeps | Operations | What is hard | What makes it correct |
|---|---|---|---|---|
| Credit ledger (`packages/credits/src/services/usage-service.ts`, `balance-service.ts`) | `CreditAccount` (three buckets, cached total, period), `CreditUsageEvent` (one per idempotency key), `CreditLedgerEntry` | `runWithCreditCharge`, `beginCreditUsage` with its settle and fail callbacks, `grantCredits`, admin debit, `applyAllowancePeriodReset`, metered and failed records | concurrent transactions at READ COMMITTED, retries of a key, crash between statements, lost answer of a commit, two lock orders | buckets never negative, total adds up, balances equal the ledger unless one posting overtook another, a key settled once unless its calls overlap, a failed operation never charged, every call ends |
| Allowance and top-up (`allowance-service.ts`, `top-up-service.ts`, `billing/src/hooks/*`) | `CreditTopUpPurchase`, the ledger | Stripe hooks: checkout completed, subscription complete/created | redelivery, crash between the steps of a handler, swallowed errors, two hooks at once | a paid purchase is granted once and in the end fulfilled; a period's reset and grant belong together |
| Campaigns (`packages/campaigns`) | sequences, runs, enrollments, step sends, preferences, delivery events | start, pause; enroll; schedule and execute a step; delivery events; unsubscribe | at-least-once jobs, crash around the provider call, webhooks out of order, unsubscribe during a send | mails in order and once unless a handler is outrun or retried, no mail after an exit or a suppression that the handler could see, statuses that tell what was mailed, every enrollment ends |
| Worker queue (`packages/worker-queue`, `apps/workers`) | jobs, attempts | enqueue, deliver, retry, drop | duplicates, retry after partial failure, reordering, the drain route that takes jobs it has no handler for | what its consumers make of it: handlers that may run again from any point |
| Member roles (`packages/auth/src/member-role-management.ts`, `org-roles/*`) | `Member.role` | replace, bulk add/remove, invite, transfer ownership | roles decided from a stale read, bulk work four at a time, a serializable transfer against plain writes | one owner, lost only to a write over a member whose ownership has moved; nobody else touches the owner, lowers themselves or lifts others above what they may; the admin role comes from the owner |
| Billing entitlements | `Subscription`, plans | reads with a fallback | none | a lapsed subscription has the free limits |
| Contacts | contacts, tags, segments, tasks | CRUD, CSV import, filters | one read-modify-write of a segment | filters keep their explicit ids |
| E-mail, AI, public API, MCP, tool calls | none, or one row per call | stateless handlers | they call the credit ledger | charged as the ledger says |
| Authentication | sessions and keys of a library | configuration | outside the repository | |
| Dashboard, www, infrastructure, tooling | none of their own | pages, deployment | | |

How they interact: the API middleware (`apps/public-api/src/middleware/credits.ts`),
the MCP registry, the chat route and the AI worker handler wrap their work in the
credit ledger; Stripe webhooks reach the ledger through the billing hooks;
campaign services call the queue, whose workers call the campaign services; the
provider's webhooks come back into the campaign services.

`PROJECT.json` lists every component with its status, and under `hazards` what
can go wrong in this code and is hard to test, each at its line.

## 2. Modules

| Module | What it is |
|---|---|
| `CreditRows` | The arithmetic of the ledger, constant level: the ledger entries of a grant, a debit and a reset, and the `UPDATE` each one issues from the row it has read |
| `CreditLedger` | The credit services of one organization, statement by statement |
| `AtomicCreditLedger` | What they promise: every key is decided once, in one atomic step, with two named exceptions |
| `KeyedPosting` | The contract between the ledger and the services that post to it under a key |
| `CreditLedgerMC` | Instances of `CreditLedger` for TLC |
| `StripeFulfilment` | Stripe's webhooks: paid top-ups and subscription hooks, one database transaction at a time, over the ledger |
| `StripeFulfilmentMC` | Instances of `StripeFulfilment` for TLC |
| `JobQueue` | What the adapters of the job queue have in common: a bag of jobs |
| `DripMail` | What an e-mail sequence promises its recipients |
| `Campaigns` | Enrolling, scheduling, sending, reports and unsubscribing, statement by statement, over `JobQueue` |
| `CampaignsMC` | Instances of `Campaigns` for TLC |
| `RolePolicy` | Who may change whose roles, constant level |
| `MemberRoles` | Member roles of one organization under concurrent requests, over `RolePolicy` |
| `MemberRolesMC` | Instances of `MemberRoles` for TLC |
| `CreditLedgerProofs`, `StripeFulfilmentProofs`, `CampaignsProofs`, `CampaignsOnceProofs`, `CampaignsDripProofs`, `CampaignsEnrollingProofs`, `CampaignsForgottenProofs`, `MemberRolesProofs` | Theorems |

### CreditLedger

State. `events` is the set of committed `CreditUsageEvent` rows as a function
from key to status (`"none"`: no row). `pending` names, per key, the open
transaction that has inserted a row for it: the unique index on
`(organizationId, idempotencyKey)` makes every other insert wait. `account` is
the committed `CreditAccount` row and `lock` the transaction that has updated it
and not ended yet. The ledger is abstracted to the signed sum per bucket (`ledger`) and the
number of committed postings per key (`applied`), because the properties compare
sums and count postings. Per call, `pc` is the next statement, `op` what it has
been asked to do and the status it will record, `snap` the row it has read. Two
variables are history, which no guard reads: `overtaken`, the calls that posted over
balances that had moved since they read them, and `crowded`, the keys that had two
calls in flight at once.

Actions. A call begins (`BeginCharge`, `BeginMetered`, `BeginDirect`,
`BeginReset`), does its work and finds out what to charge (`RunIsCharged`,
`RunIsNotCharged`, `RunFails`), and runs its statements: `FindEvent` is
`findUsageEvent` at the head of the transaction, `FindEventAgain` and
`InsertEvent` are the two halves of `createUsageEvent`, `ReadAccount` is
`getOrCreateCreditAccount`, whose upsert has an empty `update` and so reads a row that
exists without locking it; `UpdateAccount` is the `UPDATE` of the account, which waits
for the row's lock and holds it until the transaction ends; `Commit` is the ledger
entries and the commit, which no other transaction can tell apart. `RecordFind` and
`RecordInsert` are `createUsageEvent` outside a transaction (failed, metered,
unmetered and zero-cost records). A reset reads the account before it creates its
event; everything else does so after (`AfterFind`, `AfterEvent`, `AfterRead`).
Errors are `Abort` (a time-out or a failed statement), a unique violation inside
`InsertEvent` and `RecordInsert`, `CommitUnanswered` (the commit takes effect,
the answer is lost) and `Crash`. `Raise` is where the error goes:
`runWithCreditCharge` records a failure, a worker does the same through
`markFailedWithoutCharge`, the chat route only logs it, a grant or a reset
throws.

Abstractions: one organization, since no statement touches two; the account row
exists from the start (`Opening` is any sound row, all zeros included); amounts
are assumed positive, as `assertPositiveCredits` enforces before anything is
written; an amount that it refuses in `runWithCreditCharge` is a `RunFails`,
which is what it leads to. Admin debits and grants share `DirectKeys`. `period`
is `currentPeriodStart`. Statuses `pending` and `settlement_failed` are left out
because no code writes them. A zero-credit posting writes the same row again and
no entry, and counts as a posting.

Fault variants (`GrantMovesBesideOverdraft`, `FindNothing`, ...) stand next to the
definition they distort; the mutants in `PROJECT.json` put them in its place.

### AtomicCreditLedger

`Settle` decides an undecided key and moves its credits from the balance of that
moment (`MoveExactly`); `Record` decides it without moving credits. The code gives
neither without exception, and the two exceptions are in the specification: a key in
`crowded`, which an `Overlap` puts there, may be posted again after it was decided, and
a posting may write balances computed from an earlier row (`MoveOvertaken`), once for a
call, which is then in `overtaken`. `CreditLedger` instantiates it with its own
variables (`ImplementsAtomicLedger`): every commit is a `Settle`, every stand-alone
insert a `Record`, a call that begins beside another of its key an `Overlap`,
everything else a stutter. As long as neither set grows, the ledger is atomic.

### KeyedPosting

What a caller of `grantCredits`, of an admin debit or of
`applyAllowancePeriodReset` may rely on and no more. The ledger looks for the key
once; it answers with a posting it has found, or makes one of its own, blind to
what others have posted since; a call may fail at any time, also after its posting
was made. `CreditLedger` keeps this contract (`ServesPostings`, for its direct and
reset keys, whatever overlaps), and `StripeFulfilment` is
modelled over nothing else (`PostsByContract`): its `Look` and `Post` are what the
contract allows, and a handler goes on as after a success only when it was served. The
two models meet here: what `StripeFulfilment` assumes of the ledger, `CreditLedger`
is proved to guarantee. In both refinements the caller's stage and key are computed
from its `pc`.

### StripeFulfilment

State. `happened` and `owed` are Stripe's side: the events that have happened and
those it has not yet seen answered with success. `purchase` is
`CreditTopUpPurchase.status`, `applied` the number of ledger postings per
idempotency key (of a top-up, of the reset and of the grant of a period),
`offered` the products that are active in the deployed configuration. Per
request handler, `pc` is its next step, `event` what it handles, `key` what it is
posting.

Actions. `Pay` and `Subscribe` are the customer, `Resend` and `Deliver` Stripe,
`Deploy` a change of the configuration. A top-up runs `Resolve`
(`resolveCreditTopUpProduct`), `RecordPaid`, `Look` and `Post` (`grantCredits`),
`MarkFulfilled`, `Answer`. A subscription hook runs `Look` and `Post` twice, for
the reset and then, if the plan has an allowance (`GrantIsNext`), for the grant.
`Throw` is where an error goes: a top-up fails its request, so that Stripe keeps
the event; a hook swallows it and answers with success. `Fail`, `PostUnanswered`
and `Crash` are the errors.

The ledger below it is reduced to the contract of `KeyedPosting`: a transaction looks
for its key, and its commit posts the key. The commit may post although another call
has posted since the look, because `FindEventAgain` takes a foreign row for its own;
or it may fail, as on the unique index. The constant `OverlapPerKey` says whether two
deliveries that post one key may be handled at the same time. Stripe does not promise
that they are not; what holds only without is checked and proved under that name, and
finding 4 shows what happens with it.

Abstractions: mail to the owner, the other columns of a purchase and the amounts
are left out. Amounts of a posting are the subject of `CreditLedger`. A checkout
session without metadata cannot come from `createCreditTopUpCheckoutAction`. A
session that is paid after its product was retired is one whose product is retired
between payment and delivery. The hooks for `cancel`, `update`, `delete` and a
failed invoice change no row.

### JobQueue, Campaigns, DripMail

State. Of the database: `paused` and `started` (the sequence and its runs),
`barred` (contacts that unsubscribed, opted out, bounced or have no address),
`status`, `index` and `origin` of each `EmailEnrollment`, `enrolledCount` of
each run, `send` and `message` (status and provider message id) of each
`EmailStepSend`, whose idempotency key is its enrollment and step. `queue` counts
the copies of each waiting job. `mails` and `reported` are the provider's side.
A process is a worker with one job or a dashboard call; besides `pc` and `job` it
holds what its handler has read: the step send `row`, the step index `at`, whether
sequence and enrollment were `clear`, the provider's `receipt`, and, when it
enrolls, how far each contact has come (`checks`) and what it has `made`.

Actions. Enrolling is `BeginEnroll` or `Call`, the two reads of
`isEligibleForEnrollment` per contact (`CheckPreference`, `CheckEnrolled`), one
`Create`, `Count` and a first step per enrollment (`FindFirst`, `Insert`,
`Publish`). Scheduling is `BeginSchedule`, `LoadNext`, `Find`, `Insert`,
`Publish`. Sending is `BeginSend`, then the queries of `getEmailStepSendById` one after
the other (`Load` the step send, `LoadEnrollment`, `LoadSequence`), `CheckBars`, then `MarkSkipped` and
`ExitEnrollment`, or `Mail`, `MarkSent`, `Advance`, `EnqueueNext`. A report is
`BeginReport`, `Match`, `MarkReported`, `Suppress`, `ExitSuppressed`. Members and
contacts do `StartRun`, `SetPaused`, `Unsubscribe` and `Leave`. A `Mishap` is an
`Interrupt` of a handler between two steps, a `Redeliver` of a job that is still
being handled, a `Drain` of a waiting job, a run or an unsubscribe request that
stops half-way, or a contact that loses its address. A job whose handler stops
comes back or is given up (`GiveBack`); which of the two is a choice, so that
every number of attempts is covered.

Four variables are history, of which no guard reads more than the bound on mishaps:
`mishaps` counts them, `risked` holds the step sends whose handler stopped between the
mail and its mark, and `halted` what a mishap has cut off for good: an enrollment
whose handler stopped after a write and before the job that was to follow, whose job
was given up or drained, or whose send job was handled twice at a time, and a run
whose enrolling job stopped after it had created its enrollments or was delivered
twice. `outrun` holds the enrollments of which a handler found a step send pending and
then read an index past that step, because another delivery of the same job had moved
the enrollment on in between.

`DripMail` says that an enrollment gets its mails in order and, once closed, no
more of them. `Campaigns` instantiates it (`ImplementsDrip`) with the step sends
that were mailed and with `Closed`: enrollments that have ended or whose contact
is barred, unless a handler that has read otherwise is on its way to the provider.
That exception is what the code leaves open, since nothing is locked between the
checks and the call. An `outrun` enrollment is `astray` there: it may miss a mail, and is
still not mailed once it is closed.

Abstractions. One sequence, since no statement relates two; with one sequence,
unsubscribing from all and from it are the same, and a complaint is treated as a
hard bounce, as the code does. Reads that no other step can come between to any
effect are one step: the address and the preferences of a contact both only move
towards barring. The step send, its enrollment and its sequence are not: an include is a
query of its own, none is in a transaction, and `schema.prisma` asks for no joins.
Clicks, opens and the event log, delays and `nextSendAt`, and the contents of mails are
left out. A sequence has at least one step and its steps are not edited while it runs.
Cancelling or pausing a single run is left out: `pauseCampaignRun` and
`cancelCampaignRun` have no caller. Deduplication by job id, which only BullMQ
does, never matters to a send job, which is published once per created row.
Without an API key of the provider, as in development, nothing is mailed; that
configuration is not modelled.

### RolePolicy, MemberRoles

State. `row` and `roles` are the `Member` rows (a row that was deleted never
comes back: who joins again gets a new one), `invited` the role sets of open
invitations. A call is one request: `pc`, `op`, `actor`, `authority` (the
roles the actor was loaded with), `permitted` (what the library said of its
permission), `wanted`, `todo` (targets not yet read), and per target `found` (the
roles it was read with) and `plan` (the roles that are going to be written).

Actions. `Begin` and `CheckPermission` are the two reads of `loadActorContext`.
`Decide` reads a target and evaluates the policy (`MayChange` is everything that
`replaceMemberRoles` and `mutateSingleMemberRoles` check between their read and
their write), `Write` is `updateMemberRole`, `EndChange` the end of the batch;
at most `Lanes` targets are between the two at a time. `Invite` is the rest of
`inviteMemberWithRoles`. `BeginTransfer` is the snapshot that
`transferOrganizationOwnership` reads, `CommitTransfer` its commit, possible only
while both rows are as they were (a serializable transaction of PostgreSQL fails
otherwise, `Abort`). `Join` and `Depart` are the library's.

Abstractions. A list of roles is a set, which is what `normalizeOrgRoleIds` makes of
it; a bulk change lists nobody twice. The library may refuse any write or invitation
(a choice), so nothing is proved from checks of its own, with one exception: it does
not let the owner be removed or leave. Role strings with unknown roles, which every
operation refuses, do not occur. `getMemberManagementContext` only advises the UI.

A transfer may overlap changes of roles in any way. A change writes back all roles it
has read, so that beside a transfer it can restore the ownership that was given away or
drop the one just received: the properties except the write over a target whose
ownership has moved since it was read (`OwnershipMoved`) and nothing else. The design
document (`docs/superpowers/specs/2026-07-14-org-role-management-design.md`) says that
"concurrent edits to the same member remain last-writer-wins"; the convention
`.ai/conventions/org-roles.md` that ownership changes hands only through
`transferOrganizationOwnership`. The library may refuse such a write, which the
repository's code does not.

## 3. Runs

Instance of the credit runs: one key of each class (`u1`, `d1`, `r1`), an opening
of one allowance and one wallet credit, amount 3 (it crosses all three buckets and
repays an overdraft exactly or in part), rollover cap 1, resets that expire or
roll over.

| Run | Calls | Result |
|---|---|---|
| `credit_overlap` | 3, amount 3 | Passes. However the statements interleave, nothing but a posting over a balance that had moved since it was read takes the account from its ledger, and even that leaves no bucket negative; a key is posted twice, or beside an event that is not settled, only if its calls overlapped; settled adjustments and resets are posted, committed events never change, nobody waits in a circle; and the statements implement the atomic ledger with its two exceptions. About 770,000 states up to symmetry |
| `credit_liveness` | 2, amounts 1 and 3, fairness | Passes. Every call that begins ends: the waits for the unique index and for the row are released on every path. The statements keep the contract of `KeyedPosting`. About 54,000 states |
| `credit_double_charge` | 2 | Violated: see finding 1 |
| `credit_failed_key` | 2 | Violated: see finding 2 |
| `credit_lost_update` | 2 | Violated: see finding 3 |

Instance of the Stripe runs: two handlers that are used again and again, one
session, the complete and the created hook of one subscription.

| Run | Also | Switches | Result |
|---|---|---|---|
| `stripe_overlap` | a hook of a plan without allowance | overlap | Passes. A purchase is fulfilled, and a payment acknowledged, only when its credits are posted; a hook that met no error has granted; no grant precedes its reset; the handlers use the ledger by its contract. About 450,000 states up to symmetry |
| `stripe_serial` | a hook without period dates | no overlap, fairness | Passes. Nothing is posted twice, no reset follows its grant, an acknowledged payment is fulfilled, and every payment is fulfilled in the end if its product stays on offer. About 26,000 states |
| `stripe_late_reset` | | overlap | Violated: see finding 4 |

Instances of the campaign and role runs:

| Run | Instance | Result |
|---|---|---|
| `campaign_faults` | one contact, one enrollment, three steps, a run, two workers, any two mishaps, no reports | Passes. Mails stay in order and a completed enrollment was mailed out unless it was outrun, only a retry that meets an unmarked mail repeats one, statuses tell what was mailed, a run says how many it enrolled unless its job was cut off or repeated, no active enrollment is left without a next job unless a step was skipped or a mishap cut it off, and the handlers implement the drip. About 856,000 states up to symmetry |
| `campaign_quiet` | one contact that can be enrolled twice, two steps, a run and a dashboard call, one worker, one report (a delivery or a hard bounce), no mishaps, fairness | Passes. A run's count is right beside the overlapping call, every enrollment that no pause has met ends, and who unsubscribes or bounces is left alone for ever in the end. About 131,000 states |
| `campaign_double_enroll` | one contact that can be enrolled twice, one step, a run and a dashboard call, no mishaps | Violated: see finding 5 |
| `member_roles` | three members (an owner, an admin, one that is an admin, is a plain member or may be invited), two requests at a time and in all, two targets, two lanes | Passes. The one owner is lost only to a write over a member whose ownership has moved since it was read, also when transfers overlap each other and changes; no other write touches the owner or lowers its author; nobody is lifted above what the actor may; admins are made by who was the owner when the request began. About 836,000 states up to symmetry |

Bounds. In the campaign runs contacts meet only in a bulk enrollment, so that one
contact with its enrollments shows what can happen to it. A handler that is outrun repeats
a step and skips the next, and three steps are the fewest in which a mail then goes out
before the one in front of it; without the exception the run shows this. Two workers and
two mishaps are a handler that has stopped or lags and its retry, with one more fault in
either. Reports and mishaps are apart because each adds a copy of the interleavings; the
theorems put no bound on either. In the role run two requests are the hazard and its
victim, three members an actor, its target and an owner; the code's 100 targets and four
lanes differ only in how many pairs of a read and a write are open at a time. Each
exception of the role properties occurs in the run: without it the run finds the property
violated.

Every hazard of the ledger needs at most two transactions; the third call adds a
retry, a reset between a charge and its retry, or a second waiter. A call runs
once and a retry is another call with the same key, so three calls are an attempt,
its retry and a bystander, or three retries. One key per class is enough because
keys of one class are treated alike and only calls with the same key meet in
`events`; they all meet in `account`.

In the Stripe runs two handlers suffice because a hazard is one delivery that has
stopped or is still running beside another; a handler that is free takes the next
delivery, so that the number of redeliveries and resends has no bound. Sessions
share nothing but the handlers with each other and with the hooks.

Fairness. `CreditLedger`'s `FairSpec` asks that work which has started returns or
throws and that the database answers a statement it can execute: the code has no
waiting of its own, and every wait is PostgreSQL's. No call has to begin and nothing
has to fail. `StripeFulfilment`'s `FairSpec` asks that a request that is running ends
(weak fairness of its steps) and, for payments, that Stripe keeps delivering what it
is owed and that no step fails every time it is tried (strong fairness, since a crash
makes the step impossible until the next delivery). Stripe gives up on an event after
some days; within them this is what redelivery is for. Nothing is assumed of the hooks
beyond that their requests end.

`Campaigns`' `FairSpec` asks that the workers go on while there is work
(weak fairness of all of it together: nothing is assumed of the order of jobs, and
work is finite because a step send is created once) and that an unsubscribe request
comes to its end. Nobody has to start a run, to pause or to bounce.

Deadlock is checked in every passing run but `member_roles`, where the bound on requests
ends everything: `Terminating` is the end of all credit calls; Stripe, deployments
and the pausing of a sequence never end.

### Findings

1. **A key can be posted twice.** Two calls with one key both pass the first
   look; the first commits; the second look of the other, inside
   `createUsageEvent`, returns the committed row, and the caller goes on to move
   credits. `credits.prisma` says of the key that it serves "to settle the same
   logical operation exactly once across retries".
2. **A failed attempt makes its key free of charge.** The failure is recorded
   under the key; a retry with the same key runs, succeeds, and the debit
   returns the failed event as if it were a settlement.
3. **Lost update.** Two transactions read the account, neither locks it, and each
   writes absolute balances computed from what it read: the second takes back the
   first, whose ledger entries stay. The account is no longer "cached from the
   immutable ledger" (`credits.prisma`). It takes no failure, only two postings at a
   time; `DriftIsOvertaken` says that nothing else does it.
4. **A late reset takes the new allowance.** Two deliveries for one subscription
   overlap; both look for the reset of the period before either has made it. The
   first resets and grants; the second reads the account with the new allowance
   in it, is handed the committed reset event by `createUsageEvent`, and expires
   what was just granted. A comment of `allowance-service.ts` promises that the
   reset comes "before the new grant lands".
5. **A contact can be enrolled twice.** `isEligibleForEnrollment` looks for an active
   enrollment and the creating transaction comes later, with nothing between two
   processes and no unique index: a run and a follow-up call both enroll the contact,
   who gets every mail twice. The design document
   (`docs/superpowers/specs/2026-06-04-campaigns-design.md`) says "Unique active
   constraint (enforced in service): one `active` enrollment per
   `(contactId, sequenceId)`".

Some behaviours beyond these are worth knowing. A hook
that meets an error is answered with success and its allowance is never granted;
`AnsweredHookHasGranted` says only that one without an error grants. And under
overlap `AcknowledgedIsFulfilled` fails: a delivery that Stripe has given up on can
set a fulfilled purchase back to paid and die.

Of campaigns: an enroll-segment job that is delivered again finds everybody enrolled
and writes a count of zero over the right one; `CountIsRight` leaves such runs out.
A send job that is delivered while it is being handled can outrun its first handler: one
reads the step send as pending, the other mails it, marks it and moves the enrollment
on, and the first then reads the new index, mails the same step again and moves the
enrollment one step further. The step between is never mailed, and if it was the last, the
enrollment is completed without it; `MailedInSequence` and `CompletedIsMailedOut` leave
such enrollments out. A worker that dies after a step send was marked
sent leaves its enrollment where it is, since the retry finds nothing pending; so
does an enrolling job that is retried after it created its enrollments, and a pause
that meets a step. A report that arrives before the message id is stored is only
logged.

Of roles: the design document says that nobody edits their own roles through
ordinary role actions; `evaluateMemberManagement` allows it as long as the highest
role is kept. A change of one's own roles writes back an admin role that the owner
has taken away since it was read; it is the one way around the owner. And a change that
has read its target before a transfer of ownership and writes it after the transfer gives
back the old ownership or drops the new one, so that an organization can have two owners
or none.

## 4. Proofs

All for arbitrary sets of calls and keys, amounts, caps, periods and any sound
opening account, and for arbitrary sessions, hooks, products, periods and handlers,
under the named assumptions of `CreditLedger` and `StripeFulfilment`; for arbitrary
contacts, sequences, runs, workers, reports and mishaps, and arbitrary members, requests,
targets and lanes.

| Theorem | Assumes | Says |
|---|---|---|
| `TypeCorrect` | | `[]TypeOK` |
| `DriftNeedsOvertaking` | | `[]DriftIsOvertaken` |
| `BalancesStayNonNegative` | | `[]BucketsNeverNegative` |
| `NoDoublePosting` | | `[]AppliedOnceUnlessCrowded` |
| `PostingsAreSettled` | | `[]OnlySettledUnlessCrowded` |
| `SettledIsApplied` | | `[]SettledDirectIsApplied` |
| `CommittedEventsStay` | | `EventsAreImmutable` |
| `LedgerIsAtomic` | | `ImplementsAtomicLedger` |
| `NoDeadlock` | | `[]NoCircularWait` |
| `LedgerServesPostings` | | `ServesPostings` |
| `StripeTypeCorrect` | | `[]TypeOK` |
| `FulfilledPurchasesAreGranted` | | `[]FulfilledIsGranted` |
| `NoPaymentIsForgotten` | | `[]AcknowledgedIsGranted` |
| `CleanHookGrants` | | `[]AnsweredHookHasGranted` |
| `ResetComesFirst` | | `[]GrantFollowsReset` |
| `NothingPostedTwice` | `~OverlapPerKey` | `[]PostedAtMostOnce` |
| `NoLateReset` | `~OverlapPerKey` | `ResetPrecedesGrant` |
| `AcknowledgedPurchasesAreFulfilled` | `~OverlapPerKey` | `[]AcknowledgedIsFulfilled` |
| `HandlersKeepContract` | | `PostsByContract` |
| `TypeCorrect` (`CampaignsProofs`) | | `[]TypeOK` |
| `MailsInSequence` | | `[]MailedInSequence` |
| `CompletionIsEarned` | | `[]CompletedIsMailedOut` |
| `MailsOnce` | | `[]MailedAtMostOnce` |
| `StatusIsTrue` | | `[]StatusFollowsMail` |
| `CampaignsDrip` | | `ImplementsDrip` |
| `CountsWhatItEnrolled` | | `[]CountIsRight` |
| `NoneIsLost` | | `[]NoneIsForgotten` |
| `RolesTypeCorrect` | | `[]TypeOK` |
| `OthersBelow` | | `OthersStayBelow` |
| `OnlyOneOwner` | | `UniqueOwner` |
| `OwnerUntouched` | | `OwnerIsUntouchable` |
| `NoSelfDemotion` | | `NobodyDemotesThemselves` |
| `AdminsAreTheOwners` | | `AdminFromOwner` |

The one switch that appears as an assumption is `OverlapPerKey` of `StripeFulfilment`:
with overlap, `NothingPostedTwice` and `NoLateReset` fail (finding 4), and so does
`AcknowledgedPurchasesAreFulfilled`. Everything else is proved of the code as it
interleaves, with the exceptions that the properties name.

Argument. The lemmas on `CreditRows` at the head of `CreditLedgerProofs` settle the
arithmetic: an operation computed from the row it updates keeps the row sound
(`WrittenIsSound`) and moves each balance by the entries it adds to the ledger
(`WrittenFollowsMoves`); one computed from an older row still writes no negative bucket
(`WrittenIsNonNegative`); and only the buckets of the row that was read matter
(`WrittenFromSameBuckets`). `DriftInv` adds to the two properties of the account that no
row that a call has read has a negative bucket (`ReadsAreNonNegative`): a commit whose
read is current preserves soundness, and one whose read is not puts its call in
`overtaken`. `SerialInv` says of keys outside `crowded` that two active calls never share
one (`KeysAreExclusive`) and that a call past its first look has an undecided key, and
the pending row of it once it has inserted (`CallIsSerial`): this is why the second look
never finds a foreign row. `EventInv` speaks of all keys: one has a pending row only while
it is undecided (`PendingUndecided`), and stand-alone records are only made for usage keys
(`RecordsAreUsage`); each step treats each key in one of three ways (`EveryKeyStep`).
The refinement combines these and `PostingInv` below: a commit is a `Settle` because its
key is undecided or crowded, and its read is current or the call has not been overtaken
before (`OvertakenHavePosted`).

`NoDeadlock` rests on `HoldingInv`: what a call holds is known from its step, its
key's row from the insert on and the account row from the `UPDATE` on. The holder of the
account row is at its commit and waits for nobody; who is waited for on a key waits, if
at all, for the account row. `LedgerServesPostings` rests on `PostingInv`: a
grant, debit or reset key has a posting only if it has a settled event, and (by
`EventInv`) an event only if it has a posting, so that looking for one is looking for
the other; and a call past its insert is about to post for its own row or for one that
is committed.

`FulfilmentInv` says of every handler what it has achieved at its step (`Sound`):
the key it posts belongs to its event, a grant is under way only after the reset,
a top-up is marked or answered only after its posting. Postings are only added
(`Grows`), so what one handler does cannot make another unsound. `SerialInv` adds
that handlers at work have different keys and that a handler about to post has a
key without a posting (`PostsAreFresh`); with `GrantFollowsReset` this excludes a
reset after the grant. `PaymentInv` builds on it: a payment in hand is still owed
(`PaymentsInHand`), so that whatever sets its purchase back to paid is the only
handler of it, and answers only after it has marked the purchase again.
`HandlersKeepContract` maps each step to a step of `KeyedPosting` or a stutter; it
needs only `FulfilmentInv`.

Of campaigns, `BaseInv` is the typing of tables and processes, with what each step has
in hand. `OrderInv` follows each enrollment through its steps: handled rows stay
handled, and unless the enrollment was outrun a step send exists only if the steps before
it were mailed, and the index it has reached, or a late handler sets it back to, lies
behind the mailed rows. The case is decided where the handler reads the index
(`LoadEnrollment`): it is that of the row in hand or an earlier one, or the enrollment is
outrun. `WithinInv` keeps the index within the sequence for outrun enrollments too.
`OnceInv` follows, for a row that is not at risk, the right to mail it: it is
with the one process that is to publish its job, with the one job, or with the one
handler that has taken it. The refinement rests on `OrderInv` and on two facts: a
handler about to mail read an enrollment that is not `Closed`, and `Closed` only grows
because an enrollment never becomes active again and a contact stays barred.

`FreshInv` says of an enrollment that its creator has yet to pass on that it is in one
process's hands, and has no step send and no scheduling job. Over it, `CountInv` gives
`CountsWhatItEnrolled`: until a run is halted, its job is in one place, nothing is
created for the run before the job's process has checked, and what that process has
made when it counts is all there is. `NoneIsLost` needs three more, each for
enrollments that are not halted. By `TokenInv` a pending step send has exactly one
token, its waiting job or the process that is to publish or to handle it (`OnceInv`
has at most one, for rows not at risk; here none is lost either). By `ForwardInv` the
index of an enrollment only moves forward, and when the step it is at was mailed and
recorded, the process that recorded it is about to advance it; an outrun enrollment is
always halted (`OutrunIsHalted`), because the job of its step was delivered twice. By
`BegunInv` an active enrollment whose step has no row yet has somebody to create it: a
scheduling job, or a process on its way there. These are the four things that can be true of the step an
enrollment is at: no row, pending, recorded, or skipped, and a skip is what `Stranded`
means.

Of roles, `RolesInv` records what the checks have established for each planned
write (`Decided`): it leaves ownership as it was when the target was read, another
member's new roles are below the actor's authority and without ownership, the actor's own
still let it manage members, and `admin` among them is given by an owner or was found
there. It holds whatever overlaps, and gives `OthersStayBelow`; and since the target's
ownership at the write is that of the read unless it has moved, also the others. A
transfer keeps one owner because both its rows are as they were (`TransferKeepsOneOwner`).

Only model-checked: liveness (`EveryCallEnds`, `PaidIsFulfilled`,
`EveryEnrollmentEnds`, `BarredIsLeftAlone`), which is beyond
this prover, and the five violations. Every invariant and every action or refinement
property of the passing runs is a theorem.

## 5. Plan

The ledger, the fulfilment of payments, campaigns over the queue, and member roles
are done. What could follow, in order of importance:

1. **Contacts**: the read-modify-write of `addContactsToSegment`, whose hazard is
   listed without a property.
2. **Credit pricing** (`normalization.ts`) as a pure module over bounded inputs.

## 6. Not modelled

Formatting, validation schemas, prompts, templates and rendering, HTTP routing,
the Better Auth library, UI, deployment: no state that the properties above
depend on. Reads and single-row writes of contacts and of billing entitlements
have no protocol beyond one statement.

Measured in lines, most of the repository is of this kind: infrastructure programs,
React components, tool definitions, scripts, and thin handlers that validate an input
and call one service or one query. They keep no state between two steps and have no
order of events that could go wrong, so that a module about them would only restate
them. The modules cover the services that keep state over several steps.

Within the modelled parts: the number of attempts, delays and back-off of jobs and
the protocol of each queue provider; the e-mail event log, opens and clicks;
edits of a sequence while it runs; the contents of segments; mail to owners; the
creation and deletion of organizations; API keys and sessions.
