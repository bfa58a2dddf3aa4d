# TLA+ models of minicrm

Formal models of the parts of this repository where correctness depends on the
order of steps: a request and a cron job on one row, a provider that answers
late, a process that dies between two commits.  Each module is translated from
the TypeScript and SQL under `src/server/src` and `src/db/migrations`; line
ranges are in `PROJECT.json`.

- [The system](#the-system)
- [What makes it hard](#what-makes-it-hard)
- [Modules](#modules)
- [Sending one message](#sending-one-message)
- [Reading one mailbox](#reading-one-mailbox)
- [Advancing a sequence](#advancing-a-sequence)
- [Delivering a webhook](#delivering-a-webhook)
- [Rolling out a flag](#rolling-out-a-flag)
- [The group gate](#the-group-gate)
- [Runs](#runs)
- [Proofs](#proofs)
- [Divergences found](#divergences-found)
- [Not modelled](#not-modelled)
- [What is left](#what-is-left)

## The system

minicrm is one Express server (possibly several processes) over one PostgreSQL
database, with a React client.  All state that outlives a request is in
PostgreSQL; processes coordinate only through it (row locks, advisory locks,
unique constraints, conditional updates).  Background work runs in-process from
`scheduledJobs.ts`.

| Component | State it keeps | Operations | Correct when |
| --- | --- | --- | --- |
| Send path (`emailSendService`, `emailSendIntentService`) | `email_send_intents`, `email_send_ledger` | send, repeat, settle, file, sweep | no double mail, no double filing, every send settled and audited, the ceiling holds |
| Email sync (`emailSyncService`) | `connected_accounts.sync_*`, `email_messages` | claim due mailboxes, commit a page, backfill, record a failure | a page and its cursor are committed together, no message is skipped however ticks overlap, a mailbox that keeps failing retires and says so |
| Sync jobs (`emailSyncJobService`) | `email_sync_jobs` | start, advance, complete, retire a stalled one | at most one live job per mailbox, a restart resumes it |
| Connected accounts (`connectedAccountService`) | tokens, status, OAuth flow state | connect, refresh a token under the row's lock, pause, disconnect | a rotated refresh token is not lost, a flow state is used once |
| Mail providers (`services/mail/*`) | the mailbox, outside | read a page, submit a message | an outcome is called a refusal only if nothing went |
| Matching and links (`emailMatchingService`) | `email_links` | match addresses to records, link by hand | a removed link is not restored |
| Record merge (`recordMergeLock`, `contactService`, `leadsService`) | contacts, leads and what names them | hold, merge, convert | nothing is left naming a record that is gone |
| Erasure (`gdprService`, `mail/gdprRedaction`) | redaction tombstones | erase a person | nothing ingested later restores the person |
| Thread privacy (`emailPrivacyService`, `emailMessageService`) | `is_private`, `thread_private` | set, inherit | a message filed late into a private thread is private |
| Sequences (`sequenceService`) | `sales_sequences`, their steps, `sequence_enrollments` and its log | enrol, advance due steps, unenrol, add, move and delete steps | a step fires once for each arrival at it, no enrollment is left without a step, every enrollment ends |
| Webhooks (`webhookService`) | `webhook_subscriptions`, `webhook_delivery_logs`, timers of the process | dispatch, deliver with retries, administer | what the log calls delivered was, a retry that is dropped has left its failures on record, only exhaustion marks a subscription failed |
| Retention (`retentionService`) | all log tables | purge, retire stalled jobs | nothing live is purged |
| Scheduled jobs (`scheduledJobs`) | one `running` flag per job | tick | a run never overlaps itself in one process |
| Login lockout (`authService`, login-attempt store) | failures in a window | record, lock, reset | a locked account does not log in |
| AI sessions and token budget | usage rows | check, record | the budget bounds usage |
| Feature flags (`featureFlagService`) | `feature_flags`, `feature_flag_groups`, a cache of rows per process | advance a rollout, edit, group, evaluate | a tick carries out the plan as it stands, every change is audited, a closed group is closed everywhere within the cache's time to live |
| Deals, stages, leads, contacts, accounts, notes, tasks, tags, teams, roles | their tables | CRUD with audit | access rules, audit in the same transaction |
| Import, bulk edit, automation rules | jobs, rules, logs | run, retry | a row is applied once |
| Sign-in (SSO, SCIM, MFA, sessions) | users, groups, secrets | provision, enrol, verify | single use of codes |
| Audit log and partitions | `audit_log` | append, pre-create partitions | append-only |
| Coverage agent and test selection | coverage database | ingest, reconcile, select | development tooling |
| Client, shared schemas, QA | browser state | screens | no protocol of its own |

How they meet: the controller calls the send path; the send path calls a mail
provider and, like the sync engine, locks intents and writes messages; sync and
the send path both hold matched records against a merge and wait for an erasure;
the scheduler ticks sync (which sweeps intents first) and the retention purge
(which sweeps and then deletes); deleting a mailbox deletes its intents, jobs
and messages by foreign key.  Sequences, webhooks and flags touch the mail
components only as callers do: a flag decides whether a mailbox is read (an input
of `MailboxSync`), and an event of any record is dispatched after its commit (an
input of `WebhookDelivery`).  They share no row and no lock with each other,
which is why they are modules of their own and are not composed.

## What makes it hard

`PROJECT.json` lists the hazards at their lines.  The ones that shaped
the models:

- The provider's acceptance and the database write are not atomic
  (`emailSendService.ts:542`), and the provider may decide after the request
  timed out (`mail/sendOutcome.ts:111`).
- Two requests race for one idempotency key (`emailSendIntentService.ts:346`)
  and two sends of one user for the last place under the hourly ceiling
  (`emailSendIntentService.ts:322`).
- The sync engine may read the Sent copy and file the message before the
  request does (`emailSendService.ts:641`).
- Every settling write may fail and is then only logged
  (`emailSendService.ts:558`, `:604`); the sweep, the retention purge and a
  disconnect run beside all of it.
- A sync tick may outlive its lease, and another process then reads the same
  mailbox from the same cursor (`emailSyncService.ts:452`).
- A tick reads a cursor, a page, a pause flag and a token at different moments
  and commits later; the owner, the provider's numbering and the nightly job
  move meanwhile (`emailSyncService.ts:389`, `:448`, `:464`,
  `retentionService.ts:150`).
- A job left open by a dead process keeps a unique index taken until some tick
  goes back to it (`emailSyncService.ts:535`).
- The sequence cron reads what is due once, without a claim or a lock, and writes
  each row later by its id alone (`sequenceService.ts:881`), beside the crons of
  other processes, on to a step it picked before its transaction
  (`:838`), in a transaction of three statements (`:843`), while steps are moved
  and deleted and contacts unenrolled (`:500`).
- A webhook's retries are timers of the process (`webhookService.ts:284`), its log
  writes may fail (`:217`), and the subscription it marks failed may have been
  disabled, re-enabled or deleted since (`:264`); the attempt counter, the maximum
  and the table of delays have to agree (`:283`).
- Ticks of several processes and an administrator meet on one rollout plan
  (`featureFlagService.ts:1701`); a flag may join a group that is being deleted
  (`:1392`); a read in flight is stored in a cache that was emptied meanwhile
  (`:174`), with a time to live that counts from its answer (`:152`).

## Modules

| Module | What it is |
| --- | --- |
| `SendIntent` | A send from the request to the filed message: requests, the provider's view of their messages, the `email_send_intents` row of each key with its lock, the ledger, the sync page that files Sent copies, the sweep, the purge, a disconnect |
| `SendPromise` | The abstract specification of an idempotency key: try, mail, refuse, doubt, file, forget. No requests, rows, locks or clocks |
| `MCSendIntent` | Four requests, two keys, one user and one mailbox, for TLC |
| `SendIntentProofs` | Theorems about `SendIntent`: type, double mail, refusals, filing, evidence, purge, disconnect, ceiling |
| `SendRefinementProofs` | `SendIntent` implements `SendPromise` |
| `MailboxSync` | The ticks of several processes on one mailbox: claim and lease, pages and cursors, the backfill job, failures and retirement, pauses, credentials, renumbering |
| `MailboxPromise` | The abstract specification of reading a mailbox: mail arrives, a page is read in one instant from a place that was reached, a job opens and ends. No workers, leases or numberings |
| `MCMailboxSync` | Symmetry of the workers, for TLC |
| `MailboxSyncProofs` | Theorems about `MailboxSync`: type, skipped mail, retirement and what ends it, pause, completed jobs, the promise |
| `SequenceEnrollment` | A sequence, its steps and its enrollments: the ticks of several processes, each of which works its due rows side by side, the requests that enroll, unenroll, add, move and delete, the foreign keys and the locks they take |
| `EnrollmentPromise` | The abstract specification of an enrollment: note the steps enrollments stand on, fire a noted step once and move on in one instant, leave. No statements, locks or transactions |
| `MCSequence` | Which contact an enrollment is for, for TLC |
| `SequenceEnrollmentProofs` | Theorems about `SequenceEnrollment`: type, no enrollment without a step, one firing by a process and, where ticks keep apart, one in all for each arrival, one late step, the promise |
| `WebhookDelivery` | The chain of attempts of each event and subscription, its log rows and timers, restarts, and the subscription's status |
| `WebhookPromise` | The abstract specification of a delivery: try, take, deliver, give up, drop. No timers, log rows or subscription rows |
| `MCWebhook` | `WebhookDelivery`, for TLC |
| `WebhookDeliveryProofs` | Theorems about `WebhookDelivery`: type, delivered is final, failures on record, only exhaustion fails, the promise |
| `FeatureRollout` | The rollout percentage and plan of flags, the scheduler's ticks and the administrators' edits, under the row lock |
| `MCRollout` | `FeatureRollout`, for TLC |
| `FeatureRolloutProofs` | Theorems about `FeatureRollout`: type, a complete audit trail, ticks follow the plan |
| `FlagGate` | A flag, its group and the cache of one process: requests under two row locks and a foreign key, questions with reads in flight |
| `MCGate` | Symmetry of requests and of questions, for TLC |
| `FlagGateProofs` | Theorems about `FlagGate`: type, the gate shuts within the time to live of its closing and of the reads it overtook, a flag leaves its group audited |

Some definitions stand right before another of the same parameters and are
marked "Mutant of ...".  They are not used by the specification; each is a
plausible mistake in the code, kept to show that a named property would notice
it (`mutants` in `PROJECT.json`).

## Sending one message

**State.**  A request is one `POST /emails/send`; it builds one document with a
Message-ID of its own, so it also names the message.  `pc[r]` is where the
request stands, one value for each `await` at which another actor may step in
or the process may die; its final value is the answer the client gets.
`wire[r]` is the provider's own view of the message: nothing received, in
flight, accepted, refused.  It decides on its own (`ProviderDecides`), also
after the request gave up.

The row of `email_send_intents` under key `k` is `status[k]`, `claimant[k]` (the
request whose Message-ID the row carries), `idKnown[k]` (a provider id is
recorded), and two ages, `hourOld` (past `INTENT_UNSETTLED_AFTER_MS`) and
`monthOld` (past retention).  `locked[k]` is the row lock, or the uncommitted
insert that holds the unique index.  `attempts` are the requests that claimed
the row while it has existed: statements `WHERE id = $1` find it only then, so a
row deleted and created anew under the same key is another row.  `ledger` is the
part of `email_send_ledger` inside the hour; `filings` and `reported` are the
audit entries a property needs.

**Actions.**

| Action | Code |
| --- | --- |
| `ReplaySend`, `RefuseEarly`, `Compose` | `replaySend` and all that precedes the claim; the reads and the composing of the document are one step, because nothing they write outlives it |
| `BeginClaim`, `ClaimRolledBack`, `ClaimTaken`, `AnswerTaken`, `CommitClaim` | `claimSendIntent`: the user's advisory lock and the row are held from the first step to the commit; the count is taken in between, of what is committed |
| `RecordPreparedMessageId`, `NeverSubmitted`, `Submit`, `ProviderAnswers` | `deliver` and the drivers' outcome classes (`mail/sendOutcome.ts`) |
| `MarkIntentSent`, `MarkIntentNotSent`, `MarkIntentUnconfirmed`, `MarkSentFails`, `SettleFails` | the settling writes, each of which asks for `status = 'pending'`, and their logged failures |
| `LockIntent`, `RecordSent`, `RecordSentFails` | `recordSent`: the lock and the status read under it, then the transaction's end |
| `LockReconcilableIntents`, `FileReconciledIntents` | the part of the sync engine's page that files Sent copies, with a savepoint for each row |
| `SweepUnsettledIntents`, `PurgeSweeps`, `PurgeDeletes` | `sweepUnsettledIntents` and the two statements of `purgeEmailSendIntents` |
| `DisconnectMailbox` | `deleteConnectedAccount` and its `ON DELETE CASCADE` |
| `Die` | a process death, or a throw before the provider is called |

**Abstractions.**  A document, its recipients and its links are not modelled: a
message is the request that built it and a body is what `requestHash` compares.
A provider that rewrites the Message-ID is one of `Rewritten`.  A page of Sent
copies is any set of accepted messages of one mailbox, so that a copy may be
seen at once, late or never; one such page is open at a time.  The hour, the
month and the ledger's window pass as steps, each possible as soon as the code
allows it; the purge's two statements are less than an hour apart
(`HourPasses`), and no request is still running a month after its claim
(`MonthPasses`).

**The promise.**  `SendPromise` says for each key what the person who pressed
Send relies on, and `KeepsPromise` in `SendIntent` maps the row to it: `pending`
and `sent` are both "trying", `unconfirmed` is "doubtful", and the counts are of
the requests that claimed the present row.  Deleting a row is `Forget`: a key
lives as long as its intent.

## Reading one mailbox

**State.**  A worker is the scheduler of one server process; within a process
ticks do not overlap (`skipWhileRunning`), and across processes they are kept
apart only by `sync_next_attempt_at`.  `pc[w]` is again one value per `await`.
The provider holds messages `1..delivered`; a cursor is a position in that order
under the numbering that issued it, and a cursor of another numbering is
refused.  `stored` is what the engine has dealt with.  Of `connected_accounts`
the model has the cursor, `nextAttempt` (null, in the future, past), the failure
count, the status and the pause; of `email_sync_jobs` the newest row, with
`floor`, the number of messages there were when it was opened.  A tick's
`handle` says whether the job it works on is still the newest.  `credential` is
"valid" or "dying" (the grant is revoked, the access token still lives), then
"stale" or "dead" once the token expired.  `suspensions`, `revocations` and
`readsPaused` are history: what was audited in this retirement, and what a tick
asked for after a pause.

**Actions.**

| Action | Code |
| --- | --- |
| `Claim`, `SkipByFlag` | `claimAccountsDueForSync`, and a mailbox whose owner does not have the feature: its lease stays taken |
| `Authorize`, `RefreshRefused` | `getAccountAuthForSync`; the refresh is one step under the row's lock |
| `Route`, `CreateEmailSyncJob` | backfill or one incremental page; adopt the open job or open one |
| `CheckPaused`, `FetchSince`, `CommitPage`, `UpdateProgress`, `CompleteEmailSyncJob` | the loop of a backfill and the single incremental page; messages, cursor and lease are one transaction |
| `SyncThrows`, `FailEmailSyncJob`, `RecordSyncFailure`, `Die` | every throw and every death, the failing of the job, the failure count with its backoff and its ceiling |
| `DueTimePasses`, `FailStaleEmailSyncJobs` | a lease or backoff runs out, perhaps before its tick is over; the nightly stall sweep |
| `SetPaused`, `PersonRefreshes`, `ConnectionTestPasses`, `ConnectionRefused`, `Reconnect` | what the owner and the owner's sends do to the same row |
| `Deliver`, `Renumber`, `TokenExpires`, `GrantRevoked` | the provider |

**Abstractions.**  The order in which a provider lists messages is one order for
all providers: Gmail lists newest first and anchors its history before it starts
a backfill, which comes to the same statement, that what is behind a cursor was
dealt with.  Excluded and redacted messages count as dealt with.  The stall sweep
may fire whenever a job is open, the 24 hours being time that may pass at any
point.  One mailbox is modelled: the mailboxes of a tick share no state but the
process.

**The promise.**  `MailboxPromise` keeps the mail, what was dealt with, one
position and one job.  `KeepsPromise` maps the stored cursor's position to it;
the cursors in the ticks' hands and the numberings have no counterpart.  A page
is one step there, from any place up to which all was dealt with, so that a late
tick's page, a page after a renumbering and a page in turn are the same thing;
the position may fall back, never run ahead.  A job opens only when none is open
and ends once.

## Advancing a sequence

**State.**  One sequence (`seq`: on, off, deleted), its steps (`order[s]`, zero
for a row that is not there) and its enrollments (`status`, `at` for
`current_step_id`, `due` for a `next_action_at` that has passed).  A process runs one
tick at a time (`skipWhileRunning`), and nothing keeps the ticks of two processes
apart: `work[w][e]` is how far the tick of process `w` is with a row: `queued` (it is in the result of the one query),
`read` (the next step was read), `firing` (the activity and the log row are
inserted), `advancing` (the enrollment row is written, not committed).  `cap`,
`capOrder` and `next` are what that process read and when.  `seqLock` and `stepLock` are
the deletions in progress.  The locks a tick's transaction takes are not
variables: `KeyShared` derives the KEY SHARE lock a foreign key takes on each
step a transaction has named, and `RowLocked` the lock of its `UPDATE` on the
enrollment.  `visits`, `fired`, `firedBy` and `late` are history: arrivals at a
step, activities created, in all and by each process, and those created after the
row had ended; so is `overlapped`, the rows two processes have held at once.

| Action | Code |
| --- | --- |
| `AdvanceDueEnrollments` | the query of `advanceDueEnrollments`, with its join on the step and the sequence; also of rows another process is at work on |
| `ReadNextStep`, `FireStep`, `AdvanceRow`, `CommitStep` | `processEnrollmentStep`: the read before the transaction, the inserts, the `UPDATE ... WHERE id`, the commit |
| `StepIsGone`, `StepFails`, `Die` | a foreign key that finds its step deleted, any other error, a restart: the transaction is rolled back |
| `BeginEnroll`, `EnrollContact`, `EnrollFails` | `enrollContact`: the reads, then the insert under the unique index on active enrollments |
| `UnenrollContact` | `unenrollContact` |
| `LockStep`, `CountOnStep`, `DeleteStep`, `DeleteStepFails` | the three statements of `deleteStep`, any of which may fail |
| `LockSequence`, `CountEnrolled`, `DeleteSequence`, `DeleteSequenceFails` | the three of `deleteSequence`, with the cascade |
| `CreateStep`, `UpdateStep`, `SetEnabled` | `createStep`, `updateStep` with a sort order, the switch of `updateSequence` |

**Two processes.**  The operations guide warns that "Scaling to two replicas
double-fires all of them" and asks for one (`docs/operations.md:555-559`).  The
model has any number, so that what survives the double firing is told apart from
what does not.  Two ticks that both read a row fire its step twice, and the later
write may set back a row the other has moved on.  What still holds is that no
process fires an arrival twice (`StepsFireOnce`), that nothing is stranded
(`NeverStranded`), that a late step is one for each process (`OneLateStepEach`)
and that enrollments end.  `FireOncePerArrival` is exact, neither twice nor
skipped, for every row no two processes have held at once; with one process that
is every row, which is the theorem `OneProcessFiresOnce`.

**Abstractions.**  What a step does (a task, a call, its texts) is one firing.  A
chunk of five rows at a time is replaced by any order.  Delays are a due time
that passes at any moment, or at once.  The foreign key of the enrollment's step
is checked whenever the row is written; PostgreSQL skips the check if the row
already stands on that step, and a write it lets through beside a deletion of the
step leaves the rows as if it had been committed before the deletion.

**The promise.**  In `EnrollmentPromise` a process takes note of the steps
enrollments stand on, fires each step it noted at most once, and moves the
enrollment on or finishes it in that instant; a contact is in the sequence once at
a time, an enrollment that has ended is noted no more, and one that was deleted
fires nothing.  `KeepsPromise` maps `cap` to what a process has noted, an active
row to one that is on, and everything a transaction has inserted but not
committed to nothing.

## Delivering a webhook

**State.**  `chain[e][s]` is where `deliverWithRetry` is for one event and one
subscription: `ready` to post, then what came of it (`accepted`, `refused`,
`threw`), then `waiting` on a timer or `failing`; in the end `delivered`,
`exhausted` or `lost` with the process.  `log` is `webhook_delivery_logs` by
attempt, `status` is the subscription's.  `answered` and `unlogged` are history:
whether the endpoint answered the attempt with a 2xx, and whether the database
refused a row.

| Action | Code |
| --- | --- |
| `DispatchWebhookEvent` | `dispatchWebhookEvent`: one chain for each subscription active then, none if the query fails |
| `EndpointAccepts`, `AttemptFails` | the request, with its ten seconds, and every throw before it |
| `LogDelivered`, `LogRefused`, `LogAnswerFails` | the log row of an answer; when it cannot be written, the `catch` of network errors takes over, also after an answer of 2xx |
| `LogThrow`, `LogThrowFails` | the log row written by that `catch`, and its own failure |
| `RetryTimer`, `MarkFailed` | the timer of the next attempt; giving up |
| `CreateWebhookSubscription`, `UpdateWebhookSubscription`, `DeleteWebhookSubscription` | the administrator |
| `Die` | a restart, which forgets every chain |

**Abstractions.**  Payloads, signatures, URL checks and event filters are left
out, as is the length of the delays.  The endpoint keeps no state.  An event
accepted but not logged is posted again: delivery is at least once, as the code
has it, and no property says more.

**The promise.**  `WebhookPromise` tells a receiver that an event goes once to
each subscription open at that moment, is tried at most `MaxAttempts` times, is
given up only after all of them, and is never taken up again once it is
delivered, given up or dropped.  `KeepsPromise` counts an attempt as made in vain
as soon as it cannot succeed any more: when the request fails, or when the row of
a 2xx cannot be written.  A lost chain's count is forgotten, as it is in the code.

## Rolling out a flag

**State.**  `row[f]` is `rollout_percentage` and `rollout_stages`; `lock[f]` is
the row lock; `audit[f]` the newest entry on the percentage.  A `Tick` is one run
of `advanceRolloutStages`, in whichever process: `setInterval` does not wait for
the last one, so ticks of one process overlap too.  `todo` are the candidates it
still has to come to and `now` the time it took once.  `seen[w]` is what a
holder of the lock read under it.

| Action | Code |
| --- | --- |
| `ScanCandidates`, `LockCandidate`, `SkipCandidate` | the scan without a lock, and `FOR UPDATE SKIP LOCKED` |
| `NothingDue`, `AdvanceStage`, `ConsumeStage` | the three ends of one flag's transaction: no stage is due; the last due stage is applied and audited; it says what the percentage is already |
| `AdvanceFails`, `ConnectFails`, `TickDies`, `TickEnds` | an error within a transaction (the loop goes on), an error of `pool.connect` (it does not), a death, the end |
| `BeginEdit`, `CommitEdit`, `EditFails` | `updateFeatureFlag`, and `setAiEnabled` and `deleteFlagGroup` as edits that leave both columns |

**Abstractions.**  Percentages are a small set, times are small numbers, a plan
is a set of stages with different times (`rolloutStagesSchema` asks for it).

## The group gate

**State.**  One flag and one group: `group` (none, on, off), `member` (the flag's
`group_key` names it), `groupLock` and `flagLock`, and `audit`, the newest entry
on `group_key`.  One process: its `cache` of flag rows with the time it expires,
and for each question `a` it is answering, `step[a]`, the row `has[a]` it works
from and the time `asked[a]`.  Every committed write either empties this cache
(this process served it) or does not (another did).  `staleAt` is history: the
moment the flag got into a group that is off or, if that is later, the moment the
last answer came whose rows were read before it.

| Action | Code |
| --- | --- |
| `CreateFlagGroup`, `UpdateFlagGroup` | the same; an `enable_at` that comes due lifts the gate as an update does |
| `BeginUpdate`, `CommitJoin`, `CommitLeave`, `UpdateFails` | `updateFeatureFlag` with a `group_key`: the flag is locked, the group looked up without a lock, and the foreign key has the last word |
| `BeginDelete`, `ReadMembers`, `CommitDelete`, `DeleteFails` | `deleteFlagGroup`: the group is locked, then the flags in it, then they are unassigned and audited |
| `AskCached`, `LoadRows`, `RowsArrive`, `StoreRows` | `getCachedRows`: a valid cache, or the query of the flags (`:126`), the clock read once its answer is there (`:152`), and a second query, after which the rows are stored whatever was invalidated meanwhile |
| `RefuseAtGate`, `PassGate`, `Answered` | the gate, which asks the database for the group, and what may follow it |

**Abstractions.**  The question is asked for a user no override, team opt-out or
beta list speaks for; past the gate the answer is either.  A question is dated by
the moment its query is read by the database, which is when it was asked or later.

**What a closed gate promises.**  Rows are cached for a time to live from the
answer that brought them, and nothing bounds how long an answer takes.  A read
that the closing overtakes is therefore served a time to live beyond its answer,
not beyond the closing; `ShutMeansNo` says that this is all: a question is refused
once the time to live has passed since the closing and since the last such answer.

## Runs

| Run | Checks | Bounds |
| --- | --- | --- |
| `send_retry` | `TypeOK`, `RefusalSentNothing`, `FiledOnce`, `EvidenceIsTrue`, `AtMostOneMail`, `KeepsPromise`, `EverySendSettles`, `EveryMailAudited` | a compose and its repeat, one key, a provider that rewrites one Message-ID, one mailbox that may be disconnected, with fairness |
| `send_ceiling` | `CeilingHolds`, `OnlyRefusalsUncounted`, `NoIntentDeletedUnaudited` | two composes of one user under two keys, a ceiling of one, no disconnect |
| `send_disconnect` | `NoIntentDeletedUnaudited` is violated | as `send_retry` |
| `sync_read` | `TypeOK`, `NoMailSkipped`, `CompletedJobReadItAll`, `PauseStopsReading`, `KeepsPromise` | two processes, two messages on pages of one, two pages a tick, retirement at the first failure |
| `sync_retire` | `RetirementIsAudited` | two processes, an OAuth mailbox, retirement at the second failure |
| `sync_live` | `NoMailSkipped`, `MailIsRead`, `JobsEnd` | one process, two messages, one page a tick, two numberings, retirement at the second failure, with fairness |
| `sync_retired` | `RetiredWaitsForOwner` is violated | one process, an OAuth mailbox |
| `sync_paused_job` | `PausedJobStaysOpen` is violated | one process |
| `seq_advance` | `TypeOK`, `NeverStranded`, `StepsFireOnce`, `FireOncePerArrival`, `OneLateStepEach`, `EnrollmentsEnd`, `KeepsPromise` | two processes, one enrollment, two steps, two sort orders, a move or switch, with fairness |
| `hook_retry` | `TypeOK`, `LoggedSuccessIsFinal`, `FailuresAreOnRecord`, `OnlyExhaustionFails`, `DeliveryEnds`, `KeepsPromise` | two events, one subscription, three attempts, with fairness |
| `flag_rollout` | `TypeOK`, `ChangesAreAudited`, `PlanIsCarriedOut`, `DueStagesAdvance` | one flag, two ticks, two administrators, two percentages, two times, three edits, with fairness |
| `flag_gate` | `TypeOK`, `ShutMeansNo`, `MembershipIsAudited` | two administrators, two questions, a time to live of two in a time of three, four requests |

**Why these bounds are enough.**  What can go wrong under one key takes two
requests, one to leave the row in some state and one to find it; `send_retry` has
them with every crash, late answer, sweep, purge and page between.  A third that
claims the row between the two is covered by the proofs, which have any number.
Rows of different keys meet only in the ledger, in a page of copies and in the
sweep, and `send_ceiling` has two; one place under the ceiling and two claims is
the whole race for it.  For a mailbox, two ticks are enough for one to overwrite
what the other committed; two messages on pages of one make a backfill of two
pages, with a page boundary for a pause, a crash or a renumbering to fall on; two
numberings make every cursor of the first invalid.  `OAuth = FALSE` leaves the
credential out of the runs that are not about it, and `sync_retire` puts it back.
With retirement at the second failure, `sync_live` has a failure that is backed off
and retried before one that retires.

Enrollments meet only in the unique index and in the locks on steps, which are
compatible with each other, so one enrollment between two steps sees what any
does: a step deleted under it, one added before or behind it.  Two processes are
two ticks on its row.  A next step that moves below the current one after it was
read takes a third sort order, which one run with liveness cannot afford beside
two processes: of the safety properties the proofs show it for any number of
orders.  What `EnrollmentPromise` says of
two enrollments of one contact needs two, and is shown by the proof.  Three attempts are a first, a
middle and a last one; two events give one subscription a chain that fails beside
one that succeeds.  Two ticks and two administrators are two of each kind of
holder of a row; two times give a plan with a stage behind and one ahead.  A time
to live of two has a moment inside it, and three units let a row be read before
the gate closes, answered and stored after, and expire.  The safety properties are proved
beyond all these bounds (below); the runs are mainly there to find a wrong
property or a wrong model cheaply.

The `send_*` runs and `seq_advance` do not check for deadlock: a state in which
every request has its answer and every row is filed or gone, or in which the
sequence is deleted, is an end.  The others do.

**Fairness.**  In `SendIntent`: a running request takes its next step or dies; a
page's transaction ends; an hour that can pass passes; the scheduler sweeps on
every tick and its `UPDATE` waits in the row lock's queue, so holders that come
and go cannot keep it out (strong fairness); the purge runs its second statement
after the first.  No fairness is assumed of the provider, the client or the
owner.  In `MailboxSync`: every process keeps ticking and a tick keeps stepping;
leases and backoffs run out; and no single step of a tick fails, dies or is
skipped by the feature flag every time it is reached (strong fairness on each
step that makes progress).  Without the last a mailbox whose every page is lost
in a crash would never be read, and no code could help it.

In `SequenceEnrollment`: the cron fires in some process, due times pass, a deletion that has a
lock goes on, a statement on a row gets its turn among those that wait for the
same lock (strong fairness), and errors and deaths come to an end (`FaultsStop`).
Nobody is obliged to edit, enroll or unenroll.  In `WebhookDelivery`: each await
of a chain settles, since requests are aborted after ten seconds, and timers
fire; a death at any moment is still allowed.  In `FeatureRollout`: the interval
keeps firing and a tick keeps stepping, a transaction of an administrator ends,
and some tick gets the row of a flag and commits it if ticks come to it again and
again (strong fairness).  `FlagGate` needs none.

## Proofs

The theorems hold for every set of requests, keys, users, mailboxes and
processes and every value of the bounds, and likewise for every set of steps,
enrollments, events, subscriptions, flags, ticks and questions.  The assumptions
are named in the modules.  `SendIntentConstants` and `MailboxSyncConstants`: the
functions have their domains, `NoRequest` and `SyncPage` are not requests, a body
names its mailbox, the numbers are numbers, and there are finitely many requests.
`SequenceConstants`: `NoStep` is not a step, `ContactOf` is a function.
`WebhookConstants`: there is at least one attempt.  `RolloutConstants`: a tick is
not a request, `Nobody` is neither and `Null` is not a percentage.
`GateConstants`: the time to live is at least one.  No invariant is assumed that
is not proved.

**Send path** (`SendIntentProofs`).  `AtMostOneMail` is not inductive: it says
nothing of a request that is about to submit.  The invariants are layered, each
inductive given those before it:

1. `TypeOK`.
2. `WireInv` relates a request's place to the provider's view: nothing was
   submitted before the submission, and a request that takes its send for
   refused has nothing at the provider.
3. `RowInv` says that a row names its claimant; that every other request that
   claimed it, and the claimant itself once the row says `not_sent`, is over
   with nothing at the provider, now or later (`Gone`); and that a request that
   is claiming or filing holds the row's lock.  A retry of a refused send is then
   safe, and `NoDoubleMail` and `RefusalIsSafe` follow.
4. `FilingInv` says that a message filed once has a row that says `filed`, that
   whoever is about to file under the lock holds a row that does not, and that a
   row called sent, or locked by the sync page, has a message the provider took.
   `NoDoubleFiling` and `EvidenceTrue` follow.
5. `PurgeInv` says that between the purge's statements no aged row is unsettled
   and that no request still works on a row past retention, which gives
   `PurgeIsAudited` when no mailbox is disconnected (`Disconnectable = {}`);
   `send_disconnect` shows why that assumption is needed.  Without it,
   `OnlyDisconnectLosesIntents` says that the disconnect is the whole exception:
   an unsettled row goes only in the step that disconnects its own mailbox.
6. `CeilingInv` says that one request of a user claims at a time and that what it
   counted leaves room for it until it commits; `NeverOverCeiling` follows.
7. `UncountsOnlyRefusals` needs no more than `WireInv` and `RowInv`: what a
   refusal takes out of the ledger is the row's claimant, which has nothing at
   the provider, and the requests that claimed the row before it, which are
   `Gone`.

**Refinement** (`SendRefinementProofs`).  One lemma for each kind of step:
`ClaimIsTry`, `AcceptanceIsMail`, `RefusalIsRefuse`, `UnconfirmIsDoubt`,
`FilingIsFile`, `DeletingIsForget`; `SameRowsSamePromise` for the steps that
stutter.  `PromiseKept` combines them under the invariants above.

**Mailbox** (`MailboxSyncProofs`).  `NoMailSkipped` is inductive as it stands,
because it speaks of the cursors in the ticks' hands as well as of the stored
one: that is why a tick that outlives its lease does no harm.
`RetirementAudited` needs that below the ceiling no suspension is on record
(`RetirementInv`); `PauseStops` that a tick which asked for a page since the pause
is past the fetch (`PauseInv`); and `CompleteMeansRead` that the last page of a
tick that owns the open job ends at or beyond `floor`, and that a tick about to
complete it has stored that far (`JobInv`).  `RetiredUntilOwnerOrPage` goes through
every action: a retired mailbox is put back in the schedule only by its owner's
test or consent, or by the page of a tick that had claimed it before it retired.
The divergence of `sync_retired` is thereby the only one of its kind.

`PromiseKept` needs one strengthening, `NothingInvented`: no cursor, stored, held
or on a page, is beyond what the mailbox holds.  A committed page is then a `Read`
by `NoMailSkipped` before and after it, completing a job is an `EndJob` by
`JobInv`, and all that the ticks, the owner and the provider do beside that is
invisible.

**Sequence** (`SequenceEnrollmentProofs`).  The invariant joins what the locks
keep to what the ticks remember.  `KeysHold`: a step a transaction has named is
there and nobody is deleting it.  `CountsHold`: a deletion that counted no active
enrollment will find none.  `NeverStranded` follows from the two: an enrollment
reaches a step only through a foreign key a deletion excludes.  `Owed`: a process
has fired a step it holds, or on which the row stands, less often than the row
arrived there; a second tick can only add arrivals and never fires for the first,
so `StepsFireOnce` holds for any number of processes.  `AloneMatchesRow`: of a row
ticks have not overlapped on, one process at most is at work, and if the row is
still active it stands on the step that was read.  `Accounts` states what each
kind of such a row owes in activities, and `FireOncePerArrival` is inductive with
it.  `LateIsOver`: a process that fired a row late no longer holds it, and the row
is over, which gives `OneLateStepEach`.  `OneProcessFiresOnce` adds that one
process never overlaps with itself.

`PromiseKept` joins these with `GoneIsGone`: nothing comes back to a sequence that
was deleted.  `InsertIsEnroll`, `ReadIsNote`, `UnenrollIsLeave`, `CommitIsFire` and
`DeletionIsDeleteAll` treat the steps the promise sees, `QuietSteps` the others.
The commit is the step in which the promise fires and moves: everything the
transaction inserted before becomes visible with it.

**Webhook** (`WebhookDeliveryProofs`).  `AttemptsInStep`: a chain waits only with
attempts left and gives up only after the last.  `Untouched`: a pair without a
dispatch has no rows.  `RowsInStep`: the attempt under way has no row yet and no
earlier one is a 2xx.  `LoggedSuccessIsFinal` and `FailuresAreOnRecord` are then
inductive, and `OnlyExhaustionFails` is a fact of the one step that marks.

`PromiseKept` needs only `TypeOK`, `AttemptsInStep` and `Untouched`.  One lemma
for each kind of step: `AcceptanceIsTake`, `RowOfSuccessIsDeliver`,
`FailureIsTryInVain`, `MarkFailedIsGiveUp`, `DispatchIsHappen`, `DieIsRestart`,
`AdministerIsAdminister`; `QuietChain` for log rows of failures and timers.
`OnePlaceChanges`, on functions of two arguments, carries what one chain does over
to the promise's state.

**Rollout** (`FeatureRolloutProofs`).  `LockProtectsRow`: what a holder read under
the lock is what the row still says, so an edit cannot be overwritten by what a
tick saw before it; `TickTimeHasCome`: a tick's time is not ahead of the clock.
The two action properties follow step by step.

**Gate** (`FlagGateProofs`).  `LocksProtect` ties what a request read under its
locks to the rows, also between the deletion's read of the group's flags and its
commit, which gives `MembershipIsAudited`.  `ShutMeansNo` needs three facts:
nothing expires later than a time to live from now (`TimesInStep`), a row read
before the gate closed, cached or answered, expires within a time to live of
`staleAt` (`OldRowsExpire`), and only a question asked by then works from such a
row (`OldRowsAskedFor`).  A read still unanswered needs no clause: its answer moves
`staleAt`.  The bound is tight: with one unit less there is a counterexample, and
so there is with the closing alone in place of `staleAt`.

**Only model-checked**: liveness (`EverySendSettles`, `EveryMailAudited`,
`MailIsRead`, `JobsEnd`, `EnrollmentsEnd`, `DeliveryEnds`, `DueStagesAdvance`),
which is out of the prover's reach.  Every other property of the passing runs is
a theorem.

## Divergences found

Three runs end in a counterexample, each to a sentence of the repository; the
others below were met while modelling and have no run of their own.

1. **Disconnecting a mailbox deletes unsettled sends silently**
   (`send_disconnect`).  `sweepUnsettledIntents` says it runs before the purge
   "so no intent is deleted without its audit entry"
   (`emailSendIntentService.ts:686-687`).  `deleteConnectedAccount`
   (`connectedAccountService.ts:563`) deletes the mailbox without a sweep, and
   migration 184 deletes its intents by cascade: claim, submit, disconnect, and a
   message that went has neither a row nor an `email_send_unconfirmed` entry.
2. **A page in flight puts a retired mailbox back in the schedule**
   (`sync_retired`).  "A retired mailbox gets no next attempt at all: it waits
   for a connection test" (`emailSyncService.ts:682-683`).  When a person's send
   finds the grant revoked while a tick waits for its page, `markAuthExpired`
   parks the mailbox and `commitPage` (`emailSyncService.ts:383`) then makes it
   active with a next attempt.
3. **The stall sweep fails the job of a paused mailbox** (`sync_paused_job`).
   "The job stays open, so a resume carries on from this cursor"
   (`emailSyncService.ts:447`, `docs/dev/email-sync.md:431-432`).
   `failStaleEmailSyncJobs` (`retentionService.ts:150`) does not ask whether the
   mailbox is paused, so a pause of more than a day ends the backfill as failed,
   and the cursor then routes later ticks to single incremental pages.

Met while modelling:

- *A step after unenrolling.*  An unenrolled contact gets "no further steps"
  (`docs/user-guide/sequences.md:92`).  A tick that read the row before writes it
  after, by id alone (`sequenceService.ts:881`): the step fires, and if it was the
  last the row says completed.  `OneLateStepEach` says it is one step, or one for
  each process that had read the row.
- *A disabled webhook.*  Disabling is documented as a pause "without triggering
  the failure state" (`docs/webhooks.md:335`), and a failed subscription as one to
  which "no further deliveries are made" (`:276-277`).  A retry's timer asks
  nothing of the subscription, so it posts to both, and exhaustion writes failed
  over disabled (`webhookService.ts:264`).
- *An emptied cache.*  `invalidateCache` is described as "forcing the next read to
  hit the DB" (`featureFlagService.ts:94`).  A read in flight stores what it read
  before (`:174`), for a time to live that counts from its answer (`:152`), and the
  next one is answered from that.  `ShutMeansNo` bounds it.
- *Advancing stages* "invalidates the cache after each update"
  (`featureFlagService.ts:1667`); it does so once, after the last flag (`:1773`),
  and not at all when `pool.connect` throws in the loop.
- *Deleting a group* is documented as "only allowed when no flags are assigned to
  it" (`docs/admin-guide.md:653`); `deleteFlagGroup` unassigns them.
- *The evaluation order* in the docstring of `isFlagEnabledForUser` (`:679-685`)
  lacks the team and group steps the function has.

## Not modelled

The models cover the components whose correctness depends on the order of steps.
They are a small part of the lines: most of the repository is single-transaction
CRUD, screens, schemas, queries, migrations, tests and tooling, where a model would
repeat the code and find nothing a unit test does not.

- *Mail providers*: request building, parsing and transport are I/O; the models
  take the outcome classes.
- *In the send path*: the document, recipients and record links of an intent,
  thread privacy, and what an erasure or a merge does to an intent; a repeat of a filed send
  whose message was deleted since, which is told that it was sent (`RepeatAnswer`
  replays it).
- *In sync*: the test-only run-now, exclusion lists, matching, redaction, the
  order of the mailboxes within a tick, progress counts, the purge of finished
  jobs.
- *In connected accounts*: the OAuth flow state, encryption, and what a crash in
  the middle of a refresh loses.
- *In sequences*: creating a sequence and its wording, deleting an enrolled
  contact, the error rows of the log.
- *In webhooks*: a log row that was written although its `INSERT` was reported as
  failed (a connection lost after the statement took effect): such a delivery
  is tried again after a row that says 2xx, so `LoggedSuccessIsFinal` holds as long
  as a failed `INSERT` left no row; URL checks, secrets, signatures, filters, the single attempt an
  automation rule makes, the purge of the log.
- *In feature flags*: the rules of an evaluation beside the gate (overrides, team
  opt-outs, betas, buckets, roles) and the AI master toggle, which are rules over
  data; usage counts; who may call what.
- *Record merge, lead conversion, erasure, thread privacy*: each moves or rewrites
  the rows of a dozen tables, and what could go wrong is between it and every
  writer of one of them.  A model of one alone would say nothing.
- *Login lockout*: concurrent attempts are counted after the password comparison,
  so more than the limit may be tried at once; the code states no bound.
- *CRUD with audit* (deals, stages, accounts, tasks, notes, tags, teams), *users,
  roles, SSO, SCIM, MFA*: one transaction each, rules over data.
- *Import, bulk edit, automation rules*: row-by-row transformation with job
  states of a line each.
- *AI features, reports, search*: reads and calls of a language model.  The token
  budget's check and record are apart by design and promise no bound.
- *Client, shared schemas, QA, coverage agent, audit partitions*: no protocol of
  their own, or tooling beside the product.

## What is left

In this order, should the project be carried on:

1. `TokenRefresh` (`connectedAccountService.ts:698`, `:728`): the provider rotates
   the refresh token when it answers and the new one is committed later; a crash
   between them loses the grant.  Worth stating: a rotated token is never
   overwritten by an older one, and a mailbox shown healthy is claimed.
2. `RecordMerge` and `LockOrder` (`recordMergeLock.ts`): claims, pages, merges,
   conversions and erasures over the ordered lock classes.  Worth stating: no
   wait cycle, nothing left naming a record that is gone, nothing ingested after
   an erasure restores the person.
3. `ThreadPrivacy`: a privacy change that skips rows another transaction holds,
   and the holder that must take the setting from the parent.
4. The rules of a flag evaluation past the gate, as an operator checked against
   the documented order.

The hazards behind the first three are listed in `PROJECT.json` with no property
yet.
