# TLA+ development of founding-sales

Specifications, model-checking configurations and proofs for the parts of the
founding-sales system whose correctness depends on the order in which several
processes act. Paths below are relative to `src/`.

## 1. The system

founding-sales (FSS) runs outbound sales for a founder: it sources and researches
firms, sends sequences of emails from the founder's own mailbox, watches the mailbox
for replies, and stops the moment somebody answers, objects or bounces. One
PostgreSQL database holds all state. An API service (`apps/api`) serves the web
application (`apps/web`); a worker (`apps/worker`) runs one scheduler loop and
`concurrency` runner slots against the same database. Gmail, calendars, model
providers and telephony are reached over HTTP from worker handlers.

### Components

| component | state it keeps | operations | interacts with |
|---|---|---|---|
| **job queue** `packages/domain/jobs/jobStore.ts` | the `jobs` table: state, lease, fencing token, attempts, payload with `progress` and `chunking` | enqueue, claim, complete, fail, kill, write progress, requeue for the next chunk, reclaim expired leases, archive payloads, admin requeue | runner, scheduler pass, admin API, retention |
| **runner** `apps/worker/src/runner/jobRunner.ts` | one claimed job per slot, in memory | reclaim, claim lane by lane, run the handler in a transaction its protection asks for, chunk loop, budgets | job queue, handlers |
| **scheduler pass** `apps/worker/src/scheduler/schedulerPass.ts` | nothing; one transaction under an advisory lock | enqueue what each due-work source finds | job queue |
| **runner slots** `apps/worker/src/runner/slots.ts` | each slot's lane order, urgent streak and flip | order, record | runner loop of `bootstrap/worker.ts` |
| **outbound fence** `packages/domain/outbound/fence.ts` | `outbound_messages` (state, attempt token, business date, deadline, resolution) and its events | prepare, claim for dispatch, record sent, begin reconciling, record reconciled, mark unknown, hold, release, resolve | dispatch, sweep, step engine, restore |
| **dispatch** `packages/domain/outbound/send.ts` | nothing between calls | precheck, token refresh, recheck and claim, the one Gmail call, record | fence, gate decision, holds, send days, Gmail |
| **Sent reconciliation** `packages/domain/outbound/reconcile.ts` | nothing | adopt, search, settle, expire | fence, holds, Gmail |
| **send gate** `packages/domain/policy/sendGate.ts` | one advisory lock per workspace | shared for a claim, exclusive for a stop | dispatch, every writer of a stop |
| **holds, pauses, windows** `packages/domain/policy` | `active_holds`, pauses, postures | open, release, list | dispatch, step executions |
| **sending ramp** `packages/domain/outbound/{ramp,recovery}.ts` | `mailbox_send_ramp`, `mailbox_recovery_epochs`, `mailbox_send_days` | assess inactivity, open a day, count a claim, close a day, admin lowering, raise and override, late signals | dispatch, mail effects, `sendDayClose` job |
| **step executions** `packages/domain/sequences/{executions,wake}.ts` | `step_executions`, one row per step an enrollment has reached | wake, run a due step, dispatch what it prepared, settle from the fence, hold, complete, make the successor, log a call | job queue, fence, holds |
| **sequences** `packages/domain/sequences` | enrollments and their frozen version | enroll, stop, resume, reschedule, complete, migrate | step executions, terminal stops |
| **terminal stops** `packages/domain/sequences/terminalStops.ts` | the outbox of stop events with the enrollments each owes, one cursor, the keys of the drain jobs | emit under the send gate, queue a drain by the heads of two streams, drain in batches | CRM commands, suppression, enrollments, job queue |
| **mailbox connection** `packages/domain/mail/oauth.ts` | the `mailboxes` row, its refresh token, its generation | connect, re-consent, switch accounts, disconnect | mail sync, holds, job queue |
| **mail sync and recovery** `packages/domain/mail/{sync,recover,coalesce,mailboxes}.ts` | history cursor, watermark, sync state, `mailbox_recoveries`, the re-armed `mail.sync` and `mail.recover` rows | coalesce, sync, expire a cursor, recover, complete | Gmail, job queue, holds |
| **mail pipeline, watch** `packages/domain/mail/{pipeline,effects,matching,watch}.ts` | messages and their effects, the Gmail watch | record a message once, match it, commit its stop, renew the watch | mail sync, stops |
| **suppression** `packages/domain/suppression` | the insert-only `suppression_events`, finalizations, review holds, a journal outside the database | record, correct, supersede, finalize, copy on a merge, journal, replay after a restore | dispatch, terminal stops, firm merges, operator |
| **call transcription** `packages/domain/calls/transcription.ts` | `provider_reservations`, `transcription_provider_jobs`, `call_transcripts`, the setting | begin, reserve, mark, ask, record, look, give up, sweep, resume, delete | job queue, two kinds of provider, retention |
| **calls, dial, meetings, social, sourcing, research, classification, CRM, today, retention, settings** | their own tables | API commands and job handlers | job queue, stops |
| **API, web, infra, tools** | sessions, configuration | HTTP, pages, deployment | domain functions |

### What is hard here

* Several processes run the same handlers. A lease can expire under a process that is
  only slow; a process can die between any two statements; a `COMMIT` can succeed and
  its answer be lost.
* An email cannot be taken back. Between the decision to send and the call there is a
  token refresh; between the call and its record there may be a crash; Gmail may accept
  and not answer; the Sent folder may not show the message yet.
* A stop (a reply, a suppression, a pause) is an INSERT read by predicate, so no row
  lock orders it against a claim; the send gate does, for writers that hold a
  transaction.
* Dispatch is the one handler that runs outside a transaction, so each of its
  statements commits on its own and the code between two of them may never run.
* A mailbox changes hands while a run is talking to Gmail: the owner disconnects, reconnects
  or switches accounts, and what the run read at its start is another mailbox's.
* A cursor expires. From then on coverage is proved by a walk over an interval, and
  between the walk's end and the cursor the next history read starts from nothing may
  fall through.
* Counters and limits meet concurrency: the daily cap, the attempts of a job, the
  chunk budget, the urgent streak of a slot.
* A step is looked at again only under a new job key, and a drain only under new heads: a
  key that was used and a row that was not written are how work gets lost.
* Stops can be taken back for ten minutes, by a person, while a finalizer, a merge of two
  firms and a restore of the database each have an opinion about the same row.
* Money is spent on requests whose answer may never come, by processes that die around
  them; what was bought must be on the books and must not be bought again.

What makes each component correct, in the terms of its module, is section 3. The
file `PROJECT.json` lists the hazards at their lines.

## 2. Modules

| module | what it is |
|---|---|
| `JobQueue` | job queue, runner and scheduler pass |
| `JobLedger` | what the queue promises a handler; `JobQueue` implements it |
| `JobQueueProofs` | the inductive invariant of `JobQueue`, its theorems, the refinement; the bound on urgent runs of `Slots` |
| `OutboundFence` | fence, dispatch, reconciliation, send gate, holds, the count of a day |
| `SendPromise` | what the fence promises of one email; `OutboundFence` implements it |
| `OutboundFenceProofs` | its inductive invariant, its theorems, the refinement of `SendPromise` |
| `Slots` | the lane order of the runner slots |
| `Ramp` | the sending ramp of one mailbox: schedule, recovery, days |
| `Sequence` | one enrollment: step executions, their wakes and jobs, the dispatch after the commit |
| `TerminalStops` | what ends enrollments: the two streams and their drain |
| `Suppression` | a stop, its correction window, the merge, the journal, restore and replay |
| `Transcription` | the paid transcription of one call |
| `MailSync` | the mailbox row, its grant, `mail.sync`, `mail.recover`, and what queues them |
| `MailSyncProofs` | its inductive invariant and its theorems |
| `RampProofs`, `SequenceProofs`, `TerminalStopsProofs`, `SuppressionProofs`, `TranscriptionProofs` | the inductive invariants and the theorems of those modules |
| `MC...` | one per module of the system: small instances for TLC |

How they compose. `OutboundFence` stands on the promise that `JobQueue` makes (a
dispatch may run again, at any time). A fence in `Sequence` has the states
`readOutboundOutcome` tells and takes the steps of `OutboundFence` in one action each.
`Ramp` moves the cap and the day rows that `OutboundFence` counts on while they stand
still. `Suppression` decides when a stop is final; `TerminalStops` begins there. Jobs in
`Sequence`, `TerminalStops`, `Transcription` and `MailSync` are rows with the states, keys
and attempts of `JobQueue`, without its tokens where a handler's writes are fenced by
another lock.

### Granularity

One autocommit statement, or one whole transaction, is one action. Where a
transaction's locks are visible to others before it commits, it is split and the
locks are predicates over the process that holds them (`Locked` in `JobQueue`,
`GateFree`, `Unlocked`, `DayUnlocked` in `OutboundFence`). A process that dies is an
action of its own (`Crash`, `Abandon`) available at every place it can stand; it
forgets its memory and its open transaction rolls back. A process that is slow is one
that takes no step for a while, so it needs no action. A transaction that holds, from its
first read to its commit, the lock every other reader and writer of its rows takes (the
ramp row, the enrollment row, the send gate, a call's advisory lock) is one action.
Time is kept as far as statements can tell: due or not, expired or not, overdue or
not, and business dates as numbers.

### JobQueue

`job` is the `jobs` table, one row per idempotency key; `wk` is what a slot holds in
memory between two statements (`ClaimedJob` with a program counter); `applied` is a
history of what handlers' transactions committed: the number of each unit of work.
`cursor` stands for `payload.progress`, as the number of units behind it, `chunks` for
`payload.chunking.chunks`. Actions carry the names of the statements. A handler's
transaction is entered by `BeginAttempt` and ends with `ReturnsChunk`, `ReturnsDone`
(work and bookkeeping commit together, or both roll back) or `Throws`. The
`outbound_fence` protection runs without a transaction: `ReturnsOutside`, then
`CompleteJob`. A lost answer to a `COMMIT` is the choice `after = "failing"`.

The rows are those `enqueueJob` makes. `coalesceMailSync` and `rearmRecoveryJob` write
the table directly and bring a *finished* row back; the ledger's "a finished job is
finished for ever" holds of every other kind. `renewLease` is called by nothing.

### OutboundFence

`fence` is `outbound_messages`, `hold` the open `active_holds` rows that fences opened,
`stopped` the firms some committed stop forbids, `sentOn` the `automated_sent` column
by business date, `grant` whether the mailbox can be reached, `gmail` what really
happened at the provider, `at` where each process stands. `token` counts the tokens a
fence was given, so a second authorization would show.

* A dispatcher goes through `StartDispatch`, for a held fence `ClearHolds` and
  `ReleaseFence`, `Precheck` (decision and token refresh), `BeginClaim`, `Recheck`,
  `CommitClaim`, `CallGmail`, then `RecordSent` or `BeginReconciling` and the two
  statements of `openHold`: `PassGate`, `InsertHold`. A refusal goes through `Refuse`
  (outside a transaction) or ends inside the claim.
* A sweep goes through `Adopt` or `StartSweep`, then `CannotLook` or `Search`, then
  `RecordReconciledSent` or `MarkUnknownTerminal`, then `ReleaseDoubt`.
* The environment prepares fences, commits and lifts stops, answers unknown fences,
  settles steps, and lets days, deadlines and the grant change.

Abstractions: one mailbox; a cap that does not change; holds of firm scope, the only
scope the dispatch opens; every question `decideSend` asks that no variable here
answers is one nondeterministic Boolean (`licensed`), asked again by the recheck; a
stop is one atomic action under `GateFree`, which is what a writer inside a transaction
does; the age at which a fence is adopted is not kept, so adoption may come at any
time; a draft-origin fence is one whose refusal opens no hold (`opens = FALSE`).

### Slots

`waiting` counts runnable jobs per lane, `slot` is each slot's closure (`streak`,
`flipped`) and the poll it is in. `run` is a history variable: urgent claims since the
slot last looked at bulk first or lost a poll. The two lanes of a poll are claimed one
after the other, and other slots act in between. `Throw` ends a poll before `record`.

### MailSync

One mailbox. `mailbox` is its row, `addresses` the account it had at each generation,
`recovery` the `mailbox_recoveries` rows, `holds` the two holds it opens, `recorded` the
generation under which a message got its row, `job` the state of the `mail.sync` and
`mail.recover` rows of each generation (their idempotency keys carry it), `run` what the
handler working on a row has read so far, `grant` a `completeGmailGrant` between
Google's answers and its transaction.

Time is counted in messages: the n-th to arrive has history id n and date n, and every
clock reads `Now`, the number that arrived. This keeps what the code compares
(which message is before which id, which date is inside which interval) and drops the
difference between Gmail's clock and the host's.

A handler's run is one READ COMMITTED transaction. Its reads of the database and its
calls to Gmail are actions (`Begin`, `AccessGranted`, `ListHistory`, `WalkInterval`,
`ExpiredCursor`), so that the owner, the scheduler and the run of another generation
act in between; its writes are the one action in which it commits (`CommitSync`,
`CompleteRecovery`, ...), because each locks the mailbox row at its fence, or updates it
under the same predicate, before that commit. The exception is `StopRecovery`, a recovery
that ends with `incident_held`; its guard is the fence of the binding, which the run
read later (section 5). `StaleMailboxGeneration` is the exception of that name, rolled
back and retried. A capped sync, a sync stopped by a failed read and a finished one are the choices
of `CommitSync`: a prefix of what was listed, or all of it.

Left out: rows written by earlier releases (`baseline_started`, `adoptHandoffCursor`),
the recovery floor, which only moves an interval's start back, budgets by number, dead
jobs and archived payloads, records with several messages (`takeWholeRecords` is a
prefix of single messages), deletions, the watch, and the life of a provider incident: an
open incident is a run that fails (`ReadFailed`).

### Ramp

One mailbox and business dates `1..LastDay`. `days` are the `mailbox_send_days` rows,
`epochs` the recovery epochs, named by the date of the activity they follow (the code:
by that instant), `recovery` the epoch the ramp row points at. `closeSendDay`, a claim, a
mail message and an admin's command each lock the ramp row first and are one action:
`CloseDay`, `Claim`, `Bounce`, `DaySignal`, `SetAdminCap`, `OverrideRaise`. A precheck of
the gate has no transaction: `PrecheckOpen` reads the cap, `PrecheckCap` opens or raises
the day later, perhaps after an admin or midnight. `DirectSend` is an observed send the
system did not make. Two conditions are left out because they only refuse: the readiness
checks of a recovery and the slots reserved for prospecting.

### Sequence

One enrollment with the steps of its version. `step` holds the executions, `fence` the
outbound message of each, `job` the last `sequence.action` job of each, `at` where each
worker is. `ripe` says that `due_at` and `not_before` passed, `moved` that the row has a
version for which no job was made: `listStepWakes` keys jobs by `updated_at`, so a row
nobody writes is a row nobody wakes. What `runDueStepExecution` does under the enrollment's
lock is one action per branch (`SettleSent`, `SettleSkipped`, `HoldStep`, `PrepareEmail`,
`AwaitManual`, `PlaceInWindow`, ...); `dispatchPreparedStep` runs outside a
transaction, so its statements are actions (`StartDispatch`, `ClaimFence`,
`CallAccepted`, `ReadFence`, `HoldDispatched`, `Reschedule`, `MarkCompleted`, `Advance`, `Close`).
A step that is completed may have no successor although the version has one more: what a
meeting-based step is dated by may be missing (`dated` of `Successor`), which ends the sequence.
`MarkRefused` is the CHECK of migration 0012 that fails the job when the row was cancelled
in between. Sweeps, answers, calls, holds, stops and resumes come from the environment.

Left out: the branches of an enrollment that prospecting made, which add reasons to wait
or hold and one that skips a step; templates; how long a wait is.

### TerminalStops

One workspace and the enrollments of one firm. What an event is about (the whole firm, an
opportunity, some origin kinds) is a set of enrollments fixed for each event, `Scope`; any
assignment of sets will do in the theorems, the run has an event of one enrollment before a
firm-wide one. A stop is `BeginStop`, `EmitStop` (takes the send gate, stamps
the event with `clock_timestamp()`, records whom it owes) and `CommitStop`; an enrollment
and a drain hold the gate from their first statement and are one action. `ReadWork` and
`QueueDrain` are the two statements of a scheduler pass, so its heads can be stale, and a
key that exists inserts nothing. The second stream has no cursor: `Final` is the
finalized suppressions in force, `Covered` the live enrollments under one. `marker.owed` is
a history variable: what was live when a suppression became final.

Left out: end reasons and audit rows, events of before the marks, the `LIMIT` of the suppression reader, enrollments that complete by themselves.

### Suppression

Events have fixed ids; `Target` says what a lift lifts, `Copy` which id a merge gives an
event on the survivor. A stop is `JournalStop`, then `CommitStop` or `RollBackStop`; a
lift is `BeginCorrection` or `BeginSupersession`, for a correction `ClaimCorrection`, then
`CommitLift` or `RollBackLift`, and `JournalLift` after its commit (or `LoseLift`; an old
binary wrote before it, `JournalLegacyLift`); `Finalize` is the job; a merge is `BeginMerge`,
one `JournalCopy` for each copied event and `CommitMerge`. `Backup` and `Restore` take the
database back while the journal, which is outside, stays; `Replay` reads it by the
`LastModified` of its objects, from `Margin` before the restore point on, and may be run
again at any later time. Services stand still from `Restore` to the first `Replay`, as
the runbook says. Time is ticks; the window is `Window` of them.

A manual stop owes its finalizer whether or not it names a firm; a review hold goes on the
firm it names (`Named`), live and at a replay. An object written before objects carried a
firm (`Old`) opens none at a replay, which only reports it (`unreconstructedHolds`).

### Transcription

One recorded call. A chunk of a `call.transcribe` job is one transaction under the call's
advisory lock and one action, except the chunk that asks the provider: the lock is held
from `OpenSend` to a `Record...` action, and everything that does not need the lock may
happen in between, the loss of the lease included. A `Record...` action commits only while
its claim holds the job (`Current`); otherwise `Abandon`. `standing` is the truth at the
provider: a request in flight may land late or never. `asked` and `count` are history
variables. A process has a deployment from its claim on: a provider for new attempts or
none (`serves`), and a collector where the call-audio bucket is configured (`collects`), which
an asynchronous provider needs. Two deployments meet on one call; one without the bucket never
looks. Whether a price fits the
ceilings is one answer (`fits`); ages are not kept, so the half hour of the sweep and the
deadline of a provider job may have passed at any time. `requeueForNextChunk` near the end
of a lease is, to the call, a lost lease.

A held call is resumed when the setting changed after its last job finished, and the job's
instant is the start of the transaction that finished it. So a setting saved while a chunk
asks the provider, or waits for the lock, is later than that chunk, though it commits
afterwards: `ChangeSetting` says of which chunks this is true (`begun`, all that ask and any
that are about to begin), their jobs carry it as `older`, and `Finish` leaves the setting
`fresh` for those. `Abandon` lets nothing more be sent by its process; what such a process
could still send after its final check is a request that `Land`s late.

## 3. Runs

| run | bounds | properties |
|---|---|---|
| `jobqueue` | 2 slots under one owner name, a `business_uniqueness` and an `outbound_fence` job, 2 attempts, 1 chunk requeue, 1 admin requeue | committed units are 1, 2, 3, ... and the cursor says how far (`UnitsCommittedOnce`); `OneLiveClaim`; `RefinesLedger`; `EveryJobSettles` |
| `slots_two` | 2 slots, an urgent streak of 3, 2 waiting jobs per lane | `UrgentRunsBounded`; `BulkIsClaimed` |
| `outbound_claims` | 2 dispatchers, 2 fences of one firm, cap 1, 2 days | types and the cap; `DayCountExplained`; `NoClaimUnderStop` |
| `outbound_doubt` | 2 dispatchers, 1 sweep, 1 fence, 1 day | `OneCallPerFence`; `DoubtKeepsItsHold`; `RefinesPromise`; `EveryDoubtEnds` |
| `mail_coverage` | 1 account, 3 messages, 1 grant, 2 expiries, 1 fault | types; `CoverageProved`; `EventuallyCaughtUp` |
| `mail_switch` | 2 accounts, 1 message, 2 grants, 1 fault | `HoldsMatchMailbox`; `StaleRunLeavesMailbox` |
| `ramp` | 4 dates, inactivity 2, 2 stages of 1 day, 3 sends, 1 race, 2 signals, 1 command | types and the grant; `DaysCounted`; `CapRisesOnlyEarned` |
| `sequence` | an email and a call step, 2 workers, 2 attempts, 1 fault, 2 waits | types; `NoSuccessorOnAMaybe`; `NoStepForgotten` |
| `sequence_stranded` | the same | `NeverStranded`, contradicted (section 5) |
| `terminal_stops` | 2 events, 2 enrollments, 1 suppression, 1 worker, batches of 1, 2 attempts, 2 faults | types; `ConsumedStopsAll`; `OnlyEarlierStopped`; `EveryStopApplied` |
| `suppression_restore` | a manual stop that names a firm, with its copy, a prospect's request, a correction and a supersession with their copies, 2 instants, 1 restore | types and locks; `OneDecision`; `HeldWhileUndecided`; `AckedStopsKept`; `LiftReachesSurvivor`; `ReplayIdempotent`; `EveryWindowCloses` |
| `transcription` | 2 workers, one with the asynchronous provider, one with the synchronous one and no bucket or with no provider, 2 claims per job, 2 jobs, 3 rows, 1 change of the setting | types and attempts; `BilledIsCharged`; `PaidAtMostTwice`; `OneOpenAttempt`; `EveryAttemptCloses` |

What a theorem of section 4 says for every value of the constants is not checked again by a
run unless the run is there for something else: `JobQueue!TypeOK`, `NoStrandedJob`,
`OnlyHolderEndsClaim`, `FencedHandlerOwnsLease` and `Slots!LanesTypeOK` are proved and in no
configuration.

`slots_two` and `ramp` are checked for deadlock. The other models come to rest (jobs are
over, bounds are used up) and their configurations say so (`CHECK_DEADLOCK FALSE`).

Why the bounds are enough. Stale claims of `JobQueue` come in pairs: an old holder beside a
new one, under one owner name; two attempts let an expiry or a failure precede a success
or the death of the job, one chunk lets a budget run out after work is committed. More
slots, attempts and chunks are what the theorems add. In
`OutboundFence` the interesting interleavings of one fence need a slow retry, a claim, an
adoption and a late answer: two dispatchers and a sweep. The cap race needs two fences and
a cap of one, midnight two dates. `outbound_doubt` has one fence: fences share nothing a
sweep waits for.

In `MailSync` two expiries give three generations, so a sync row of the first can meet a
recovery of the second or third; three messages put one before, one in and one after an
interval, with an overlap and a baseline of two. Two grants are enough for a switch and
for a reconnection, and the fences compare generations, not accounts. A fault is a crash,
a failed read or a refused token; with one, every retry path is taken, and a second adds
only the same retry again. Two assumptions about time are guards: no more than `Overlap`
messages arrive between Gmail's answer to a run and its commit (`Arrive`; the overlap is
an hour, a lease five minutes), and an id Gmail just gave does not expire before it is
stored (`ForgetHistory`; history lasts about a week).

In `Ramp` four dates hold an inactivity, a day of recovery, its close after the next day's,
and a second inactivity; the caps are small but distinct (`Scheduled` 1 then 2, stages 1
and 2), so a rise is visible wherever it comes from; one race is one precheck or one claim
dated before midnight. In `Sequence` two steps show a successor and an end, two workers an
expired job beside its retry; holds and refusals come at most twice, because each sends
the step back to where it was. In `TerminalStops` two events are enough for one that begins
first and commits last; with a batch of one, two events need two drains, and two faults
kill a job. (Two suppressions with one event and one fault were checked too.) In
`Suppression` one window and one instant after it decide every race; a restore goes back
to any earlier state, once. The run's manual stop names a firm; `HeldWhileUndecided` is proved
for those that name none and for old objects too, and TLC found it true of three stops, one
of each kind, without a merge. In `Transcription` two paid attempts are the most a call may buy (`TRANSCRIPTION_MAX_ATTEMPTS`
is 2). Three rows (`TRANSCRIPTION_MAX_ROWS` is 6) leave one for an attempt that was released,
two claims per job (`CALL_TRANSCRIBE_JOB_MAX_ATTEMPTS` is 3) one retry, and the second job is a
look, or the resumption: the run sees at most one. More rows, claims, jobs and changes of the
setting, and a synchronous provider beside the bucket, are what the theorems add. (The
safety properties were checked with that deployment too.)

Symmetry is used in runs without liveness properties only.

### Fairness

* `JobQueue!Fairness`: a slot that holds a job goes on with it or dies; time passes;
  every poll of a slot reclaims expired leases first; `claimJobs` orders by `run_at`,
  so a job that stays claimable again and again is claimed (strong fairness, because
  other jobs may be claimed in between). It assumes that handlers return: a
  `fencing_token` handler that hangs keeps its row lock and the reaper skips it.
* `OutboundFence!Fairness`: a slot in the middle of a dispatch or sweep goes on (weak).
  Sweeping is retried: `outboundReconcileSource` enqueues `mail.reconcile` every minute
  for every mailbox with something to reconcile, under a key with the minute in it, so
  the steps of a sweep of one fence are strongly fair. A process may die in every
  sweep; that it dies in all of them is excluded. `EveryDoubtEnds` assumes in its
  statement that the grant stays in the end. One more assumption is in it: a pass of
  `reconcileMailbox` goes through at most fifty fences in order and an exception of one
  ends the pass; a fence that throws for ever is not modelled.
* `MailSync!FairSpec`: the scheduler passes every minute and the worker's slots keep
  claiming, so each queued row is worked on and each run goes on or ends (weak: nothing
  disables it). Faults are bounded, which says that Gmail answers in the end and an
  incident is reviewed. The owner, senders, Gmail's expiry and push notifications are
  never fair: pushes may all be lost. `EventuallyCaughtUp` assumes in its statement that
  the mailbox stays connected in the end.
* `Sequence!FairSpec`: due instants come, the scheduler wakes, expired leases are
  reclaimed, queued jobs are claimed and a worker goes on or dies (weak). Nobody has to
  clear a hold, settle a fence, answer an unknown one or make a call: `NoStepForgotten`
  assumes in its statement that what stands in the way is gone for good.
* `TerminalStops!Fairness`: a stop that stamped commits; passes, claims and drains go on
  (weak). No stop, enrollment or suppression has to happen. A drain that fails for ever
  ends in a dead job, which `EveryStopApplied` admits, since an operator sees it.
* `Suppression!Fairness`: commands in flight end one way or the other (weak), because
  `idle_in_transaction_session_timeout` is five minutes (`infra/modules/database/main.tf:95`);
  the clock ticks although commands pin it now and then (strong); the finalizer runs
  when its window is over; an operator who restored replays. Nobody has to correct, merge
  or restore.
* `Transcription!Fairness`: the scheduler's pass, which gives up at a deadline and sweeps, is
  strongly fair, because both only *try* the call's lock and skip a call in the hands of a
  worker; that one of the two is done when it can be again and again is enough, since an
  attempt that is closed stays closed. The worker that asks a provider goes on or abandons
  (weak; requests have a timeout). Nothing is assumed of jobs, looks, the provider or the
  administrator.
* `Slots!LanesFairness`: loops poll for ever; no statement throws every time it is reached,
  neither the claim of a lane nor what lies between a claim and `record` (strong, because
  a poll may throw before it gets there).

## 4. Proofs

`JobQueueProofs` proves of `JobQueue`, for every finite or infinite set of jobs, slots
and owners and every value of the limits that `ConstantsAssumption` admits: `TypeOK`,
`UnitsCommittedOnce`, `OneLiveClaim`, `FencedHandlerOwnsLease`, `NoStrandedJob`,
`OnlyHolderEndsClaim` and `RefinesLedger`.

The argument. None of these is inductive alone: that a late commit is refused follows
from the token, and that the current holder may commit follows from what it remembers
being what the row says. `IInv` adds: a claim in memory came from its row and the
row's token only grew (`ClaimsComeFromRows`); no two claims of a job carry one token
(`TokensDiffer`); the holder of the current token agrees with the row on owner, cursor
and attempt (`HolderAgrees`); an absent row is fresh; only finished rows are archived;
only an unprotected handler stands between return and completion. Lemmas
first describe what each statement writes (`LeasedFields`, ...), then what a change of
one row (`RowChange`) or of one runner (`RunnerChange`) has to satisfy to preserve
`IInv`, then each action is one of the two or a fenced pair of both. The refinement
maps every action to a step of the ledger or a stutter.

Its last section proves of `Slots`, for any number of slots, any limit and any amount of
waiting work, `LanesTypeOK` and `UrgentRunsBounded`. The claim count of a run is not bounded by
the streak alone: in the middle of a poll it is one ahead of it. `LaneMemory` says where
the two stand at each place of the loop, and that a poll which was not flipped started
below the limit; a throw loses the run but never the streak.

`OutboundFenceProofs`: `TypeOK`, `OneCallPerFence`, `DayCountExplained`, `NoClaimUnderStop`,
`DoubtKeepsItsHold` and `RefinesPromise`, for any number of fences, firms, dispatchers and
sweeps, any cap and any number of days. `IInv` says what a process remembers at each stage
of its work and still is true of the fence (`Remembers`: a row claimed is still `prepared`, a
call about to be made was not made, a verdict stands), that no two claims hold one row and no
two callers one fence (`Alone`), and what token, Gmail and state of a fence say of each other
(`FenceSound`). Every write but the claim and the call respects `FenceKept`; the claim adds
its fence to the set `DayCountExplained` counts.

`TerminalStopsProofs`: `TypeOK`, `ConsumedStopsAll`, `OnlyEarlierStopped`. Events get their
instants under the gate, so the open one is the latest (`Stamps`); what an event owes parts
the enrollments by their instants (`Recorded`); what the cursor has passed is applied
(`Consumed`), which a drain on stale heads keeps because it reads from the cursor of its own
transaction; and a head is queued once (`Drains`). That the earliest unread events are a
prefix needs a least element of a set of naturals, taken from well-founded induction.

`TranscriptionProofs`: `TypeOK`, `BilledIsCharged`, `PaidAtMostTwice`, `OneOpenAttempt`. A row
agrees with what was asked and what became of it (`RowSound`), the rows of a call are
numbered without a gap and at most one is open (`BooksSound`); a claim that marked an attempt
owns it alone and has not asked while the answer is not in its hand (`Holds`, `Apart`); the
claims, the looks and the resumption are bounded by what pays for them (`JobsSound`).

`SequenceProofs`: `TypeOK`, `NoSuccessorOnAMaybe`. A step has a successor only when it is done,
an email by a verdict that it went out (`Ordered`); a worker in `completeStepExecution` has
read that verdict, and past its update the row says so (`PlaceSound`). The completion is two
statements, and the second is safe because `Sent` is never taken back.

`RampProofs`: `TypeOK`, `DaysCounted`, `CapRisesOnlyEarned`. A closed day is counted by the
schedule or by the epoch it names (`DaySound`), an epoch opened with a cap some day of the
schedule had (`EpochSound`). `CapRisesOnlyEarned` needs the caps to rise along the ladder: a
lemma says that one healthy day more never lowers what `cap` computes, through a division.

`SuppressionProofs`: `TypeOK`, `OneDecision`, `HeldWhileUndecided`, `AckedStopsKept`,
`ReplayIdempotent` and `LiftReachesSurvivor`. The first invariant, `IInv`, says of both
databases, the current and the saved one, what relates rows, claims, holds and jobs
(`Sound`), what the commands in flight rely on (`InFlight`), what an acknowledgement leaves in
the journal (`Acknowledged`), and that a covered stop is in the database, in the backup, or
newer than it (`Restorable`). A replay run again finds nothing because, of the rivals for one
stop, the earliest is always placed. A second invariant on top, `LInv`, follows lifts
through restores: a lift whose marked object is written holds, or is read by the replay
that is due (`LiftsHold`), and holds in the backup or came after it (`LiftsSurvive`);
its object is younger than its commit (`MarkedAfterCommit`); and a stop that was lifted without
ever having been acknowledged came with a replay and is too old to become covered
(`UncommittedLate`).

That proof corrected its property. `LiftReachesSurvivor` used to speak of every stop; the
inductive argument failed, and TLC showed why at larger bounds than the run's (two restores,
or one with the replay run again, two to four instants): a stop whose journal object an
earlier, rolled-back attempt wrote is left out of one replay and comes back with a later one,
its lift with it, while the survivor was merged in between. The property now says which
stops it is about, those the margin covers, and what can be missed, an unmarked lift; both
the run and the proof are of that statement, and TLC found it true at the larger bounds too.

`MailSyncProofs`: `TypeOK`, `CoverageProved`, `HoldsMatchMailbox` and `StaleRunLeavesMailbox`,
for any accounts, any number of messages, grants, expiries and faults, and any overlap and
baseline. `CoverageProved` speaks of a ready mailbox; what carries it there is said of every
mailbox. While the recovery of the current generation is open, all before its interval has
a row and the cursor lies in the interval; once it is completed, all up to the cursor has
one (`RecoverySound`). The interval of an expired cursor starts from the watermark, and that
one may run ahead of what was read by the overlap, not by more (`Trusted`): an empty
sync takes the clock, which is what the bound on a run's length in `Arrive` is for. A run
knows the listing it was given, for the account it had (`RunSound`); only while the
generation it read stands is that the mailbox's account and baseline, its cursor not past
the mailbox's, and, for a walk, each listed message recorded or in its hand (`RunCurrent`). So a
commit under the fence adds what it should, and one without the fence (`StopRecovery`)
adds rows and nothing else. Three facts are about what opens a generation: a grant in flight was
asked for after the mailbox's baseline was set (`GrantSound`), so that a reconnection, which keeps the
watermark, never moves the baseline back over messages nobody read; the holds follow the
row; and a generation, also one a run or a forgotten cursor is about to open, is paid for by
a grant or an expiry (`Spent`), so the bounded number of generations in the model never runs out.
Most steps are an instance of one lemma for what they touch: nothing but the run
(`QuietStep`), the queue (`QueueStep`), the books within a generation (`CommitStep`), a new
generation (`Superseded`). Gmail's and the owner's have lemmas of their own.

What the proofs assume of the constants are the `ASSUME`s of the modules, which TLC evaluates
in every run: sizes and bounds are naturals; ids are distinct and copies of copies do not
exist (`IdsAssumption`); caps rise along the schedule and the stages (`LadderAssumption`,
`ramp.ts` lists them so); and NULL is none of the values it stands beside (`NullAssumption`,
`ConstantsAssumption` of `MailSync`). The bounds that keep TLC's instances finite are constants too, so a theorem holds for each value
of them.

With TLC alone stays liveness, because it rests on fairness and `ENABLED`: `EveryJobSettles`,
`BulkIsClaimed`, `EveryDoubtEnds`, `EventuallyCaughtUp`, `EveryWindowCloses`,
`NoStepForgotten`, `EveryStopApplied` and `EveryAttemptCloses`. Every other property of a
passing run is proved.

| | model-checked | proved |
|---|---|---|
| `JobQueue` refinement, `UnitsCommittedOnce`, `OneLiveClaim` | yes | yes |
| `JobQueue` types, `NoStrandedJob`, `OnlyHolderEndsClaim`, `FencedHandlerOwnsLease` | no | yes |
| `Slots!UrgentRunsBounded` | yes | yes |
| `Slots` types | no | yes |
| safety of `OutboundFence`, with its refinement | yes | yes |
| safety of `Ramp`, `Sequence`, `TerminalStops`, `Suppression`, `Transcription` | yes | yes |
| safety of `MailSync` | yes | yes |
| liveness of every module | yes | no (fairness) |

## 5. Where the code and its texts differ

One difference has a run; the others were read from the code while its models were written.

* **An enrollment can be left with nothing to do.** `dispatchPreparedStep` runs outside a
  transaction, so `completeStepExecution` there completes the step and inserts its
  successor in two autocommit statements; its comment (`executions.ts:804`) says "in one
  transaction". A worker that dies between the two leaves a live enrollment without an
  unfinished step. Run `sequence_stranded`. In the same place a second worker that
  inserted the successor first makes the slow one's insert hit `ON CONFLICT`, which it
  takes for the end of the sequence: the enrollment is completed with a pending step.

In the outbound lane:

* **A hold may outlive its doubt.** `reconcile.ts:172` releases the hold in a statement of
  its own, two writes after the verdict, and later sweeps skip a settled fence; the
  dispatcher opens the hold (`send.ts:311`) without looking whether `beginReconciling` won.
  These are the two ways to a hold that stays; the comment at `reconcile.ts:169` says it
  comes off when the doubt is over. Both are behaviours of `OutboundFence`.
* **The window does not end on its own.** With no grant, an open incident or a failing
  search the sweep returns before it compares the deadline; `docs/greenfield/sending.md`
  says the fence is `unknown_terminal` when the window expires. `EveryDoubtEnds` therefore
  assumes that the grant comes back.
* **Not every hold waits for the gate.** `openHold` in autocommit takes and loses the
  advisory lock in one statement (`PassGate`, `InsertHold`); the comment at `holds.ts:155`
  says a claim in flight finishes first.
* **A recovery day is measured by a cap an admin may have lowered.** `ramp.ts:327` says a day
  is earned by using 80% of the stage and "a lower admin cap does not accelerate
  graduation"; `closeSendDay` (`ramp.ts:409`) compares with the day's cap, in which the
  lowering is included while recovering.
* Days closed out of date order lose a healthy day: `last_advanced_on` only moves on
  (`DaysCounted` says what remains true).

In the mail lane:

* **A recovery that stops on a failed read is fenced too late.** Its only fenced write is
  that of the incident, at a binding read after the run's token (and none without a
  binding), while `recover.ts:318` says every write is predicated on what the run read at
  its start. Messages of the account before a switch can be recorded after it
  (`StopRecovery`).
* An empty sync writes a watermark that is later than its listing (`sync.ts:409`): a message
  that arrives in between is dated before it, although `coverage.ts:23` calls the
  watermark the instant through which every message is known processed. The next sync
  reads that message from the cursor, and if the cursor expires the overlap covers it, as
  `CoverageProved` shows.

In suppression:

* **A repeated journal write keeps its old time.** A 412 counts as success
  (`deployment.ts:545`) and leaves the object's `LastModified`, by which the replay reads
  (`journalSource.ts:99`): a stop whose first attempt rolled back long before the restore
  point and whose second committed after it is not read. `AckedStopsKept` says which stops
  are.
* **A merge copy of a lift may be made after the window by anybody.** `events.ts` says that
  only an admin may supersede after ten minutes; a copy is recorded with the instant of the
  merge and the source of its original, and `recordCorrection` does not ask whether its
  target is a copy.
* `replay.ts` reads from one hour before the restore point, the restore runbook says ten
  minutes.
* After a restore, a merge that is run again fails for ever if the survivor's copy is
  lifted already and a copied lift targets it: the unique index raises outside a savepoint.

In the sequences' stops:

* **An enrollment made after a suppression may not be ended.** `terminalStops.ts:69` says it
  "is stopped rather than missed". The drain job's key is the two heads
  (`jobKinds.ts:267`); if the drain under `none:<event>` is done, an enrollment made later
  puts the same heads back, the insert finds the finished row, and nothing drains until
  another stop. Its emails are still refused by the eligibility check. `EveryStopApplied`
  speaks of what was live when the suppression became final.
* An enrollment that is stopped while its step is being dispatched keeps a `held` or
  `dispatched` step.

In transcription:

* The grace a look gives an attempt that was just prepared (`transcription.ts:765`) is not
  given by the look of another job of the call: an attempt may be judged "not found" and
  estimated before it was sent. It errs on the side of the books, as `BilledIsCharged` says.
* `listHeldTranscriptions` promises calls whose job "has finished (none queued, running or
  retryable)"; the query wants all of them `done`, so a dead job blocks the resumption for
  ever.
* The setting's `changed_at` is the start of its transaction. A job that reads "off" and
  finishes while the change to "on" is open is later than that instant, so the call is not
  resumed, although "turning transcription back on runs each of them once".

And in the runner: `worker.ts:201` records a poll only after `runOnce` returned, so an urgent
claim whose poll then throws (its heartbeat after the job can) does not count towards the
streak that `slots.ts:33` describes; `UrgentRunsBounded` starts counting again there and
says nothing of it; that bulk work is claimed all the same is `BulkIsClaimed`.

## 6. Not modelled yet, and the plan

In this order:

1. Restore: tombstones inserted from the Sent folder, as an extension of the fence.
2. Calls and dialling: authorization and its expiry, the session's life before its recording.
3. The rest of the mail lane: the watch and its generation, the life of a provider
   incident, records with several messages, a row re-armed after its payload was archived.
4. Deletion and its targets by age (`packages/domain/retention`), which meets the journal,
   the reservations and the archived payloads.

Not planned: the web application, HTTP routes, provider adapters, cryptography, data
rules of matching, scoring and rendering, gauges and heartbeats, deployment
definitions. They have no interleaving of their own, or are I/O.
