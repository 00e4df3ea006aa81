# Verification of OpenInstinct

OpenInstinct runs a personal agent (on the Eve runtime) that talks to people
through Eve conversations, iMessage (Linq), Telegram, WhatsApp (Kapso), Matrix and
A2A, and that works for them in the background on schedules.  Nothing in it is
clever on its own; what is hard is that every piece of work passes through several
processes that only meet in PostgreSQL rows, that each of them may die or be late
at any statement, and that the providers they call cannot be asked again.

This directory holds TLA+ models of the mechanisms that carry that weight: **scheduled
runs** and the **jobs** they come from, the **outbound lane** of a channel identity and
the **native reports** that go through it, the **inbound lane** and its hand-over to
Eve, the **accounts** with their messenger addresses and **login prompts**, and the
**A2A tasks** of the agent network.  TLC checks them on small instances, and TLAPS
proves for every value of the constants every invariant, every action property and
every refinement that the passing runs check.  What only TLC checks is liveness.  The
last section is the plan for the rest.

| file | what it is |
| --- | --- |
| `RunRecord.tla` | a row of `scheduled_agent_runs` and the SQL statements over it |
| `ScheduledRuns.tla` | the processes that execute those statements, and the properties |
| `ScheduledRunsProofs.tla` | the proofs about `ScheduledRuns` |
| `OutboxPromise.tla` | what the outbound lane promises, abstractly |
| `Outbox.tla` | the rows, drains, providers, operator and account changes |
| `OutboxProofs.tla` | the proofs about `Outbox` and its refinement |
| `MCOutbox.tla` | `Outbox` with the symmetry of its drains, for TLC |
| `InboxPromise.tla` | what the inbound lane promises, abstractly |
| `InboxHandoff.tla` | the inbox rows of a sender, webhooks, drains and Eve's keyed inputs |
| `InboxProofs.tla` | the proofs about `InboxHandoff` and its refinement |
| `ScheduleTiming.tla` | the occurrences of a schedule: the code's arithmetic and a reference |
| `ScheduledJobs.tla` | a job, its edits and the runs materialized from it |
| `MCScheduledJobs.tla` | the schedules and changes of the clocks TLC uses |
| `ScheduledJobsProofs.tla` | the proofs about `ScheduleTiming` and `ScheduledJobs` |
| `NativeReport.tla` | the reports of a run to Telegram or WhatsApp, on top of `Outbox` |
| `NativeReportProofs.tla` | the proofs about that composition, on top of `OutboxProofs` |
| `TaskPromise.tla` | what the agent network promises of a task, abstractly |
| `A2ATasks.tla` | tasks of a grant, their workers, sessions, ledger and room |
| `A2AProofs.tla` | the proofs about `A2ATasks` and its refinement |
| `AddressPromise.tla` | what the accounts promise of a messenger address, abstractly |
| `ChannelAccounts.tla` | identities, sessions and challenges: login, link, revocation, archiving |
| `AuthPrompts.tla` | the prompts of challenges and their delivery, on top of `ChannelAccounts` |
| `AccountsProofs.tla` | the proofs about `ChannelAccounts` and `AuthPrompts`, and their refinement |
| `MCAuthPrompts.tla` | the account that exists first, for TLC |
| `*.cfg` | one TLC configuration per question; see *Runs* |
| `PROJECT.json` | components, runs, mutants, map to source lines, findings, hazards |

Run from this directory: `tlc -config outbox_order.cfg MCOutbox`,
`tlc -config scheduled_runs_live.cfg ScheduledRuns`, `tlapm ScheduledRunsProofs.tla`,
`tlapm NativeReportProofs.tla`; each proof module is checked by itself, in at most a few
minutes.


## Inventory

Paths are relative to `src/`.

**Scheduled runs** (`db/services/scheduled-agent-jobs.ts`, `agent/schedules/dynamic.ts`,
`agent/channels/scheduled-run.ts`, `agent/hooks/scheduled-run-completion.ts`,
`agent/lib/schedules/`, `agent/agent.ts`).
*State*: the row of a run, with status, attempts, retry time, lease token and expiry,
worker session, deferred turn, pending question, outcome, and its report's status,
sequence number, token and expiry; the session in Eve.
*Operations*: materialize, claim, record session, start, ask, answer (claim, finish,
restore), defer, complete, release, and claim, finalize, release and recover a report.
*Interaction*: the cron tick claims rows and posts a message to Eve; Eve's hook events
update the row; a report turn tells the user's conversation; the user's answer comes
back through a tool and an internal route.
*Hard*: two attempts overlap, a turn wakes later under another identity, the answer
route and the worker write the same columns, every actor may die between statements.
*Correct when*: every attempt is counted, only the newest completes the run, an ended
run stays ended, its report speaks of the present question or outcome and is
delivered, and no run is forgotten.

**Scheduled jobs and recurrence** (same service, `shared/schedules/`,
`server/schedules/manage.ts`).  *State*: job, revision, next occurrence, missed-run
policy.  *Operations*: create, update, pause, delete, materialize an occurrence.
*Hard*: update reads, computes and writes without a transaction; a late tick must
follow the policy.  *Correct when*: no occurrence runs twice, none is lost but by the
policy, and a deleted job stays deleted.

**Outbound channel lane** (`server/messaging/store.ts`, `server/channels/transport.ts`,
`server/channels/provider-errors.ts`, `agent/schedules/channel-dispatch.ts`).
*State*: `channel_outbox` rows of one identity, audit records of resolutions, what the
provider did.  *Operations*: enqueue, claim, check lease, send, mark sent, failed or
uncertain, reschedule after a 429, resolve, revoke, cancel.
*Hard*: an answer that never comes does not tell whether the message was sent; leases
run out under a live drain; a request lands long after it was given up.
*Correct when*: no message is sent more often than permitted, order is kept, statuses
are true, and the lane moves on.

**Inbound channel lane and hand-over to Eve** (`server/channels/inbound.ts`,
`webhook.ts`, `agent/lib/channel-session.ts`, `store.ts`).  *State*: `channel_inbox`
rows, Eve's keyed inputs.  *Operations*: accept, claim, hand over, mark accepted,
uncertain or failed.  *Hard*: webhooks are repeated; the process dies between Eve's
acceptance and the update; uncertain rows are claimed again.  *Correct when*: a message
reaches Eve once, in order, and one bad message does not hold up the lane for ever.

**Native scheduled reports** (`server/schedules/native-report.ts`).  Sends the report of
a run to a Telegram or WhatsApp identity through the outbox and settles the run from
the rows' statuses.  *Correct when*: the report's status agrees with its rows.

**Login prompts** (`server/channel-auth/`, `server/channels/dispatch.ts`).  *State*: one
`channel_auth_prompt` row per challenge, with recipient, status and lease.  *Operations*:
prepare, list, claim, read the lease and the challenge again, call the provider, settle,
retire what lapsed or is no longer wanted.  *Hard*: the challenge may end, or the address
change hands, between two of them; a rate limit is caught by nobody; the tick and the
webhook deliver at once.  *Correct when*: a person is asked once, the status is true, and
every prompt settles, so that its encrypted token is erased.

**Accounts, linking, archives, deletion** (`server/accounts/`).  *State*: identities and
pending contacts, browser sessions, challenges of browsers and of conversations, archived
accounts, the erasure journal.  *Operations*: contact, sign in, issue, bind, confirm and
consume a challenge, open the session of a login, revoke an address, archive an account
into another, erase.  *Hard*: a link or login is several requests by different parties,
between which an address is revoked or its account archived; erasure spans several
services and is resumed after crashes.  *Correct when*: an address stands for one account,
a session from a messenger is of the account that has the address, an archived account has
no session; an erased account leaves no work behind and erasure ends.

**Workspaces, members, invites** (`server/workspaces/`,
`db/services/organizations.ts`).  *Correct when*: a workspace keeps an owner, and an
invite is taken once and only by whom it was meant for.

**Matrix rooms and A2A tasks** (`server/a2a/`, `server/matrix/`,
`agent/channels/a2a.ts`, `db/migrations/0052_network-retirement-outboxes.sql`).
*State*: grants, tasks, the ledger of native cancellations, answers in the room, Eve's
sessions.  *Operations*: accept, deliver, bind, cancel, finish, fail, revoke, delete,
publish.  *Hard*: cancellation races binding and completion, a deleted task still has a
session that runs, a worker dies between the homeserver's answer and the commit.
*Correct when*: a task ends once, cancelled work stops, and an outcome is told, but not
after a revocation.

**The rest**: provider adapters (formatting, signatures), memory, artifacts, billing,
vault, connectors and executor (CRUD and outside calls), the agent's tools and prompts,
the web application, and the Eve runtime (third party).  They are listed in
`PROJECT.json` with the reason why they are not modelled.


## Scheduled runs

### Modules and correspondence

`RunRecord` has one operator per SQL statement, a function from the row before to the
row after it; a row that the WHERE clause does not match is returned unchanged, which
is what an UPDATE does.  `ScheduledRuns` composes them:

| variable | in the code |
| --- | --- |
| `row` | the row of one run |
| `disp[l]` | `executeScheduledRun` for the claim of attempt `l`: where it is, whether it has to reset the source first, the session Eve returned |
| `turn[l]` | the worker turn of attempt `l` as the hook sees it: session, lease from `scheduledRunIdentity`, background work, question |
| `source` | Eve: the live session of the run's source |
| `answer[a]` | a request to `/internal/scheduled-run/respond` |
| `rep[k]` | the report turn of report token `k`: the sequence number it was told, what its prompt says, whether it posted |
| `asked`, `faults` | the bounds' counters |

Each action is one statement or one call to Eve.  The tick is `Claim`, `Exhaust` and
`StaleReportReopens`; a dispatcher is `ResetSource`, `Send`, `RecordSession`,
`DispatchThrows`, `DispatchReleases`, `DispatchCrashes`; the hook is `TurnStarts`,
`InputRequested`, `BackgroundDelegated`, `MessageCompleted`, `TurnFails`; `StepStarts`
is the lease check before every model step in `agent/agent.ts`; the route and the
report turns follow the same scheme.

Abstractions.  A timestamp is "null", "ahead" of now or "past", and a clock action turns
"ahead" into "past".  A claim increments `attempts` in the transaction that draws a
fresh UUID as token, so attempt numbers name tokens; sessions are named by the attempt
whose message created them; report tokens by the number of the report's claim.  A
question is a number, an outcome its kind.  `releaseScheduledAgentRun` reads and then
updates; the model takes both in one step because the lease token fences the update
and the one column that could have changed is overwritten before anything reads it.
Runs do not share state, so one row suffices.

Eve is external.  It may start a turn late, end it at any point, deliver events of a
session that was reset, fail a call that it carried out, and wake a turn of its own
when background work ends.  That turn's identity is the session's initiator, as in
`scheduledRunIdentity`, and so is that of a turn resumed by an answer.

### Properties

- `AttemptsAccounted`: leased exactly while running or waiting, under the newest
  attempt; an outcome exactly when ended; abandoned only after the last attempt.
- `OpenReportIsCurrent`, `DeliveredReportPosted`, `ReportHasContent`: the report.
- `OutcomeIsFinal`: no late event changes a run that ended (action property).
- `OnlyNewestAttemptCompletes`: a superseded worker cannot complete it (action property).
- `EveryOutcomeReported`, `UnacceptedDispatchRetried`: liveness.

### Runs

| run | bounds | states | what it shows |
| --- | --- | --- | --- |
| `scheduled_runs_questions` | 1 attempt, 2 questions, 1 fault | 1.3 M | a question, its answer, a further question and the end of the run race each other, the reports of both and one crash; the five safety properties hold |
| `scheduled_runs_live` | 2 attempts, no question, 2 faults | 137 k | two dispatchers and two workers overlap; attempts are counted and only the newest completes; under fairness, crashes anywhere lose neither an outcome nor a claim without a worker |
| `scheduled_runs_stuck` | 2 attempts, no question, 1 fault | | finding 1 |
| `scheduled_runs_dead_letter` | 2 attempts, 1 question | | finding 2 |
| `scheduled_runs_interim` | 1 attempt, 1 question | | finding 3 |

`MaxAttempts` is 3 in the code; two attempts already give a superseded worker, a retry
and the limit, and the proofs hold for every number.  Two questions are needed for a
report of an earlier question to race a later one; one fault for each single crash or
failed call at each statement, two for a crash in the retry as well.  A report lease that runs out under a live report turn
is counted as a fault, because the turn then races its replacement.  The runs stop when
everything is settled, so deadlock is not checked.

Fairness: the cron tick comes every minute (`agent/schedules/dynamic.ts`), time passes,
and a live process and Eve go on; each disjunct of a process is fair only where it does
not spend a fault.  Nothing is assumed of the user: requests to the answer route
have no fairness.

### Proofs

`ScheduledRunsProofs` proves, for every `MaxAttempts`, `MaxQuestions`, `MaxFaults` and
set of answerers (assuming only that the first is positive and the bounds are naturals):

- `TypeCorrect`: `Spec => []TypeOK`.
- `InductiveInvariant`: `Spec => []IInv`.
- `AttemptsAreAccounted`, `OpenReportsAreCurrent`, `DeliveredReportsWerePosted`,
  `ReportsHaveContent`, `OutcomesAreFinal`, `OnlyTheNewestCompletes`.

`IInv` is `TypeOK /\ ActorsLeased /\ Accounted(row) /\ Silent(row) /\ ReportsAccounted`.
None of the properties is inductive alone.  `ActorsLeased` says that a live turn and a
request in flight never carry a NULL lease: `releaseScheduledAgentRun` names no status,
so a NULL would match every row whose lease was cleared.  `Accounted` is the lease and
attempt discipline.  `Silent` says that a run with neither a question nor an outcome has
no report token left, which the statements fenced by the report token alone need.
`ReportsAccounted` ties an open report to the turn that was told about it.  The proof
first shows statement by statement (on rows only) what each keeps, in the relation
`Kept(r, s)`; then each kind of actor has a lemma with one step per action that lifts
this to the state; the action properties follow from the invariant by the lemma
`StepIsFenced`.

Liveness is model-checked only.


## Outbound lane

### Modules and correspondence

`OutboxPromise` is the lane as its users see it: every message has a fate, a number of
copies in the conversation and a number of permits, and *delivering*, *settling*,
*vouching*, *cancelling* and *permitting* have preconditions.  `Outbox` is the code:

| variable | in the code |
| --- | --- |
| `outbox[m]` | the `m`-th `channel_outbox` row of the identity |
| `active` | `channel_identity.revoked_at IS NULL` |
| `drain[d]` | a running `drainOutbox`: the claim it holds and how far it is |
| `retries`, `vouched` | `channel_outbox_resolution` records |
| `copies`, `stray` | the provider: copies in the conversation, requests still under way that nobody waits for |
| `limits` | bound on 429 answers |

The order is the database sequence, by which `store.ts` numbers and claims the rows;
`server/messaging/README.md` words it as creation time with the ID as a tie-breaker.  Store
operations lock the identity and are one action each; the sweep of expired leases
is part of the claim, as in `store.ts`.  Between them a drain goes through `claimed`
(before `checkOutboxLease`), `sending` and the provider's answer.  Every answer of
`requestProviderJson` is there: receipt, lost or malformed receipt, transport error,
timeout with the request still under way, 429, rejection; so is a process that dies.
`RevokeIdentity`, `ArchiveAccount`, `DeleteAccount` and `RemoveMember` are the effects
of the account and workspace services on the lane.  The refinement maps `queued`,
`dispatching` and `uncertain` to the fate "open", and a message's permits to one more
than its authorized retries.

### Properties and runs

| run | bounds | states | what it shows |
| --- | --- | --- | --- |
| `outbox_order` | 2 messages, 2 drains, one 429 or 1 retry | 314 k | the lane implements its promise (`KeepsPromise`), delivers in order (`InOrder`) and never more copies than permits (`AtMostOnce`) |
| `native_report` | 2 messages, 1 drain, one 429, no retry, 2 reports | 134 k | `LaneMoves`, `RevokedOutputCancelled` under fairness, beside the properties of the reports |

Two messages are what order needs; two drains give a drain that outlives its lease and
its successor; a retry gives a stray request of one attempt that lands during the next.
A 429 and a retry do not occur in one behaviour (`OneDetour`): both put the row back into
the queue, and the proofs below need no such bound.  The two drains are interchangeable
(`Permutations(Drainer)`) in the safety run, which checks for deadlock too: a claim is
always possible.

Liveness is checked where the lane has a user, in `native_report`, without symmetry and
with one drain, whose own crash and expired lease are what the lane has to survive.  There
an operator may vouch for a message or give it up; a retry adds nothing to `LaneMoves`,
because the row that it puts back is queued like any other.

Fairness: the tick claims for every active lane each minute, time passes, and a drain
goes on or dies.  Operators are not fair: `resolveOutboxUncertain` has no caller in the
production code, so an uncertain message blocks its lane until someone acts, and
`LaneMoves` says exactly that.


### Proofs

`OutboxProofs` proves, for every number of messages, rate limits and retries and every
finite set of drains (`OutboxAssumption`):

- `LaneTypeCorrect`, `CopiesAreBounded` (`AtMostOnce`), `OrderIsKept` (`InOrder`);
- `LaneKeepsPromise`: `Spec => KeepsPromise`, every step of `Outbox` is a step of
  `OutboxPromise` or a stutter.

The argument is the inductive invariant `IInv`, which is `TypeOK` and four parts:

- `Budget`: the copies of a message, its late requests and the drains that hold it are
  at most its authorized retries, plus one if the row shows that its last permit is used
  (`Spent`).  `AtMostOnce` alone says nothing of what is still under way, so it is not
  inductive.  A row goes back to `queued` after a 429, or to `failed`, only by the drain
  that then lets go of it, so the sum stays in balance; `uncertain` keeps the permit.
- `Ordered`: a message that was ever claimed has only settled messages before it, and no
  row is enqueued before an earlier one.
- `Fresh`: a row that is not there was never tried and has no retries.
- `Traced`: copies, late requests and drains come from a claim, and a receipt from a copy.

Counting drains needs one lemma about cardinality (`HoldersChange`); the row lemmas say
what each statement does to a row (`Moves`); `StepKeeps`, `RowsStep` and `DrainStep` say
what a step has to show; then there is one lemma per kind of action.  For the refinement
`FateStutters`, `FateCancels`, `FateDelivers` and `FateSettles` do the same for the
abstract steps: `Budget` after the step gives the permit for a copy and makes "failed"
true, `Ordered` gives the turn, and `Traced` makes "sent" true.

Liveness is model-checked only.


## Inbound lane

### Modules and correspondence

`InboxPromise` is what a provider and a sender may count on: an event arrives once, is
heard by Eve at most once and in its lane's order, and ends *recorded*, which only a
heard one may, or *refused*, and then it is never heard.  `InboxHandoff` is the code:

| variable | in the code |
| --- | --- |
| `inbox[n]` | the `n`-th `channel_inbox` row of a sender; `content` is `native_input`: NULL, null, or what was prepared |
| `current`, `active` | the sender's latest `channel_identities` row; an archived account gets a new one |
| `drain[d]` | a running `handoffChannelMessage`: its row, where it is, the content it has |
| `artifact[e]` | the stored attachment of an event |
| `told` | rows whose sender has an `unsupported:<id>` answer in the outbox |
| `eve[n]`, `stray` | Eve: the input it has under the key of a row, and sends under way that nobody waits for |

Store operations lock the identity and are one action each, as on the outbound lane.
Between them a drain looks at its lease, asks Eve for the acceptance of the row's key,
loads the content or reads the stored attachment, writes the content down, looks at its
lease again and sends; every one of these is a step, at which it may die.  A call to Eve
that fails may still land (`LandsLate`).  A row of unknown fate is claimed again, unlike
on the outbound lane, because Eve can be asked.  (`server/messaging/README.md` says that
an uncertain item blocks and that nothing resets it; that holds of the outbox only.)

Abstractions: a content is one of a few values, text always loads to the same one, and
an attachment may be transcribed differently the next time; a lease token is the drain;
a lease held by a live drain runs out only as a fault, because its 150 seconds exceed
the drain's own timeouts.

### Properties, run, fairness

`KeepsPromise` is the refinement.  `SnapshotIsWhatEveGets`: what Eve has or may still get
is what the row says.  `FailedWasTold`: a message is given up only after its sender was
told.  `AcceptanceRecorded` and `LaneMoves`: an input that Eve has is recorded in the end,
and every row is settled, unless the identity is revoked or the attachment of a prepared
row was deleted before it was sent (`HeldUpBy`): `artifacts.readForSource`
(`server/channels/media/artifacts.ts`) then fails every hand-over before Eve
hears anything, and the lane behind waits for ever.

| run | bounds | states | what it shows |
| --- | --- | --- | --- |
| `inbox_handoff` | 2 events, one with an attachment, 2 contents, 2 drains, 2 identities, 1 fault | 72 k | all six, under fairness |

Two events give the order, two identities the lookup across an archived account, two
drains one that outlives its lease; one fault gives each single loss at each step, and a
recovery after it.  The tick claims each minute (`agent/schedules/channel-dispatch.ts`),
time passes and a live drain goes on: that is all the fairness there is.

### Proofs

`InboxProofs` proves, for every number of rows, identities and faults and every set of
drains, events and contents (`InboxAssumption`): `TypeCorrect`, `SnapshotsAreSent`
(`SnapshotIsWhatEveGets`), `FailuresAreTold` (`FailedWasTold`), and `HandoffKeepsPromise`,
`Spec => KeepsPromise`.  The inductive invariant `IInv` is `TypeOK`, the snapshot property
and three more:

- `Ordered`: rows are inserted in order, and a row that was ever claimed has only settled
  rows of its identity before it.  The promise wants order of what Eve *hears*, which may
  be long after the claim, so the claim is where it must be kept.
- `Verdicts`: an accepted row was heard; a failed row was told to its sender and has
  nothing prepared.  The second half is what makes a refusal final: no drain, however
  late, has a content of that row that it could still send.
- `Drains`: what a drain believes of its row stays true after it has lost the lease.  A
  content, once in the row, is the row's for good, so a late sender sends the same; that a
  row has *nothing* prepared is sure only of the drain that holds its lease, which is why
  `prepareInboxHandoff` and `markInboxFailed` have to be fenced by it.  An acceptance that was found stays
  one, so recording it late is harmless.

`Keeps` and `LeavesTo` say what a step on one row leaves to the other drains, and
`StepKeeps`, `DrainStep` and `FencedStep` what a step has to show; then there is a lemma per action.  For
the refinement a landing of a send is `PromiseHears`, a recorded verdict
`PromiseBecomes`, and the rest stutters.  `AcceptanceRecorded` and `LaneMoves` are
liveness and model-checked only.


## Scheduled jobs

### Modules and correspondence

`ScheduleTiming` is `shared/schedules/timing.ts`: `NextRun` and `LatestRun` with the
two-pass conversion from the wall clock (`FromWallClock`).  An instant is a number, a time
zone is an offset before and after one change of the clocks.  Beside them stands a
reference that searches for nothing: which instants are an occurrence (`Occurrences`).

`ScheduledJobs` is one row of `scheduled_agent_jobs`.  `job.plan` has the timing, the next
run, and the instant from which that was computed, which is not a column but what
`CatchUpLosesNothing` speaks of.  `updateScheduledAgentJob` reads, computes and writes in
two statements without a lock and is two actions (`ReadsForUpdate`, `WritesUpdate`);
`setReminderStatus`, creation, materialization and the account changes are one each.  The
clock jumps, so a tick may be arbitrarily late.

### Properties, runs, fairness

`TimingMeetsReference` compares arithmetic and reference for every schedule at every
instant of the week ahead.  `RunsAreOnSchedule`: a run that a tick adds is for an
occurrence of the timing the row has by then, not later than the clock and later than the
instant the next run was planned from, whichever stale plan an edit wrote back before.
`CatchUpLosesNothing` and `RunLatestCatchesUp` are the missed-run policies under late ticks and edits in flight.

`DueIsMaterialized` is liveness under the minute's tick, of each occurrence by itself: a next
run that is due is not the next run for ever, but is materialized or edited away.  It does
not say that the job stops being due: a catch_up job with an interval of one minute that has
fallen behind gets one occurrence per tick and may stay behind.  That an occurrence has no
two runs is no property here: the unique index on job and `scheduled_for` gives it, whatever
the rest does.

| run | bounds | states | what it shows |
| --- | --- | --- | --- |
| `scheduled_jobs` | 5 schedules, 4 instants, 1 edit in flight, 2 edits | 124 k | all six |
| `scheduled_jobs_edits` | as above, 5 instants, 3 edits | | finding 4 |

A week has three days of three hours, so that four instants cross a day and a change of
the clocks, and the reference is compared for a week from each.  The clocks change forward over a schedule's time and back
over it (`MCScheduledJobs`).  A change in the last hour of a day is left out: the code
then takes a skipped time on the next date and tests that date's weekday, and no
document says what it should do.  Runs are counted per occurrence; what becomes of a run
is `ScheduledRuns`.

### Proofs

`ScheduledJobsProofs` proves, for every clock, number of edits and set of editors:

- `NothingRunsAmiss`: `Spec => RunsAreOnSchedule`;
- `TimingIsRight`: `Spec => []TimingMeetsReference`;
- `NothingIsLost` (`CatchUpLosesNothing`), `LatestIsCaughtUp` (`RunLatestCatchesUp`) and
  `TypeCorrect`.

All assume `SteadyTimings`: every timing is one that
`scheduleTimingSchema` admits, and the zone of a calendar is `Regular` for it.  That is
where the code is right, and no more than a zone should have: the clocks go forward by
at most an hour, what they repeat is of one date, and a time they skip exists an hour
later on its own date.  Offsets, the instant of the change, the lengths of hour, day and
week, the weekend and the schedule's time are arbitrary.  It
excludes jumps of more than an hour, an hour that is repeated across midnight, and clocks
that skip the schedule's time in the last hour of a day; the last is the case the runs
leave out, for the reason above.  `Regular` is sufficient, not
necessary: with a week of three days of four hours some zones that repeat a time over
midnight meet the reference too.  `MCScheduledJobs` states that
TLC's timings are steady, and TLC evaluates that on every run.

The proof has two halves.  The arithmetic half shows that `NextRun` and `LatestRun` are
the first occurrence after and the last not after an instant (`NextIsFirst`,
`LatestIsLast`), where `Occurs` has no window to look in.  For calendars this rests on
`WallClock`, that the two passes of `zonedDateTimeToInstant` end at an instant that shows the
time, or shows it an hour later where it was skipped, of that very date; on
`CalendarDates`, that later dates give later instants, so that trying the dates in order
finds the nearest; and on `RemainderComes`, that two weeks have every weekday.  `Window`
and `SteadyMeetsReference` then relate this to the bounded reference that TLC evaluates.

The other half is the inductive invariant `JobInv`.  `WellPlanned`: a next run is an
occurrence of the timing beside it, later than the instant it was computed from.
`Complete`: under catch_up every occurrence between the two has a run.  Both are said of
all `Plans`, the row's and those that edits in flight hold, because an edit that read the
row before a tick writes an earlier next run back; the property, which speaks of the row
alone, is then not inductive.  `Existing`: an edit that writes has a row to write to.

The attempt to prove them corrected the reference once: for an interval it looked at one
period from now, and so missed a first instant further off than a period.  It also found
that the initial clock needs a `MaxTime` of at least 1.  `DueIsMaterialized` is liveness
and model-checked only, and finding 4 is why `TypeOK` cannot say more of an active job.


## Native reports

`NativeReport` extends `Outbox` by one run.  Each question or outcome of the run makes a
report, whose chunks are enqueued as messages of the lane and bound to it (`bound`, the rows
of `scheduled_agent_report_outputs`), and whose status is reconciled with theirs (`Receipt`).
`dispatchNativeScheduledReport` is a transaction under the run's lock, so it is one action
with its three outcomes, `Reconcile`, `CancelReport` and `EnqueueReport`; it may be called at
any time, which covers a delivery that dies between two calls.  Its fourth outcome, a report
without a text, is one that `scheduledRunOutcomeSchema` does not admit: only
`nothing_to_report` has none, and that is never pending.  Ordinary messages go through the
same lane.

Of the run the model keeps every statement that writes its status, its report's status or
its report's number:

| action | code (`db/services/scheduled-agent-jobs.ts`) |
| --- | --- |
| `ClaimsRun` | `claimReadyScheduledAgentRuns`; the report's status stays as it was |
| `Asks` | `waitForScheduledAgentRunInput` |
| `FindsInput`, `ClaimsInput`, `AnswerEnds` | `getScheduledAgentRunInput`, `claimScheduledAgentRunInput`, and `finish-` or `restoreScheduledAgentRunInput` or the death of the route between them |
| `Completes` | `completeScheduledAgentRun` |
| `ReadsForRelease`, `Releases` | the two statements of `releaseScheduledAgentRun`; `Releases` is also the claim that finds the attempts exhausted |

A release names the lease and no status.  A waiting run whose question is pending, queued,
in flight or uncertain thus becomes a dead letter with a report of its own while the chunks
of the question are still open, or is queued again with the report's status that the release
had read.  Leases and attempts are in `ScheduledRuns`; here a release may end either way at
any time, and a claim that takes over an expired run is a release and a claim.

A retry may write back a status that was true of an earlier report only, so the status is
said to be true where it is looked at (`Reported`): the dispatch, the claim of a report, its
recovery and the question that may be answered all ask for a run that is completed,
abandoned or waiting.  `ScheduledRuns` has the release in one step: what its second statement
could write back differently is looked at by nobody before the next report replaces it.

`VerdictIsTrue`: delivered, failed, cancelled and uncertain are each true of all chunks
of the present report.  `ReportSettles`: a report gets its verdict unless the lane waits
for an operator over another message.

| run | bounds | states | what it shows |
| --- | --- | --- | --- |
| `native_report` | 2 messages, 1 drain, one 429, no retry, 2 reports | 134 k | both, the types, and the lane's own liveness, under the lane's fairness and the tick's |

Two messages are a report of two chunks, or a report and another message; two reports are
a question and the outcome after its answer, or the dead letter of a run that was abandoned
while its question was under way.  Retries are left to `outbox_order`.
A report of `uncertain` stays so even if an operator later
resolves its chunk, and a question whose report is uncertain cannot be answered: the
model has both, and no text says otherwise.

### Proofs

`NativeReportProofs` extends `OutboxProofs` and proves, for every number of messages,
reports, rate limits and retries and every finite set of drains:

- `NativeTypeCorrect`, and `VerdictsAreTrue` (`NativeSpec => []VerdictIsTrue`);
- `ReportsKeepPromise`: `NativeSpec => KeepsPromise`, and with it `ReportsAreBounded` and
  `ReportsAreInOrder`.  What `OutboxProofs` shows of the lane alone is so shown of the lane
  under a run that enqueues in it and whose removal takes the bindings from under it.

`NativeInv` is the lane's `IInv`, the types and four parts.  `VerdictIsTrue` is not
inductive: an answer that is restored makes a running row a waiting one, whose status is
then looked at again.  `KnownVerdict` therefore says the same of every run that is `Known`,
which is `Reported`, or running with an answer under way.  `Sequenced` (a known report has a
number, a pending one no chunks, a queued one some) keeps a verdict from coming from the
chunks of an earlier report.  `Unbound`: a row that is not there belongs to no report.
`SentIsTrue`: a row that is sent was delivered or vouched for, from which a reconciliation
takes its "delivered".  The run's eight actions (`RunActionKeeps`) either start a report,
whose number no chunk has yet, or keep the one there is, or leave a run that is not known.
A verdict stays true after it was given because no step of the lane changes a settled row,
its binding, a copy or an operator's word (`MessageStays`); one lemma per action shows that
(`ClaimStays`, `SendStays`, `RecordStays`, `CancelledStays`).  `ReportSettles`, `LaneMoves` and
`RevokedOutputCancelled` are liveness and model-checked only.


## Accounts and login prompts

### Modules and correspondence

`AddressPromise` is a messenger address as its person may rely on it: which account it
stands for, which addresses were linked once, and which account was archived into which.
`ChannelAccounts` is the code of `server/accounts/`, and `AuthPrompts` adds the prompts:

| variable | in the code |
| --- | --- |
| `identity[s, u]` | the `channel_identity` row of an address and a user: none, active or revoked |
| `pending` | `channel_pending_sender` |
| `session[i]` | a `session` row: user, whether it is fresh, the address it came from |
| `challenge[c]` | a `channel_auth_challenge` row, of a browser (`issueChallenge`) or of a conversation (`NativeDeviceAuth.issue`) |
| `login` | what `consumeChallenge` returned and `withLoginSession` has not yet used |
| `archive` | `account_archive` |
| `prompt[c]` | the `channel_auth_prompt` row of a challenge |
| `delivery[c]` | `dispatchAuthPrompt`: claimed, calling, or with an answer that is not settled |
| `request[c]`, `copies[c]` | the provider: the request it was sent, messages that arrived |

Every operation of the accounts is a transaction under the account lock and one action.
A sign-in is two, `ConsumeLogin` and `IssueSession`; the second reads the identity again,
comes late or never (`DropLogin`).  Revocation and archiving delete sessions, which takes
along, by the foreign keys, the challenges they requested and their prompts
(`WithoutRequests`, `WithoutPrompts`), and cancel other challenges by their own conditions.
Every transaction of a prompt begins with `retire` (`Retired`), so it is part of each
action; the call to the provider is between two of them.

Abstractions: a secret is presented by whoever holds it; a challenge that was consumed,
cancelled or has expired is "closed", because every operation refuses it in the same way;
a session grows stale only while a challenge it asked for is open, because nothing else
asks for freshness but issuing, which a stale session merely may not do; archiving's
effects on output, jobs and grants are in `Outbox`, `ScheduledJobs` and `A2ATasks`.

### Properties, run, fairness

`KeepsPromise` is the refinement.  `SessionsFollowAddresses`: a session from a messenger is
of an account that still has the address, an archived account has none, and a login opens
the account that confirmed it, or the one that account was archived into.
`PromptTellsTheTruth`: one question per challenge, answered only by its recipient, and a
status that is true of the message.  `PromptSettles`: every prompt does.

| run | bounds | states | what it shows |
| --- | --- | --- | --- |
| `auth_prompts` | 2 addresses, 1 Google account, 1 messenger account, 2 sessions, 1 challenge of a browser, 1 of a conversation | 160 k | all four and the types, under fairness |

Two addresses let one be revoked while the other stays; the two accounts are the two ends
of an archiving; one challenge of each kind gives a login confirmed before the link that
archives its account is consumed.  The minute tick lists and claims prompts, and leases
lapse; a delivery may die at any step, and people and providers may be silent.

Revoking an address cancels the logins it confirmed, and archiving its account does not: a
browser login that was confirmed before then opens the target account.  Both have the same
person behind them and no text says otherwise, so the property allows it.

### Proofs

`AccountsProofs` proves, for every set of addresses, accounts, sessions and challenges
(`AccountsAssumption`): `TypeCorrect`; `AddressesKeepPromise`, `Spec => KeepsPromise`;
`SessionsFollow` (`SessionsFollowAddresses`); and `PromptsTellTheTruth`.  The inductive
invariant has three layers, each on top of the first:

- `TInv` is `TypeOK` with `RowsOK`: a confirmed challenge names who confirmed it, and an open
  one of a conversation names its address.  Without it a consumed challenge might link nobody.
- `AInv` is about addresses.  `Sole`: an address is active for one account.  `Left`: an
  archived account has no address and no session, and nothing was archived into it; so
  archiving never goes on from a source.  `Via`: sessions follow addresses.  `Approved`:
  whoever has the address of a confirmed login is the account that confirmed it, or the one
  that account was archived into (`Became`); this is what makes `Consumed`, the same of a
  login on its way, inductive.
- `PInv` is about prompts.  `Calls`: what a delivery and its request know of each other.
  `Statuses`: a prompt that is not yet claimed, failed or cancelled has no request and no
  delivery.  `Answered`: a confirmation is the recipient's.

The lemmas `MovedActive` and `LinkIs` say what archiving and linking do to the addresses, and
are used for the invariant and for the refinement; `RetiredTyped` and `StatusWritten` do the
same for the transactions of a prompt.  `PromptSettles` is model-checked only.


## A2A tasks

### Modules and correspondence

`TaskPromise` is a task as caller and room see it.  `A2ATasks` is the code:

| variable | in the code |
| --- | --- |
| `task[t]` | `agent_protocol_tasks`: state, whether its session is known, whether it has an output |
| `grant`, `listed` | the grant, and whether the bot is published |
| `ledger` | `agent_protocol_cancellations`, filled by the triggers of migration 0052 |
| `eve[t]` | the one session of the task, and which hook or handler it is in |
| `worker[w]` | a request or a job of the tick, and between which two statements it is |
| `room`, `answered` | the Matrix event, and `answer_event_id` |

A worker delivers (`Pick` to `ReadBack`), cancels (`CancelTask`, `CancelSession`), retires
a session of the ledger (`Retire`, `StopRetired`, `EraseRetired`) or publishes
(`StartPublishing`, `Put`, `Commit`: one transaction that holds the grant against a
revocation while it calls the homeserver).  Every revocation, whichever service makes it,
cancels the open tasks in its transaction, so it is one action; deletion cascades, and the
trigger saves the sessions.  Eve calls the hooks of `session-owner.ts` and the handlers of
`agent/channels/a2a.ts`; a check and the update after it are two steps.

### Properties, run, fairness

`KeepsPromise` is the refinement.  `CancelledWorkStops`: a known session of a cancelled or
deleted task is stopped in the end.  `SubmittedIsDelivered`: an accepted task reaches Eve
without its caller.  `OutcomeIsTold`: an outcome reaches the room.

| run | bounds | states | what it shows |
| --- | --- | --- | --- |
| `a2a_tasks` | 1 task, 1 request, 1 job, 1 unpublishing, 2 faults | 38 k | all five |

Tasks of a grant meet only in the limit of five active ones, which one task does not
reach; the proofs hold for every number of them.  A request and a job are two workers over
the same task; two faults are a crash in what repairs the first.  Fairness: the tick takes
what is pending of each kind, whatever callers do meanwhile (strong fairness of `Pick`,
`Retire` and `StartPublishing` for jobs), a worker goes on or dies, and Eve calls the hooks
of a session.  A turn need not end.  The strong fairness is slightly more than the tick
gives, which takes the 25 oldest of a kind: see "Not modelled, and why".

Three behaviours are in the model and contradict no text, so they are listed as hazards
only: a failed binding retires the session of a living task, which then stays WORKING; a
turn that completes while the bot is unpublished is dropped with the same effect; and a
session whose id nobody recorded is not stopped by a cancellation.

### Proofs

`A2AProofs` proves, for every set of tasks and workers and every bound (`A2AAssumption`),
`TypeCorrect` and `TasksKeepPromise`: `Spec => KeepsPromise`.  The inductive invariant is
`TypeOK` in four parts (`TasksOK`, `SessionsOK`, `WorkersOK`, `RestOK`) and two more:
`HasReceipt`, that a worker that binds has Eve's receipt, so the task's session exists; and
`HoldsOutcome`, that a worker in the publishing transaction works on a task with an outcome
under a grant that is not revoked, and has put the answer in the room before it commits.
`TypeOK` alone is not inductive: it says that a session known to a row or the ledger
exists, and that a recorded answer is in the room.  For the refinement each action has a lemma that says
which abstract step it is: an update of a row is `End` or a stutter by `FateOf`, a `Put` is
`Post` by `HoldsOutcome`, and `Revoke` and `Delete` are the two forms of the abstract
`Revoke`.  The liveness properties are model-checked only.


## Findings

1. **A retry can be lost** (`scheduled_runs_stuck`).  A claim is taken over after its
   startup lease only while `worker_session_id` is null, but a retry keeps the session of
   the attempt before.  If its dispatcher dies before the restarted worker has a message,
   nothing selects the row again.
2. **A dead letter that asks** (`scheduled_runs_dead_letter`).  A run abandoned while its
   worker was asking keeps its question, which takes precedence in the report's prompt.
3. **An interim message completes a run** (`scheduled_runs_interim`).  Finishing an answer
   clears the deferral that the resumed turn may just have recorded.

4. **An active job without a next run** (`scheduled_jobs_edits`).  An edit that read the
   job while it was paused writes its `NULL` next run over a resume that came in between;
   the job says active and never runs again.

`PROJECT.json` quotes the lines that say otherwise.


## Not modelled, and why

Message contents, hashes, formatting and logging: no property is about them.  A text of
several chunks is several messages: the code has no rule that joins them, except for
native reports.  Several identities in one model are left out because their rows share no
state.  Matrix rooms (creation,
invitation, retirement, their own ledger) and the homeserver's users are not modelled;
neither are invites, members, erasure and the privacy export beyond their effects on the
lanes, jobs and tasks, nor is reading an archive, which changes nothing.

The batches of a tick are left out: it takes the 25 oldest rows of each kind, and the models
have fewer.  That changes no safety property, since a tick may take any of them, but it is
part of the fairness.  A row that the model serves every minute may in the code wait behind
25 older ones, and is served in the end if those leave the batch.  Two kinds of answers of
tasks do not: an empty output, and the answer of a bot that is hidden, keep their place among
the pending answers until their grant expires (`pendingMatrixProtocolAnswers`).  Grants do
expire, which bounds the wait; the models say nothing of how long it is.

By lines, most of the repository is not a system of this kind: the web application
(components, pages and styles), the agent's tools and prompts, browser automation,
provider formatting, tests of prompts and build scripts.  They keep no state that several
actors change, or they belong to Eve and to the model.


## What is proved, and what only checked

Every invariant, action property and refinement of a passing run is a theorem of its
specification, listed in `PROJECT.json`.  Only model-checked are:

- liveness, which the prover does not do under fairness: `AcceptanceRecorded`,
  `LaneMoves`, `EveryOutcomeReported`, `UnacceptedDispatchRetried`, `DueIsMaterialized`, `ReportSettles`,
  `RevokedOutputCancelled`, `PromptSettles`, `CancelledWorkStops`, `SubmittedIsDelivered`,
  `OutcomeIsTold`;
- what the four runs show that expect a violation: a counterexample is one instance;
- calendars in zones that are not `Regular`.

Nothing here needs an induction over data: the occurrences of a schedule are arithmetic,
and where the least of infinitely many is needed, it comes from the well-foundedness of
the naturals (`Least`, in `ScheduledJobsProofs`).


## Plan

1. `AccountErasure`: the erasure journal across crashes; invites and members.
2. Matrix rooms: creation, invitation and retirement, with the ledger of rooms.
3. Proofs about these as they are written; those about the modules above are done but for
   liveness.
