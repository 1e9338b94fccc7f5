# CanaryGuard AI in TLA+

CanaryGuard AI is a TypeScript service that takes signed GitHub webhooks, keeps
a release lifecycle in PostgreSQL, reviews pull requests in leased background
workers, publishes a Check Run with its decision, records and steers canary
deployments, and reports on them to a management dashboard. This directory
holds TLA+ models of the parts of it that are hard to test, the TLC
configurations that check them, and TLAPS proofs of what matters most for any
number of pull requests, workers, tasks, connections and events. Paths below are
relative to the repository, which is `src/`; `src/src/` is abbreviated to `src/`
where no confusion arises. `PROJECT.json` maps every definition to its lines.

## 1. Inventory

| Component | State | Operations | Interacts with |
|---|---|---|---|
| Release lifecycle store (`persistence/postgres-release-lifecycle-store.ts`) | pull requests, releases, policy decisions, tasks, attempts, deliveries | three `accept...Delivery`, `resolveReleaseId`, `recordReview`, `claim/complete/retryWorkflowRunTask` | receiver, worker, review controller; shares tables with the event store |
| Deployment event store (`persistence/postgres-deployment-event-store.ts`) | attempts, outcomes, receipts | start, observation, blocked and attempted outcome, replay | rollout, over HTTP |
| Webhook receiver (`github/github-webhook-receiver.ts`) | none of its own | signature and schema checks, then a store transaction or the in-memory path | GitHub, store, queue |
| In-memory path (`github-webhook-replay-guard.ts`, `InMemoryGitHubWorkflowRunQueue`) | remembered deliveries, pending tasks, active count, scheduled flag | reserve, release, dispatch, drain | receiver, processor |
| Durable worker (`DurableGitHubWorkflowRunWorker`) | claimed task and its attempts count, in memory | `runOnce`, `drain`, `start`, `stop` | store, GitHub |
| Review pipeline (`controllers/*review-controller.ts`, engines, evidence adapters) | what one review has collected | collect, normalize, analyse, decide, record | GitHub, store, language model |
| GitHub client (`github/github-api-client.ts`) | none | evidence reads one request at a time, `publishCheckRun` | GitHub |
| Rollout orchestrator (`deployment/canary-rollout.ts`) and publisher | four flags; retries of one event | baseline, start, canary, observe, route, outcome, recovery | gateway, event API |
| Canary observer and policy (`canary-observer.ts`, `canary-policy.ts`) | samples of one observation | observe, evaluate | gateway |
| Lead intake and outbox (`persistence/postgres-customer-lead-store.ts`, `customer-lead-notification-worker.ts`, `qualified-lead-notifier.ts`, `relay/worker.mjs`) | leads, notifications, leases, alert flag | submit, transition, claim, notify, complete, retry, monitor | relay, mail provider |
| Management reports and tenant authorization (`persistence/postgres-management-report-store.ts`, `authorization/`) | a page's cursor; credentials and repository access | list, detail, export | the tables, dashboard, discovery |
| Management dashboard (`public/management/dashboard.js`) | key, scope, history, selected release, detail on display | sign in, load older, open, close, export, forget | report API |
| Discovery of Render deployments (`deployment/render-deployment-discovery.ts`) | none | live deployment, merged pull request, reviewed release | Render, GitHub, report API |
| HTTP application and server lifecycle (`app.ts`, `middleware/`, `server.ts`) | connections, running handlers, timers of two workers, the pool | a request's handler, start, `shutdown` | everything above |
| Database migration | schema | sequential files under an advisory lock | see section 7 |

What is hard in each, and what makes it correct:

* **Lifecycle store.** GitHub delivers late, twice and out of order; a commit
  can be the head of two pull requests; a review is resolved in one transaction
  and recorded in another; a closure or a new head withdraws releases, tasks
  and attempts in the middle of all of it. Correct means: live work is for the
  recorded head of its own pull request or of the one that took its release
  over, withdrawn releases keep no attempt in progress, settled work is settled
  for good.
* **Event store.** Publishers repeat events; reviews change the policy under an
  attempt; the row lock is waited for with a snapshot taken before. Correct
  means: one attempt at a time, each started once, release, attempt and outcome
  rows in step, no outcome earlier than what it concludes.
* **Workers.** Leases run out under living workers, reports are not fenced,
  processes die anywhere, and other runs review the same commit. Correct means:
  bounded retries, no Check Run beside one that GitHub lists, one that shows the
  task's review as long as that is on record, no task left unsettled.
* **Rollout.** Each of ten awaits can fail after a partial effect, and each
  answer can be lost after the request was applied. Correct means: a failed
  rollout takes traffic back, the record and the traffic never differ silently.
* **In-memory path.** One event loop, but capacity, expiry and a wake-up flag.
  Correct means: a delivery runs once within its time to live, one refused for
  capacity can be delivered again, every accepted task is reviewed.
* **Review pipeline.** A review is put together from many requests while the
  workflow is run again, artifacts are replaced and the pull request is pushed
  to; scans are cut short and a language model has its say. Correct means: the
  evidence is of one attempt, failed evidence blocks whatever the model says,
  green is shown only for what passed, and the job keeps the queue's protocol.
* **Reports.** A history is paged while releases are created with stamps from
  before their commit; a detail takes several queries; access may be withdrawn
  at any time. Correct means: no release missing, repeated or out of order, a
  detail of one moment, nothing for callers without a credential or without
  access to the repository.
* **Discovery.** Three services asked in turn. Correct means: what is correlated
  is a continued review of the head of the pull request the deployed commit came
  from.
* **Process.** Requests, timers and jobs share a pool that shutdown takes away,
  perhaps twice. Correct means: nobody loses it under an awaited answer, and the
  process ends.
* **Leads and outbox.** Quotas over rolling windows with stamps read before a
  lock; idempotency tokens; a honeypot that answers as if it recorded;
  at-least-once delivery through a relay, watched by a monitor that dies with its
  worker. Correct means: no window exceeds its quota, a genuine RECEIVED is on
  record until its retention ends, only the last claim of a notification is
  heeded, each event is mailed exactly once if its failures end, and raises the
  alert if they do not while a service stays up.

## 2. Modules

| Module | Models | How |
|---|---|---|
| `ReleaseTables` | the tables shared by both stores | one function per column that a decision reads |
| `ReleaseLifecycleStore` | lifecycle transactions | one operator per transaction, its guards and early returns as conjuncts |
| `DeploymentEventStore` | `recordPostgresDeploymentEvent` | one operator per event type; the policy row a transaction works with is an argument |
| `CanaryGuard` | the service around the tables | workers, review requests and event requests, each with the awaits between their transactions |
| `AttemptLedger` | what the platform promises about attempts | abstract specification, implemented by `CanaryGuard` through a refinement mapping |
| `CanaryRollout` | `runCanaryRollout` with its publisher | the same two stores as the API; a program counter over the awaits, the gateway and the code's own flags |
| `CanaryPolicy` | `observeCanary` and `evaluateCanary` | operators: the samples the loop can end with, the thresholds over integer fractions; `Observe` of `CanaryRollout` is a choice from `ObserveCanary` |
| `WorkflowQueue` | the leased queue in time, with Check Runs | leases and back-off as booleans the clock changes; GitHub's Check Runs by `external_id`, listed for sure only while none on the commit is newer; one review on record for each commit |
| `EvidenceReport` | the scanner adapters | operators: duplicates, order and where a report is cut |
| `ReviewPolicy` | CI investigator, deterministic engine, policy engine, CI diagnosis, Check Run conclusion | operators over sets of findings and steps; scores only as thresholds reached |
| `ReviewJob` | one review from its first request to GitHub to its Check Run | one action per request, GitHub's changes between any two; implements `WorkflowQueue` for one worker |
| `InMemoryWebhook` | replay guard and queue of a service without database | one action per callback of the event loop |
| `Service` | `app.ts` and `server.ts` around it | a request's handler from await to await, the two workers by their timers and jobs, `shutdown` of each signal |
| `ManagementReport` | report queries, and what the stores commit under them | a release's rows as one record; a query is an operator on the rows it sees |
| `Dashboard` | the management dashboard and the service that answers it | the page's own state, and a request from query to query |
| `RenderDiscovery` | `discoverRenderDeploymentCorrelation` | one action per service asked |
| `Reporting` | the three together | writers and one reading client |
| `LeadIntake` | `submitLead` and `createLead` with quotas, tokens and the honeypot | stamp when submitted, decide later, any order; operators delete leads whose retention is over |
| `NotificationOutbox` | outbox, worker, relay, provider, monitor | one action per await of `runOnce`, `drain` and `monitorOnce`; the fence is the `attempts` counter and what a claim returned of it |

`CanaryGuard` and `CanaryRollout` compose both stores over the same tables.
`ReviewJob` composes the policy and the reports with a job, and is tied to the
queue by refinement: it does to its task, review and Check Run what the job of
`WorkflowQueue` does in fewer steps, so what that module shows of several
workers carries over to what they really do, but for a publication that is
applied after its job gave it up, which only `WorkflowQueue` has. `Service` puts `InMemoryWebhook`
behind its requests; with a database the controllers and jobs behind it are the
other modules' subject, and an await that uses the pool here. `Reporting` has
its own small picture of a release's rows: a transaction of the two stores is
one step on it, for any number of reviews, attempts and outcomes, with what only
those modules can tell (event times, stale policy snapshots, identifiers) left
to them. The other
modules are on their own because what they add (time, leases, mails) touches no
other table.

The `MC...` modules hold only definitions that a configuration needs. The
definitions commented as *Mutant* are bugs a programmer could have made in the
definition after them; each of the checked properties is refuted when its mutant
takes the definition's place, so none of them holds by the shape of the model
alone. Type invariants that no run lists are what the proofs rest on, or are
there for the reader.

Choices that matter for reading the models:

* A transaction is one action. Both stores run at READ COMMITTED under row
  locks, so this is exact but for one place: `lockRelease` reads the release and
  its policy row in one `SELECT ... FOR UPDATE OF r`. When it waits, PostgreSQL
  re-reads the locked row only, so the policy row may be older. `CanaryGuard`
  therefore splits an event into `LockRelease`, which takes the snapshot, and
  `ApplyEvent`.
* An event, delivery or submission that the code refuses changes no row; those
  answers are not actions unless somebody waits for them (`Refused` in
  `CanaryRollout`, `Refuse` in `LeadIntake`).
* `SKIP LOCKED` makes the `ORDER BY` of a claim a preference: a claim may take
  any claimable row.
* What engines and the language model decide is a free choice of strategy where
  the tables are concerned; `ReviewPolicy` is how it comes about, and there only
  the model's advice is free.
* A name of a job or a step stands for what the patterns for names see in it; a
  finding is its key and its severity; a risk score is the thresholds it
  reaches, all of which compare the same maximum.
* Stamps of releases are microseconds, those of reports milliseconds. A release
  has the time its transaction began and appears when it commits.
* In `Service` the route `REPORT` stands for every authenticated read, and a
  delivery with a database for every request whose body is read first and whose
  controller then uses the pool. A process that got a signal goes on to run its
  queue in memory empty: nothing calls `process.exit`.
* Clients of the reports only read, so that one at a time is enough.
* `evaluateCanary` computes with doubles. A correctly rounded quotient compares
  with a limit exactly as the fraction does, so fractions stand for rates. The
  increase is a difference of two rounded quotients (`0.05 - 0.03` exceeds
  `0.02`), so where it equals its limit `FailureIncreasePasses` allows both
  answers.
* GitHub, the gateway's containers, the relay and the mail provider are
  external. A request to one of them can be lost, refused, applied with its
  answer lost, or applied late.

## 3. Runs

Each passing run finishes within about three minutes, most within one.

| Run | Question | Bounds |
|---|---|---|
| `Intake` | Is live work for a recorded head, its own pull request's or that of the one that took its release; do withdrawn releases keep no attempt; is a task given up only after its claims, and what is settled left alone; with deliveries in any order and reports several claims late? | two pull requests that share two commits, a run on one of these, three deliveries, two workers, four claims of which three may fail, an attempt with one event |
| `Rollouts` | Do release, attempt and outcome rows stay in step under repeated reviews, stale snapshots and times in any order, and implement the ledger? | one release, two attempts, four events, two times, one delivery |
| `Rollout` | What do the rollout's flags and its recovery guarantee when awaits fail and answers are lost? Does it end? | one attempt, one retry, two deliveries, reviews that confirm or block; samples of two and four, six requests in all |
| `Queue` | Do leases, retries, crashes and requests applied late leave no Check Run beside a listed one, one that shows the task's review while it is on record, and a settled task? | one task of a commit that others review too, two workers, two failures, two crashes, one publication on its way after its job |
| `ReviewJob` | Is a review made of one attempt's evidence and of its head, do failures block it, is green earned, does its diagnosis agree, does its job keep the queue's protocol? | a webhook's task or a request; one run of two attempts, one artifact, one push, two claims before it is given up; three results of a run, three scans of which one is too long; two crashes and others who review the commit, both where the evidence is plain |
| `Service` | Is a delivery run once per time to live and every accepted task reviewed; does shutdown leave nobody without the pool, and end? | three deliveries, two with tasks, guard and queue of two, two ticks beyond the first, one connection, both signals; with and without a database, each worker on or off |
| `Report` | Is a paged history whole and in order, a detail of one moment, an answer entitled, a correlation that of the merged pull request? | three instances in one: two releases of one repository and one of another, created by three transactions, pages of one, stamps in two milliseconds; one release with five transactions, enough for a review, an attempt, its end and a second one, with closures and supersessions between, attempts cut off after one, the audit trail after three; two pull requests with one head and a release of another repository, four transactions |
| `LeadIntake` | Do rolling quotas hold with stamps out of order, and does RECEIVED mean recorded? | three tokens, two mailboxes, two spellings, quotas of two and one, retention of two ticks; one receipt is looked at, which is any |
| `Outbox` | Is every event mailed at most once, and is only the last claim heeded? | one lead, both events, two workers, three claims of each, leases that run out under jobs |
| `OutboxLive` | Is each notification delivered if its own failures end, and does one that is stuck raise the alert? | one lead, both events, one worker with its monitor, an alert after one attempt |
| `BlockedBesideActive`, `EvidenceExport` | refuted statements, section 6 | the smallest instance that shows it |

Why these bounds are enough: every violation that the mutants cause appears
well inside them. The conflicts are between two of a kind (two heads, two
attempts of one release or of one workflow run, two workers on a task, two pull
requests on a commit, two submissions in a window, two signals), and each run
has two of the kind it is about. The shortest trace that confuses two pull
requests takes three deliveries, and `Intake` has them. In the same run a count is
handed out, its lease ends, the other worker claims, reports and claims again,
and the first reports what it was handed three claims ago. Two failures and two
crashes in `Queue` let a stale report undo a last-attempt report. One receipt is
enough in `LeadIntake` because receipts are history that no action reads. In
`OutboxLive` no count is ever stale, so the counter may stop at its bound without stopping the claims. The retry of
`Rollout` lets an event be applied at the first, the second or no try; its
samples are the smallest in which both rates can miss their limits alone and the
increase can equal its own. `ReviewJob` has a scan with a duplicate and an
unknown severity, one whose critical finding Trivy's order puts last and cuts
off, and one that cannot be read; results that succeed, fail in two ways at once,
and are cancelled with a failed test. In `Report` a page ends between two
releases of one stamp, which the cursor's rounding separates, and of two
milliseconds. `Report` and `ReviewJob` have a `CONSTRAINT` (`Explored` in their
`MC` modules) that bounds each part of the run by what its question needs:
pages by creations, a detail by what one release goes through, a correlation by
both; and crashes and others' reviews, whose effects do not depend on what a
review found, by plain evidence. Both runs check safety only. `Service` has one
connection, since its liveness is checked over every interleaving with two
shutdowns, jobs and timers; its safety is proved for any number (section 5), as
is whatever else depends on no bound. Counters without a bound in the code are
bounded by the guards of the actions that move them: `MaxClaims`, `MaxCrashes`,
`MaxOnWire`, `MaxAttempts`, `MaxTime`, `MaxSubmitted`, `MaxReceived`,
`MaxRunAttempt`, `MaxPushes`, `MaxTransactions`, and the sizes of `DeliveryId`
and `EventId`. `CHECK_DEADLOCK FALSE` stands where the
environment may have nothing more to say: deliveries, events, transactions or
crashes are used up and all work has settled, or a rollout has ended.

## 4. Fairness

Safety properties need none. Liveness is claimed for:

* `RolloutEnds`: weak fairness of `RolloutStep`. Every await of
  `runCanaryRollout` settles: `docker compose up --wait --wait-timeout 60`, the
  abort timer of the publisher's requests (`deployment-event-publisher.ts:209`),
  the cap on the requests observed. The requests of an observation
  (`scripts/run-canary-rollout.ts:203`) and of the routing check
  (`scripts/verify-routing.ts:57`) have no timer of their own; they settle by
  the default timeouts of the runtime's `fetch`, which the run assumes. Nothing
  is assumed of the API, of reviews or of deliveries. An end may leave traffic on
  the canary: a continued canary is meant to, and a killed runner does.
* `EveryTaskSettles`: leases and back-offs run out since time passes; a job's
  awaits settle; the poll timer calls `drain`. Crashes are bounded, otherwise a
  task that kills its worker is claimed for ever: no maximum is looked at when
  an expired lease is taken over. The property therefore says nothing against
  such a task.
* `AcceptedIsReviewed` and `ShutdownEnds`: the event loop runs what
  `setImmediate` scheduled; every review, query and job ends; a peer sends the
  rest of a body, or the server's own timeouts end the connection. One
  assumption is strong fairness: a connection that is again and again idle is at
  some time hung up, since a server that is closing takes no new connection and
  its timeout for keep-alive (`server.close` of the image's Node.js 24 ends
  idle connections at once) catches one that is. Nothing is assumed of
  signals, of clients or of the timers of workers.
* `EveryEventIsDelivered`: time passes, awaits settle (the notifier's ten-second
  abort timer), timers fire, a service that is down is restarted. `Recovery`,
  the premise in the property itself, adds that no failure of this notification
  is for ever: of infinitely many claims, requests and reports of it, one
  succeeds. Nothing is assumed of the other notification, which may fail for
  ever without holding this one up.
  Strong fairness is justified there because claims are ordered by
  `next_attempt_at`, so none is passed over for ever. `LeaseOutlastsJob` holds
  in that run since the request's abort timer is a third of the lease.
* `StuckRaisesAlert`: the same without `Recovery`: the relay may be out of
  service for good. The monitor is a timer of the notification worker, stops and
  dies with it, keeps its alert in memory, and its query may throw. `Watched`,
  the premise, asks for one service that stays up from some time on and whose
  reading of the backlog is, again and again, answered. Without such a service
  nothing raises the alert, which `relay/README.md:65-70` says of the free
  hosting plan.

The durable worker is started only if an evidence provider is enabled
(`server.ts`, and as `README.md:1082` documents); `EveryTaskSettles` is about a
service whose worker runs.

## 5. Proofs

| Module | Theorems |
|---|---|
| `CanaryGuardProofs` | `TypeSafety`; `OneActiveAttemptAlways`, `DeployingHasAttemptAlways`, `WithdrawnHasNoAttemptAlways`, `OutcomeAgreesAlways`, `OutcomeIsChronologicalAlways`, `AttemptStartedOnceAlways`, `EndedAttemptStaysAlways`, `OutcomeTimeAdvancesAlways`, `LedgerRefinement`; `LiveTaskIsCurrentAlways`, `WorkerSafety`, `SettledTaskStaysAlways` |
| `CanaryRolloutProofs` | `FailureRollsBackAlways`, `PromotionIsEarnedAlways`, `CanaryAfterStartAlways`, `QuietEndAgreesAlways` |
| `WorkflowQueueProofs` | `CompletedHasCheckRunAlways`, `OneCheckRunAlways`, `CheckRunShowsReviewAlways` |
| `ReviewJobProofs` | `TypeCorrect`, `ReviewInvariant`, `EvidenceIsOfOneAttemptAlways`, `DiffIsOfHeadAlways`, `FailedEvidenceBlocksAlways`, `GreenCheckIsEarnedAlways`, `DiagnosisAgreesAlways`, `QueueRefinement` |
| `ReportingProofs` | `ReportingInvariant`, `HistoryIsOrderedAlways`, `HistoryIsWholeAlways`, `DetailIsOfOneMomentAlways`, `AnswerIsEntitledAlways`, `CorrelationIsOfMergedPullRequestAlways` |
| `NotificationOutboxProofs` | `DeliveredWasMailedAlways`, `OneMailAlways`, `ReportsAreFencedAlways` |
| `LeadIntakeProofs` | `HourlyQuotaAlways`, `DailyQuotaAlways`, `ReceivedIsRecordedAlways` |
| `ServiceProofs` | `StoreClosedLastAlways`, `AcceptedOncePerTtlAlways` |

They hold for every value of the constants under the named assumptions of the
modules (`None` is not one of the things it stands beside, maxima are positive
naturals, sets of tokens are finite). Those of the review name what the code
gives its constants: a scan lists finitely many results, an artifact's results
are of its kind, the patterns for names of steps are of the categories there
are (`ReviewPolicyAssumption`, `EvidenceReportAssumption`, `ResultAssumption`,
`ScanAssumption`, `ArtifactAssumption`). `OneMailAlways` assumes
`KeyOutlastsRetries`: the provider remembers an idempotency key as long as the
notification may still be sent. The relay passes the key on, and the provider
keeps keys for twenty-four hours. Retries have no bound in the code, so an
outage of the database or of the relay's answers that lasts longer is outside
the condition: such a notification may be mailed twice.

The arguments:

* **Deployments.** `OneActiveAttempt` alone is not inductive: it also needs that
  a release outside DEPLOYING, REVIEWED and COMPLETED has no attempt in
  progress, that a DEPLOYING one has, and that unused attempts belong to no
  release. `RolloutInv` is their conjunction with what relates outcome rows and
  receipts to attempts. Each conjunct has one lemma per transaction that can
  disturb it; the processes around the transactions only choose arguments.
* **Intake.** A task names a release and the pull request its worker will ask
  for; the release names a pull request too, which is another when two of them
  share the commit, and a pull request a head. A delivery can move all but the
  task's own. The invariant (`LiveTaskHasHead`) is that the pull request that has
  a live task's release is at its commit: a delivery moves one head and one
  release, and supersedes the tasks of the releases it leaves behind. The task's
  own pull request may have moved on; it is then only another one with the same
  head that keeps the task live, and `LiveTaskIsCurrent` says so. `WorkerSafety` adds
  what a worker in each phase knows: the count it was handed is not above the
  table's, and a worker that has reviewed has left a decision.
* **Ledger.** `AttemptEnd` maps an attempt's status to the ledger's; each
  transaction is a ledger step or a stutter, with the deployment invariant.
* **Rollout.** What is on record at each await (`Recorded`), that
  `rollbackApplied` is only set while the route is the rollback's
  (`FlagsTell`), and that a verdict on record was sent after a promoting
  observation (`Earned`). No action changes the observation once the verdict was
  sent; `Unacceptable`, the only place of an `ENABLED`, stays unexpanded.
  `PromotionWithinLimits` is about the policy's operators alone. `QuietEndAgrees`
  needs the rows beside the runner's state (`EndInv`): an attempt that ended
  stays ended because its start has one receipt, its failure and its promotion
  exclude each other on record, and a promotion needs an answered start.
* **Queue.** A phase tells what its job has done (`JobPublishes`, enough for
  `CompletedHasCheckRun`, stale workers included). Until a job of it outlives
  its lease a task has one holder, whose claim is the latest; only then can what
  that job found at GitHub still be true when it publishes, and that only if
  nothing it gave up is applied later. `JobIsAlone` says what it knows: that no
  Check Run of the task is the newest of its commit when it found none, and that
  the review on record, while it is the task's, is its own claim's. Another run
  or request may put its review in that place at any time, which
  `CheckRunShowsReview` allows for.
* **Review.** `ReviewInv` says what each stage has collected, and that what was
  listed of an attempt that had ended is all it will ever have: GitHub's steps
  only add to the attempt under way. With it the evidence of a recorded review
  is of one attempt although that attempt is no longer the latest. The policy is
  a matter of lemmas without state: a failure or a critical finding that
  reaches the findings blocks (`FailedRunBlocks`, `CriticalReportBlocks`),
  cutting a report off keeps one because what is cut is not LOW
  (`CriticalIsKept`, `TruncatedReportSlows`), and no advice lowers a decision.
  The least key of a finite scan exists because strict subsets are well-founded.
  `QueueRefinement` maps each request of a job to a step of `WorkflowQueue` or a
  stutter, so the theorems of that module hold of the real sequence of requests,
  as long as no publication that was given up is applied.
* **Reports.** A committed release keeps its stamp and its repository (`Stays`),
  so an order once read is one for ever. `HistoryInv` then says that the history
  on display is sorted, ends where the cursor begins, and misses nothing of what
  its first page's query saw: a release is listed, shares a millisecond with one
  that is, or is older than the cursor. That a page continues it (`PageIsWhole`,
  `NextPageGoesOn`) needs `ORDER BY` to have a result, hence that finitely many
  releases are committed, and that rounding a stamp down passes no release of an
  earlier millisecond (`MillisecondBegins`). While another history is being
  loaded the old one is exempt. `DetailInv` ties every section to the one row
  the transaction sees, in which status, attempt, outcome and the length of the
  audit trail agree (`RowAgrees`), through every outcome, further attempts and
  repeated reviews. The credential is looked at once and the repository's grant
  once, later: a request that passed both was sent by an entitled caller because
  neither comes back (`EntitledInv`); what `scripts/provision-tenant.ts` grants
  anew while the service answers is left out. A credential revoked between the
  two is not noticed, by the code or by the model.
* **Outbox.** A mail that was sent is remembered or never used again; that the
  two cannot part is the invariant behind `OneMail`. The code's fence compares
  numbers and no names: a report is heeded if the row's `attempts` is what its
  claim returned. That this lets only the last claimer in is `FenceInv`: what
  any other worker on the row was given is below the counter, since every claim
  increments it. The theorem is for leases of any length against jobs.
* **Quotas.** For the window that ends at any lead's stamp, the leads in it were
  counted by the latest of them to be decided, whatever the order of stamps.
  Cardinalities are compared by injection, not computed.
* **Shutdown.** `ShutdownInv` says what is at rest at each await of `shutdown`:
  the server no longer listens, then no connection is left, then the first
  worker's timer and its jobs are gone, then the second's. Each fact stays: no
  action can bring back what a later one has ended, because connections need a
  listening server and jobs a timer. It is stated per signal, so that the second
  may overtake the first. A delivery is accepted once per time to live because
  an accepted one's entry ends with it, and the guard drops entries that have
  expired and its own reservations only (`GuardInv`).

Every safety property the passing runs check has a theorem. Model-checked only:
the six liveness properties of section 4, and everything about `ENABLED`
(`Refuse` of `CanaryRollout` is enabled when no acceptance is), which the prover
does not handle. Three theorems state invariants no run lists, because a run
would add nothing to them: `AttemptStartedOnce`, `CompletedHasCheckRun` and
`DeliveredWasMailed`; the inductive invariants themselves (`ReviewInv`,
`ReportingInv`) hold in the instances of the runs too. Nothing here needs
recursion; an induction over data could not be proved with the installed
provers, whose library induction theorems take an operator as a parameter. Where
one is needed, over finite sets of releases or of findings, the smallest
counterexample of a well-founded order takes its place.

## 6. Where code and documentation part

Two runs refute a statement of the repository:

* `BlockedBesideActive`: `README.md:582` says supersession cancels active
  attempts. `recordBlockedOutcome` looks at the release's status and not for an
  attempt; after a second review during a deployment it completes the release
  around the attempt in progress, and a completed release is not superseded.
* `EvidenceExport`: `README.md:668` says that the export of a detail contains
  the same evidence. `loadReleaseDetail` selects its release before the request
  (`dashboard.js:750`) and leaves the selection when the request fails; the
  button of the detail still on display then exports the other release.

The models also contain these, each found by stating the natural property and
watching TLC refute it, or by a guard that could not be written as simply as
expected. They are described here and checked by no run:

* A review that began before its pull request was closed makes the cancelled
  release REVIEWED again (`recordReview` sets the status unconditionally,
  `README.md:486`).
* A promoted release that is reviewed again may start another attempt; the
  message beside the guard says only a rolled-back or failed one may
  (`postgres-deployment-event-store.ts:631`, `:655`).
* A start that waited for the row lock may be accepted under the previous
  strategy (`postgres-deployment-event-store.ts:174`).
* A second attempt may be dated before the outcome of the first
  (`postgres-deployment-event-store.ts:542`).
* A worker whose lease ran out may settle, or return to the queue, the task
  another worker holds (`postgres-release-lifecycle-store.ts:1323`), and a task
  that kills its worker is claimed beyond the configured maximum (`:1249`).
* `README.md:522` says that several workers may share the
  queue and a retry updates the Check Run instead of creating another.
  `publishCheckRun` lists and then creates (`github-api-client.ts:1846`); a job
  that outlived its lease and the one that took over may both create. There are
  two more ways: a creation that GitHub applies after the request's abort timer,
  and another run's Check Run on the commit, which `filter=latest`
  (`github-api-client.ts:1924`) may list in place of the task's. `OneCheckRun`
  says that nothing else leads to two.
* The review on record is one per release. The review of another run of the
  commit, or of a request, takes the place of the one a task's Check Run still
  shows (`postgres-release-lifecycle-store.ts:477`).
* A task whose own pull request has moved on stays live while another pull
  request is at the same commit; its worker asks GitHub for the task's own pull
  request and fails on the head (`github-workflow-automation.ts:184`).
* A release that is reviewed again after an attempt began is REVIEWED, and
  discovery, which asks for status and decision only, correlates it
  (`render-deployment-discovery.ts:411`). `recordStarted` still refuses a second
  active attempt.
* When every answer to PROMOTED is lost the rollout rolls traffic back and its
  FAILED is refused: the record says PROMOTED (`README.md:603`).
  `QuietEndAgrees` shows that this never ends without an error of the recovery.
  When every answer to an accepted start is lost, the code does not know of a
  deployment: no FAILED follows, and the attempt stays in progress
  (`canary-rollout.ts:96`).
* A pull request's head and its diff are two requests; a push between them gives
  the review the diff of another commit (`github-api-client.ts:1745`), which
  `DiffIsOfHead` excludes by name.
* Trivy's findings are sorted by key before they are cut short, so a critical
  one may be left out. The review is then not blocked but kept from full traffic
  by the finding that the report was truncated
  (`trivy-evidence-adapter.ts:244`); the other adapters sort critical first.
* A model's diagnosis without a recommended action passes its own schema and
  fails the review when the diagnostic is parsed
  (`ci-diagnostic-builder.ts:468`).
* A cursor has milliseconds and `created_at` microseconds: a release created in
  the same millisecond as a page's last one may be on no page
  (`postgres-management-report-store.ts:668`).
* A request whose credential is revoked after it was authenticated is answered
  (`postgres-tenant-authorization.ts:139`).
* A submission that fills the honeypot is answered RECEIVED and recorded nowhere
  (`customer-lead-controller.ts:64`), as its test says it should be.
* `readJsonBody` adds its listeners after authentication was awaited; a request
  that was aborted before that is waited for without end
  (`read-json-body.ts:193`). It holds no resource, and the process ends all the
  same.
* `server.close` waits for connections, not handlers: one whose peer has gone
  may find the pool ended. After both signals the second `pool.end()` is
  rejected and the process exits by that rejection (`server.ts:507`).

## 7. What is not modelled

* Signatures, schemas, headers, body limits and the wording of errors: pure
  checks of one request without state, which appear as its failure.
* Repository renames, findings, predictions and audit rows as such: written and
  never read by a decision of the modelled code. The reports count audit rows
  and the model of the reports does.
* The format of archives, of JSON answers and of scanner reports; titles, texts
  and identifiers of findings; log excerpts, which no collector fetches; prompts,
  costs and telemetry of the language model.
* `assertReleaseAccess`, the legacy API key and provisioning of tenants, so
  neither a new credential nor a renewed grant.
* In `ManagementReport` a release's attempts by their number and the last one's
  state only, and its observations by their number.
* The notifications of a lead that is deleted when its retention is over: the
  rows go with it, 180 days after the lead, and `NotificationOutbox` has no such
  time.
* The dashboard's queue of leads and the acquisition form: one request each,
  without state that outlives it.
* Errors of configuration and of listening at start; static assets.
* Migrations: sequential files under an advisory lock.
* The killed runner: nothing outside the process remembers the applied route,
  so `Killed` ends a rollout with whatever route it had; no property claims more.
* The body of an answer from GitHub or of a report is read after the abort timer
  was cleared (`github-api-client.ts:874`, `dashboard.js:142`), so its delay has
  no bound of the code's own: to the models an await that may outlive a lease.

## 8. Plan

1. `CanaryRollout` implements `AttemptLedger` too: a theorem from the invariant
   behind `QuietEndAgrees`.
2. The rows of `ManagementReport` as a refinement of the two stores', so that
   `RowAgrees` follows from `RolloutInv`.
3. Status changes of leads from the dashboard's queue, with two operators;
   repository renames under `resolveReleaseId`.
