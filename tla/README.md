# Agentics: TLA+ specifications

Agentics is a platform on which agents submit solutions to challenges. An API
server stores submissions and challenge proposals in PostgreSQL and in an object
storage, workers poll the database for evaluation jobs and run them in Docker
containers, reviewers validate, approve and publish challenges, and an operator
deploys all of it with a set of commands. This directory models the parts in
which several processes, or several attempts of one process, meet on the same
rows, objects, containers and files, and the rules by which a challenge is
admitted, evaluated and ranked. TLC checks the models on small instances; TLAPS
proves the central results for all sizes.

    tlc -workers 2 -config EvaluationLifecycle_races.cfg MCEvaluationLifecycle
    tlc -workers 2 -config RunnerExecution_slots.cfg MCRunnerScenes
    tlapm EvaluationLifecycleProofs.tla

`PROJECT.json` lists the components, the runs, the source lines of every
definition, the mutants that show that each property can fail, the hazards and
the theorems.

## Inventory

| Component | State | Operations | Hard behaviour | What makes it correct | Module |
|---|---|---|---|---|---|
| Evaluation job queue (`persistence/db/evaluation_jobs.rs`, `evaluations.rs`, `maintenance.rs`) | `evaluation_jobs`, `evaluations` | create, mark ready, queue a rerun, claim, start, refresh, finish, requeue for capacity, reap, cascade delete | lost leases, reused attempt numbers, reaping under a live worker | one active job per submission; only the holder of a claim writes; every job ends | `EvaluationQueue`, `JobClaims` |
| Leaderboard (`leaderboard.rs`) | `leaderboard_entries` | upsert a better result, repair after hiding | results in any order, worse reruns | the row is the best public result of its scope | `EvaluationQueue` |
| Submission service (`services/solution_submissions*`) | temporary and durable artifact, submission row | stage, create, promote, mark ready, clean up | stops and lost replies between calls | a claimable job has its artifact | `EvaluationLifecycle` |
| Evaluation worker (`services/evaluation_lifecycle.rs`, `backend/worker`) | in-memory claim, lease task | reap, reconcile, claim, start, execute, refresh, finish, requeue | crash anywhere, lease expiry, capacity limits | late workers change nothing | `EvaluationLifecycle`, `RunnerExecution` |
| Admission and quotas (`solution_submissions/admission.rs`, `validation_quotas.rs`) | counts under row and advisory locks | preflight, admit or refuse | concurrent admissions; a challenge that closes meanwhile | limits and policy hold of what was accepted | `Participation` |
| Shortlists and metadata (`challenge_shortlist*`, `challenges/*`) | shortlist, revisions | store and commit a revision | a revision between preflight and admission | as above | `Participation` |
| Public projection (`services/public_projection*`) | none: it reads | submission, artifact, list, leaderboard, distribution, owner and creator reads | reads in several steps over moving rows | nobody is sent more than policy allows | `Participation` |
| Review records (`persistence/db/challenge_creation*`, `services/challenge_review_records*`) | review record, validation rows | validate under a lease, approve, reject, abandon, sweep | late validations, stale leases | the digest on the record belongs to the lease holder | `ChallengeReview` |
| Private assets (`challenge_creation/assets.rs`, `private_assets.rs`) | asset rows, durable objects | reserve, promote, activate, fail, undo, purge | retries share a key with a late handler | an active asset has its object; approved assets are frozen; quota | `ChallengeReview` |
| Publishing (`challenge_creation/publishing.rs`, `challenge_review_records/publishing.rs`) | publish claim, bundle objects, `challenges` | claim, check, store, publish or archive, fail | claim take-over, lost reply | what is published was approved and its bundle exists | `ChallengeReview` |
| Challenge contract (`crates/contracts`, `domain/models/{challenge,evaluation}*`, `challenges/publishing.rs`, seeding) | published row, bundles, stored results | validate, publish, seed, admit, evaluate, rank | five readers of one contract at different times | what is admitted can be evaluated; private stays private; one ranking order | `ChallengeContract` |
| Runner (`crates/runner`) | containers, slots and their locks, files, logs | phases of three topologies, slot leases, permission repair, reconciliation | crashes, timeouts, list and claims read at different times | one writer per slot; no slot is lost; orphans go | `RunnerExecution` |
| Interactive sessions and outputs (`runner/docker/interactive.rs`, `logs.rs`, `output*.rs`) | pumps, exits, byte counts, log, output trees | relay, limit, kill, grace, collect | every order of exits, limits and timeouts | a verdict the limits allow; sessions end | `SolutionSession` |
| Accounts, codes, agents (`sessions*`, `pioneer_codes.rs`, `agents.rs`, `auth.rs`, `creator.rs`) | humans, roles, sessions, tokens, codes, agents | sign in, set up, grant, revoke, delete, register, redeem | row locks taken one by one under READ COMMITTED | a code grants what it says; deletion is final; an admin remains | `Identity` |
| Storage (`crates/storage`) | objects on two backends | put, promote, get, delete, sweep, pack and unpack | copy, verify and clean up in steps | what was acknowledged stays | `ObjectStorage` |
| Configuration and start-up (`crates/config`, the mains, worker probes) | environment file, running services | edit, deploy, start, probe, restart | variables that are absent get lax defaults | a hosted stack is hardened | `ServiceStartup` |
| Quota storage (`ops/dgx_storage*`, `runner/storage_profile*`) | images, mounts, fstab, slots, projects, limits | prepare, roll back, check | kills between commands, other layouts | what is reported ready is bounded | `StoragePreparation` |
| Compose operations, purge, restore (`ops/compose_prod*`, `private_bundle_backups.rs`) | services, volumes, daemons, trees | up, down, purge, daemon start and stop, restore | settings from three sources | a rehearsal purge spares production | `ComposeOperations` |
| Baseline submitter (`ops/baseline_submitter.rs`) | state file | submit, wait, resume | lost replies, torn lines, kills | no second paid evaluation | `BaselineSubmitter` |
| Production rehearsal (`ops/production_rehearsal*`) | code, agent, late requests, report | create, register, seed, revoke | calls given up and taken late, interrupts | what it leaves usable is in its report | `ProductionRehearsal` |

Interaction: handlers and workers meet only in rows (fenced by a claim's worker and
attempt, by lease and claim ids, or by row and advisory locks), in storage keys, in
Docker labels and in slot locks. There are no messages between processes.

## Modules

`EvaluationLifecycle` composes the processes with the tables of `EvaluationQueue`
(EXTENDS) and is shown to implement `JobClaims`; `RunnerExecution` is built on
`JobClaims` instead of on the whole queue. `MCEvaluationContract` puts
`ChallengeContract` and `SolutionSession` side by side, `MCOperations` the storage
library, the start-up and the four operator modules; these share no state the models
keep, so one part moves in each behaviour. The other `MC` modules hold instances.

### EvaluationQueue and EvaluationLifecycle

`submission`, `job`, `evaluation` and `leaderboard` are the rows of the tables;
a job's `attempt` and `worker` are the columns that fence a claim. Timestamps
are kept as the answers of the queries that read them: `fresh` (younger than the
stale window) and `due` (scheduled time reached). Scores stand for the ranking
key that `candidate_replaces_leaderboard_entry` compares. A transaction is one
action, the whole of it: finishing a job also updates the submission, its
visibility and the leaderboard; reaping also removes running evaluations, preserves
an older public result or hides the submission, and repairs the leaderboard.

`api[s]` is the `create_solution_submission` call of submission s and `worker[w]`
the loop of a worker process. Each call to the database or the storage is a step.
A handler may stop, its transaction may fail, or commit with its reply lost; a
failed clean-up is logged and ignored, so each clean-up step may do nothing. A
worker may die at any point (a restarted one has a new id and is another member
of `Workers`), lose a database call, or lag behind its lease.
`CleanupRaces = FALSE` restricts the model to runs in which the handler of a
staged job is faster than the stale window and no reply is lost.

### JobClaims

The queue as a worker sees it: `claim[j]` is idle, queued, running under (worker,
attempt) and fresh or not, or done. `ClaimView` in `EvaluationLifecycle` is the
refinement mapping: staged jobs are idle, finished, failed and deleted ones done.

### RunnerExecution

A worker's cycle below the queue: the container list, the claim read for each
container in a step of its own, the removals, then one attempt phase by phase: scan
and lock a slot for each writable mount, check the slot for live containers, reset
it, create, start, wait, repair permissions in a sidecar after a time-out, remove, judge, and
unwind. `lock` is the file lock of a slot (freed by the death of the worker),
`tree` whose files are in it, `rooted` the slots with files the host user cannot
remove, `box` the containers of the daemon, which outlives the workers. The two
containers of a session are created, started and removed one after the other, and the
call for the second may fail. `JobGoes` is the API's clean-up: a job is deleted while
its attempt runs, after which its containers count as those of a stale claim. The
history variable `forfeited` holds the attempts whose claim lapsed or went with the
job. `MCRunnerScenes` lets one of two jobs go before the first is begun, so that each
behaviour is about one of them: a job with a build that has all its attempts and meets
no failed call, or a session of one attempt that may.

Two assumptions on time are in `ContainerAges`: a container that a live worker created
is started, and a repair sidecar is over, within the ten minutes after which
reconciliation takes an unstarted or stopped container for abandoned.

### SolutionSession

The select loop of `run_attached_interactive_pair` with two pumps, two exits, the
shutdown grace and the session timeout, each event a step that may come in any
order; the bytes are chunks. Beside it the log of an attempt (`captured`) with
its limit, which shrinks when the run count becomes known, and the collection of
output trees.

### ChallengeReview

`record` is the row of the review record, `asset` and `validation` the rows that
refer to it, `object` the durable private-asset objects, `bundle[c]` the objects
stored under the keys of publish claim c, `challenge` the row of `challenges` for
the record's name. The handlers are `upload`, `validation`, `publisher` and
`cleaner`, with one step per call. A commit is fixed by the record, so two digests
differ exactly when the sets of overlaid assets do: a digest is that set. `stale`
says whether `updated_at` is older than the window that the queries of the current
status use. A key is an asset name with the digest of the bytes, as in the code;
`KeyOf` and `NameOf` choose whether two uploads share one. Other records meet this
one only in the creator's quota of open records and in the challenge name; a name
that was taken is among the refusals of `PublishCommitFails`. A commit may always lose
its reply. Two history variables keep what the exceptions of the properties are about:
`contested`, the keys that two upload handlers had in hand at once, and `unheard`, the
uploads and claims that committed unknown to their handler.

### ChallengeContract

A challenge is a directory: a function from paths to contents, with the fields of
its specification and manifest that the checks read. The validation predicates are
in the order and with the conditions of the code, for each of their callers: review,
seeding, admission and the runner. `Publish`, `Seed`, `Admit`, `Evaluate` and `Tick`
move one challenge and one job through them; the comparison of metrics is
`CompareByDirection` with its tie breakers over the schema in force. The loop that
extracts one archive after the other is `OverlaysFit` (each entry may be created when
its turn comes: nothing is there, and no file above it) with `OverlayAll`, the tree it
leaves. `UncheckedBeforeTheRunner` names what the runner is the first to check; its case
of a seeded directory whose validation reads what the public bundle leaves out (an
overlay, or the private part that was committed with it) was found by the proof.

### Identity

A request is a process that is authorised in one read, then takes its row locks
one by one in the order of its statements, decides, writes and commits. Locks are
`holder`; a wait cycle is one that PostgreSQL would break by aborting a request
(`Rollback`). What no lock protects may change between the decision and the commit.

### Participation

One row per submission with the parts that admission and the reads look at; the
admission transaction holds the challenge row and the quota locks from its checks to
its commit; the reader loads submission, policy and rows one step at a time while
others move. Evaluation is reduced to a job that ends.

### ObjectStorage, ServiceStartup, StoragePreparation, ComposeOperations, BaselineSubmitter, ProductionRehearsal

Each call that can fail or be interrupted is a step: a write to a temporary name, the
link, the verification and the clean-up of a put; truncate, mkfs, mount, fstab line,
project assignment and limit of a slot, with the rollback log behind it (the loop over
the phases that builds the plan is `PhasePlans`, which says what step n is; project ids
are unbounded, where the code saturates at 2^64 - 1); the plan steps of a Compose
command; the HTTP calls and log lines of the submitter and the rehearsal. Lost replies, failing commands, kills and reruns with other arguments
are actions. `ServiceStartup` evaluates the environment policy, the defaults and the
validation of the configuration for the settings that tell a hardened stack from a
development one. The calls of the rehearsal are answered, refused, or given up by the
client and taken by the platform later (`LateCall`). Its seeding always fails, as in the
code (see Known limits); a reply that creates a code is taken to hold `/code/id`, as
`PioneerCodeDetailResponse` does.

## Runs

| Run | Instance | Shows |
|---|---|---|
| `races` | 1 submission, 2 workers, 3 jobs, 2 attempts, lost replies | `OneActiveJobPerSubmission`, `ClaimOwnsEvaluation`, `VisibleIffOfficialResult`, `StatusFollowsJob` under every race of handlers, workers, reaper and clean-up |
| `board` | 2 submissions of one scope, 2 workers, 3 jobs, capacity 1 | the leaderboard row is the best result; a claimable first job has its artifact; the capacity counts staged jobs |
| `live` | 1 accelerator submission, 2 workers of which 1 can run it, 2 jobs, 2 attempts | every job ends while a capable worker lives; the lifecycle implements `JobClaims` |
| `review` | 3 uploads, two of the same bytes and one of another asset, quota 1, 2 validations, 2 publish attempts, lost replies, the clean-up | the quota holds over uploads in flight; no upload in flight under a validated record; what was approved does not change and is what is published; the bundle and the objects exist |
| `orphanobject` | as `review` | violation, see Findings |
| `accounts` | 2 humans, 1 agent, 1 single-use code, 2 concurrent requests | codes, admins, finality of deletion, the known lock inversions |
| `access` | 2 agents, 2 submissions, a restricted challenge with a close and a private benchmark | quotas, admission policy, disclosure, archival |
| `slots` | 2 workers, 1 slot per phase, 1 crash; 2 jobs of which one goes: 1 with a build and 2 attempts, or 1 session that meets a failed call | one writer per slot, slots come back, attempts that hold their claim keep their containers |
| `orphans` | 2 workers, 1 attempt, 1 failed call, 1 crash | orphaned containers go |
| `pipeline` | all combinations of topology, locator, dataset and target, single deviations of each check; one session of 2 chunks, one more than its limit | admitted evaluations run; overlays stay private; one ranking order; sessions and outputs within limits |
| `tools` | 3 storage callers; 1 edit of a 3-stage environment; 2 storage commands; 1 Compose command; 3 baselines and 2 runs; 1 rehearsal | see the properties of the six modules |
| `finaladmin` | as `accounts` | violation, see Findings |

Why the bounds are enough to be interesting: three jobs of one submission are a
first run and two reruns, so that a rerun is reaped or requeued while an older
result is public; two attempts make the reuse of an attempt number after a
capacity requeue possible; two workers are a late holder and its successor. In the
review, two validations are a late and a current lease holder, two claims an
expired and a current publisher. Of the three uploads two have one key, so that one
retries the other exactly, also while the other is still in flight; the third is another
asset under another name, which nothing but the quota of one refuses. `InScope` says which
of these handlers meet in one behaviour: any two uploads and the clean-up; one upload,
one validation and both publish attempts with the clean-up; and the two uploads of one
key with a validation and a publish attempt, or one upload with both validations, with
the clean-up once the record is approved. Two requests are enough for each wait
cycle of two locks, and the code has no transaction with three lock kinds that
could close a longer one only. In `slots` the second attempt meets the containers,
the locks and the files the first one left; four containers are those of one
session beside its sidecar and an orphan. In `pipeline` every check of the
contract has an input on each side of it. In `tools` every limit of an archive is
met exactly and passed by one; the second of two storage commands meets the remains of
the first, and one Compose command runs on hosts whose services are up and whose
daemons are stopped, starting or ready; it meets no remains of another Compose command.

`MaxJobs`, `MaxBoxes`, `MaxFaults`, `MaxCrashes`, `MaxEdits`, `MaxCommands`, `MaxOps`,
`MaxRuns`, `MaxCreated`, `MaxWrites`, `MaxSeedings`, `MaxKept`, `MaxTime` and the sets of
requests, submissions and revisions are bounds of the models only; the other
constants are limits of the code, scaled down. Symmetry is used over processes
and requests in runs without liveness.

`slots` and `orphans` check deadlock: while a worker lives the cycle never stops. The
other runs say `CHECK_DEADLOCK FALSE`: a system in which all the requests were
served, the workers died or a bound was reached really stops.

Every property has a mutant: a definition named `X_Something` before the definition
`X`, which replaces it with a plausible mistake.

## Fairness

`EvaluationLifecycle!FairSpec` (`live`):

- Weak fairness of a handler in flight: the server runs its futures. `ApiStops` is
  not excluded, so a handler need not reach its end.
- Weak fairness of `WorkerStep`: `cycle.rs` polls for ever and logs errors.
- Weak fairness of the end of an execution: the runner bounds every phase by a
  timeout.
- Strong fairness of `WorkerClaim`: the poll is repeated, and an error of the
  claim query is not permanent.
- Strong fairness of completing or failing: capacity limits are transient. With
  an attempt given back on each requeue the code itself would requeue for ever.
- Weak fairness of time. Workers may die for good; the property asks for the end of
  a job only while a worker that can run it lives.

`RunnerExecution!FairSpec` (`orphans`): weak fairness of each worker's step (same loop),
of the age of a stopped container, and of a claim that lapses once nobody refreshes
it. `MaxFaults` bounds the failed Docker calls: the code retries in the next cycle.

`SolutionSession` (`pipeline`): weak fairness of the worker's own next step or timer
(`WorkerGoesOn`: the session timeout, the kills, the end of a pump's wait). Nothing is assumed of the containers.

## Proofs

The proofs hold for every value of the constants that satisfies the named
assumptions in the modules. These say that submissions, scores, limits and sizes
are naturals, that functions have their domains, and that "null" values are
distinct from the rest: `NoneAssumption` (no mode is the null value),
`NamesAssumption` (no container, no job), `NoIdAssumption`, `CallersAssumption` (no
caller is called like the durable key). Those that say more are about
the data: `HumansAssumption` (`IdOf` numbers the humans without repetition: a uuid is
a primary key and code revocation locks by its order), `RowsAssumption` (rows of
different tables are different rows), `SlotsAssumption` and `PlanAssumption` (a
configuration lists slots per phase, a job has a topology and a run count),
`TreesAssumption` (a directory or an output tree is finite, its entries lie at a depth
of one or more and have a size), `ProposalsAssumption` and `ResultsAssumption` (a
directory has files and directories only, a specification one of the three topologies
and a list of tie breakers, a metric a number), and `StorageAssumption` (the slot classes
of a layout are positive and strictly increasing: the configuration sorts them and
removes repetitions). Nothing else is assumed; two theorems of the
lifecycle have the condition `~CleanupRaces`, named in their statements and explained
below.

Each component is proved along one line: an inductive invariant, one lemma per
action (and one per conjunct where an action disturbs several), the theorem
`...Invariance`, and the properties as consequences. TLC checked each invariant
on the instance of the component's run before it was proved.

**Queue and lifecycle** (`EvaluationQueueProofs`, `EvaluationLifecycleProofs`).
`Invariance` is `Spec => []Inv` with the types, `QueueInv`, and `ClaimOwnsEvaluation`.
The properties of interest are conjuncts of it, and need the others:

- `VisibleIffOfficialResult` needs `EvaluationFollowsJob` (a job that is finished or
  reaped is not one whose result is counted already) and `RowsAreLinked`.
- `StatusFollowsJob` needs `OneActiveJobPerSubmission` and `FirstJobIsAlone`:
  otherwise reaping a staged job could fail a submission whose rerun is queued.
- `QueuedJobHasAttemptLeft` needs `AttemptsWithinBudget`: a requeue gives back an
  attempt that was counted.
- `ClaimOwnsEvaluation` needs `EvaluationFollowsJob`: after a requeue the same
  (worker, attempt) pair can be on the row again, and the evaluation must be absent
  as it was at the first claim. The lemmas `...KeepsClaims` say that a transaction
  of another process either leaves a claim's evaluation alone or takes the row
  away from the claim.

The theorems are `TypeCorrectness`, `PublicationSafety`, `FencingSafety`,
`SingleActiveJob`, `NoStrandedJob`, `StatusSafety`, `LeaderboardSafety`, and:

- `Refinement`, `Spec => ImplementsJobClaims`: each lemma `...Simulates` shows that a
  transaction is one abstract step on `ClaimView`, or none. It needs `Inv` (attempts
  within the budget, so that a claim that is given back is a numbered one; unused
  rows are absent) and `WaitingIsUnclaimed`: a row that returns to the queue carries
  no worker.
- `CapacitySafety` (`OfficialCapacity`): only the two transactions behind the capacity
  lock add an active official job (`LoadIsAdmitted`), every other one leaves a job's
  mode and takes jobs out of the count at most (`LoadFollows`).
- `ArtifactSafety` (`FirstJobHasArtifact`): `HandlersInv` says that a handler's job is
  claimable only after the handler is through, and with a durable artifact; jobs are
  not offered anew by any other transaction (`RowsGoOn`), and two handlers never
  remember the same job (`JobsAreOwned`).
- `BestSafety` (`LeaderboardIsBest`): only a finished job adds a result, and it updates
  the row; a submission that is deleted has no result. `HandlersHold` says of a
  handler that may still clean up that its submission's only job is staged.

The last two have the condition `~CleanupRaces`: a handler whose mark-ready reply was
lost deletes a submission that runs or has results (see Known limits).

**Review** (`ChallengeReviewProofs`). `ReviewInvariance` is `Spec => []ReviewInv`.
`PublicationApproved` (`PublishedAsApproved`) rests on `PublisherKnowsApproval` (an attempt
that passed the check holds the digest that is on the record) and on
`DigestsFollowStatus` and `ClaimFollowsStatus` (no step changes the approved digest
once there was a publisher). `NoPendingSafety` rests on `LeaseFollowsStatus`: a
lease on an open record is that of a running validation, which began without
pending uploads. `AssetsFrozen` (an action property) follows from
`NoPendingUnderReview`, since only a pending asset can become active, and from
`PurgesClosedRecords`. Then:

- `AssetQuotaSafety` (`WithinAssetQuota`): `HeldWithinQuota` counts the pending rows that
  their handlers may still activate; a reservation counts the same rows, and every
  other step holds as much or less.
- `BundleSafety` (`PublishedBundleExists`): by `BundlesHold` the objects under the key of a
  claim are removed by the attempt of that claim only, and not after its commit, unless
  the commit is in `unheard`.
- `AssetObjectSafety` (`ActiveAssetHasObject`): by `ObjectsHold` an asset is activated after
  its promotion, and no handler with an active row cleans up. What another handler of the
  key deletes makes the key `contested`; an activation whose reply was lost is in `unheard`
  before its handler undoes it. Both only grow (`HistoryGrows`) and hold every case
  (`HistoryKept`).

**Participation** (`ParticipationProofs`). The core of `ParticipationInv` is what an
admission transaction knows after its counts: `CountedAdmissionsHold` (policy, parent and
quotas still admit it) and `AdmissionsExclude` (two of them share neither a challenge
nor the lock of the official mode). The counts hold because no step that its locks leave free
makes a job active or a row recent (`RowFollows`, `LoadFollows`), and the policy holds because the
administration takes the challenge row's lock. `QuotaSafety`, `AdmissionSafety` and
`ArchivedSafety` (an action property) follow. `DisclosureSafety` needs `ReaderIsWarranted`:
what a reader passed in its first read stays true, because a submission with a public
result stays visible (`VisibleIffOfficialResult` of the lifecycle: a lost rerun preserves
the older result) and a surface that opened at the close stays open. What the public is sent
includes the count of all attempts of a challenge that is not archived (`AttemptRows`),
hidden and failed ones and validations among them: the property grants the public that
number and nothing else of those rows.

**Identity** (`IdentityProofs`). Three layers. `LocksInv`: the locks a transaction
holds are exactly those of the statements it has run, and those ahead are in the
order of the code (`Ordered`). `LockOrderSafety` follows: without one of the two inversions,
a cycle could only be one of code revocations, each waiting for a human with a greater
number than the next, and a set of naturals has a least element.
`RowsInv` adds `DecisionsHold`: what was decided under the locks still holds when the
transaction writes. `GrantsInv` adds the properties. `CodeSafety` rests on the code's row
lock, `AdminSafety` on the bootstrap-admin lock; its exception, a code revocation that
rescinds a human, is the one of the finding. `DeletionSafety` is an action property.

**Runner** (`RunnerExecutionProofs`). `WriterInv` says what each field of a worker holds
at each step (`Shapes`), that leases are locks (`LeasesAreLocked`), that containers carry
the labels of the attempt and the slot they were created for, and `UsedAlone`: from
the check for running containers on, whatever runs on the slot belongs to the attempt.
`WriterSafety` (`ExclusiveWriter`) needs the last two, because the lock alone is lost with
the worker. `ReconcileInv` adds that an attempt that is not in `forfeited` holds a fresh claim and what the
other workers have seen of its containers (`SightingsHold`, `AgesHold`): `PromptSafety`
(an action property). `ReturnInv` adds that the repair of a slot with foreign files is
still to come as long as the lease is held: `ReturnSafety` (`SlotsAreReturned`).

**Challenge contract** (`EvaluationContractProofs`). `ContractInv`: the published row was
checked (`ContractChecked`, the runtime bundle of every challenge and the public bundle
of a reviewed one, and `PublicOnly`), a job agrees with the row it was admitted from
(`JobIsSound`), and what is stored are payloads (`Payload`: finite values, one for each
metric). None of the three properties is inductive without it: the row is replaced by a
reseed while a job waits, so a job must carry what was true of its own row.

- `AdmittedEvaluationsRun` (`AdmittedEvaluationRuns`): a valid locator resolves to a plan
  (`ValidLocatorsResolve`), and admission refuses a mode whose locator was not checked.
- `PublicBundleStaysPublic` (`PublicBundleHidesOverlays`): an overlay replaces nothing
  (`OverlaysReplaceNothing`), so no path of the repository is one of an overlay.
- `RankingIsAnOrder` (`RankingIsConsistent`): the sign of a comparison is that of the first
  key on which two payloads differ (`RankingDecides`), and each key orders what a payload
  may have for it, a value or none (`ReadingsAreOrdered`).
- `RuntimeBundleHasEveryOverlay`: the tree has every file of every archive and keeps what
  was there, so that `OverlayAll` is the outcome of the loop it stands for.

**Sessions and outputs** (`EvaluationContractProofs`). `SessionInv`: a pump that completed
has drained a container that no longer runs and is within its limit; a good result
exists after the loop only and agrees with it (`ResultIsSound`). `AcceptanceSafety` and
`ContainmentSafety` follow.

**Storage, start-up and tools** (`OperationsProofs`), one part per module.
`PreparationSafety` (`PreparedIsUsable`) has `PreparationInv`: a running command has left the
effects of every step before the one it is at (`EffectsUpTo`) and of the stages of that one
that are over (`StageReached`), and a command that is done those of the whole plan. Where a
step stands in the plan is arithmetic (`StoragePlanShape`, from `PhasePlansShape`). A step
takes no earlier effect away: mkfs empties only the filesystem of an image that was not
there before, and no slot step of its phase came before that one (`IsPlanStep`); distinct
slots have distinct projects (`ProjectsAreDistinct`), so that no limit is overwritten.
Whatever an earlier invocation left behind, failed or killed, is not trusted: the
invariant says nothing of a command that is not running or done.
`StorageInv`: a caller that wrote and has not failed has put what is under the durable
key, and every object was packed by its writer. `AcknowledgedSafety` follows from the
first. `UnpackSafety` (`StoredBundleUnpacks`) needs that what packs without a sparse
file also unpacks (`PackedUnpacks`): the sum of the sizes that are copied is at most the sum of the padded
entries. The two sums are folds over a finite set; that they exist and compare is an
induction over the number of elements, done by taking a least counterexample
(`SumsExist`, `SumsCompare`), since the induction theorems of the library cannot be
instantiated here. `StartupSafety` (`HostedStackIsHardened`): a service was admitted with
the environment it runs with. `PurgeSafety` (`PurgeSparesProduction`, an action property):
a purge that goes on has passed the check of its settings. `BaselineSafety`: the created
submissions of a baseline are accounted for by ids in the file, losses and forced attempts
(`Accounted`). `RehearsalSafety` (`LeftoversAreReported`): an agent is
registered with a code (`AgentNeedsCode`); a code whose id the run does not hold, or that may
still come to be, has its failed creation in the report (`UnknownIsReported`); a known one
is revoked by the end of the clean-up, or its failed revocation is in it (`KnownIsRevoked`).

**Model-checked only.** Liveness under fairness (`EveryJobFinishes`, `OrphansGo`,
`SessionEnds`) is beyond the prover. Every other property of a passing run has a theorem.
`DeletionLeavesAnAdmin` and `OrphanIsUnreferenced` do not hold: they are the findings.

## Findings

- `finaladmin`: `docs/operations/en.md` says that account deletion "rejects deletion of
  the final active human admin". `delete_human_account` counts the active admins under
  the bootstrap-admin lock, but the revocation of a pioneer code rescinds humans, and
  their admin role with them, without that lock. Deleting one admin while the code of
  the other is revoked leaves none, and neither request is refused.
  `AdminRemains` (`accounts`) shows that there is no other way.
- `orphanobject`: the comment at `private_assets.rs:219` says that the clean-up before a
  promotion removes "an unreferenced durable object left by a stale pending private
  asset". It asks for the object, then for an active reference, then deletes (240), with no
  lock over the three. An upload whose pending row expired during its storage put finds the
  object that a retry of the same bytes has promoted and not yet activated, and deletes it
  after the activation: the active asset has lost its object, and a new upload of it is
  refused because its name is active.

## Known limits

Behaviour of the code met while modelling, which the models contain or exclude as
stated, and which no run reports:

- A rejudge with a worse score leaves the older score on the leaderboard, because the
  upsert replaces a row by better results only, while the submission page shows the
  latest evaluation.
- When the reply to mark-ready is lost, or the handler lags behind the reaper and a
  rejudge, the clean-up deletes a submission that is queued, running or evaluated.
  `CleanupRaces = TRUE` contains this; `board` is run without it.
- Beside the finding, the undo of a refused activation deletes an object that another
  handler of the key may have activated meanwhile: `ActiveAssetHasObject` excepts
  `contested` keys.
- A publish transaction that committed and lost its reply is treated as failed, and the
  bundle of the published challenge is deleted; an activation whose reply is lost is undone
  likewise. Both are modelled, and excepted by the properties as `unheard`.
- Validation reads the assets before it takes the lease. An upload in between yields a
  validated record whose digest misses an asset; after approval no publish attempt can
  succeed, and the record can no longer be validated. What is published is still what
  was approved.
- Under redaction a runner that reports a capacity limit is reported as a runner error
  (`crates/runner/src/lib.rs:434`), so the job fails instead of being queued again;
  `Sanitized` in `RunnerExecution` does so.
- Seeding validates the runtime bundle only. A seeded challenge whose validation runs lie
  in an overlay or in its private directory is published, and each validation of it fails
  in the runner (`UncheckedBeforeTheRunner`).
- A poll interval of 0 passes the configuration and makes `tokio::time::interval` panic.
- No confirmed rehearsal can pass. Its three fixtures enable the private benchmark and are
  written without `agentics.challenge.json` (`fixtures.rs:303-304`, `355`, `398`), which
  seeding refuses (`maintenance.rs:166-172`), while `docs/deployment/en.md:285-291` says that
  the harness creates fixture challenges and exercises submissions. Submissions are refused,
  the probes fail before anything is executed, and there is nothing to archive. Every run
  has this outcome, so there is nothing to search for: `WriteFixtures` contains it.
- A 2xx reply without `/code/id` or `/token` passes the rehearsal's check and skips the
  revocation without a failure (`production_rehearsal.rs:438-446`, `cleanup.rs:53-57`). The
  repository's own API always sends them, and the model excludes such a reply.
- tar 0.4.46 writes a sparse file as a GNUSparse entry (`tar_archive.rs:209`), which packing
  accepts and unpacking refuses (`tar_archive.rs:272-284`; so does the test
  `bundle_tar_unpack_rejects_sparse_entries`). `StoredBundleUnpacks` names it as the only
  cause for which a stored bundle is refused.
- Public statistics count all attempts of a challenge that is not archived, hidden, failed
  and validation ones included (`solution_submissions.rs:707-716`).
- A pid file is taken to name its own daemon (`runner_docker.rs:569-580`); a stale one whose
  number the system gave to another process is outside `ComposeOperations`.
- An S3 put that succeeded and lost its reply is retried as a new object and leaves
  the old one; the sweep of local temporary files ends at the first file that
  another process removed.
- Sign-ins and role changes, and setups and code revocations, lock in opposite
  orders (`LockInversionsAreKnown`): PostgreSQL aborts one of the two.

## Not modelled

- Command-line client and web frontend: clients of the HTTP API.
- Development checks, asset generation and image builds: repository tooling that no
  service runs; straight-line scripts without a state that outlives them.
- Docker host options (security profile, memory, CPU and GPU flags) and the bytes of
  files, logs and archives.
- Local validation of solutions: a single run of the phases on a developer's machine.
- Heartbeats of workers, audit events, statistics pages: written for people, and no
  decision reads them.
- Parsing of identifiers, URLs and names; numeric widths of the configuration: the
  limits are constants, and Rust's checked conversions refuse what does not fit.
- Creation of a review record with the creator's quota: one record is the initial state.
- Token hashes, cookies and their expiry times.

## Plan

Done: the evaluation core, the challenge review, the runner, participation, identity,
the contract, sessions, storage, start-up and the operator's tools; the refinement
to `JobClaims`; a proof of every safety property. Left:

1. Two review records: creator quota and one challenge name for two proposals.
2. `Identity` against an abstract specification of roles and codes, in which a request is
   one step.
