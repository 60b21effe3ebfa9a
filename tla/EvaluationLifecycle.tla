------------------------ MODULE EvaluationLifecycle ------------------------
(* The processes around the evaluation tables: API handlers that create a      *)
(* submission and stage its artifact (crates/services/src/solution_submissions)*)
(* and workers that poll, claim, execute and finish jobs under a refreshed     *)
(* lease (crates/services/src/evaluation_lifecycle.rs). Every call to the      *)
(* database or the storage is one step, so the steps of all the processes      *)
(* interleave, and any process may stop between two of them.                   *)
EXTENDS EvaluationQueue

CONSTANT
    CleanupRaces   \* may a handler lag behind its staged job: see TimePasses
                   \* and the lost replies

ASSUME RacesAssumption == CleanupRaces \in BOOLEAN

VARIABLES
    artifact,   \* the submission's ZIP: nowhere, under its temporary or its durable key
    api,        \* the create_solution_submission call of each submission
    worker      \* the worker processes

vars == <<submission, job, evaluation, leaderboard, nextJob, artifact, api, worker>>

-----------------------------------------------------------------------------
NoJob == 0
ArtifactPlaces == {"none", "temporary", "durable"}

\* pc of a handler: before its first step, then what the last step it took left.
ApiRecord == [pc : {"none", "staged", "created", "promoted", "delete_row", "delete_artifact", "done"},
              job : Jobs \cup {NoJob}]

\* loaded: the runner found the artifact; leasing: the refresh task is alive.
WorkerRecord == [pc : {"idle", "maintained", "claimed", "started", "executing", "dead"},
                 job : Jobs \cup {NoJob},
                 attempt : Nat,
                 loaded : BOOLEAN,
                 leasing : BOOLEAN]

IdleWorker == [pc |-> "idle", job |-> NoJob, attempt |-> 0, loaded |-> FALSE, leasing |-> FALSE]

Init ==
    /\ QueueInit
    /\ artifact = [s \in Submissions |-> "none"]
    /\ api = [s \in Submissions |-> [pc |-> "none", job |-> NoJob]]
    /\ worker = [w \in Workers |-> IdleWorker]

-----------------------------------------------------------------------------
(* create_solution_submission, one handler per submission.                    *)

ApiInFlight(s) == api[s].pc \notin {"none", "done"}

\* stage_temporary_solution_artifact.
ApiStageArtifact(s) ==
    /\ api[s].pc = "none"
    /\ artifact' = [artifact EXCEPT ![s] = "temporary"]
    /\ api' = [api EXCEPT ![s].pc = "staged"]
    /\ UNCHANGED <<queueVars, worker>>

ApiCreate(s, mode) ==
    /\ api[s].pc = "staged"
    /\ CreateSolutionSubmissionWithJob(s, mode)
    /\ api' = [api EXCEPT ![s] = [pc |-> "created", job |-> nextJob]]
    /\ UNCHANGED <<artifact, worker>>

\* The create transaction is refused (policy, quota, capacity) or fails.
ApiCreateFails(s) ==
    /\ api[s].pc = "staged"
    /\ api' = [api EXCEPT ![s].pc = "delete_artifact"]
    /\ UNCHANGED <<queueVars, artifact, worker>>

\* The transaction commits and the connection is lost before its answer.
ApiCreateReplyLost(s, mode) ==
    /\ CleanupRaces
    /\ api[s].pc = "staged"
    /\ CreateSolutionSubmissionWithJob(s, mode)
    /\ api' = [api EXCEPT ![s] = [pc |-> "delete_artifact", job |-> nextJob]]
    /\ UNCHANGED <<artifact, worker>>

\* storage.promote.
ApiPromote(s) ==
    /\ api[s].pc = "created"
    /\ artifact' = [artifact EXCEPT ![s] = "durable"]
    /\ api' = [api EXCEPT ![s].pc = "promoted"]
    /\ UNCHANGED <<queueVars, worker>>

\* A promotion that fails may have made the durable object.
ApiPromoteFails(s) ==
    /\ api[s].pc = "created"
    /\ api' = [api EXCEPT ![s].pc = "delete_row"]
    /\ UNCHANGED artifact \/ artifact' = [artifact EXCEPT ![s] = "durable"]
    /\ UNCHANGED <<queueVars, worker>>

\* Mutant: the job is made claimable before the artifact is promoted.
ApiReady_BeforePromote(s) ==
    /\ api[s].pc \in {"created", "promoted"}
    /\ MarkEvaluationJobReady(api[s].job)
    /\ api' = [api EXCEPT ![s].pc = "done"]
    /\ UNCHANGED <<artifact, worker>>

\* mark_initial_job_ready_or_cleanup.
ApiReady(s) ==
    /\ api[s].pc = "promoted"
    /\ MarkEvaluationJobReady(api[s].job)
    /\ api' = [api EXCEPT ![s].pc = "done"]
    /\ UNCHANGED <<artifact, worker>>

\* The job is no longer staged, or the transaction fails.
ApiReadyFails(s) ==
    /\ api[s].pc = "promoted"
    /\ api' = [api EXCEPT ![s].pc = "delete_row"]
    /\ UNCHANGED <<queueVars, artifact, worker>>

\* The transaction commits and the connection is lost before its answer.
ApiReadyReplyLost(s) ==
    /\ CleanupRaces
    /\ api[s].pc = "promoted"
    /\ MarkEvaluationJobReady(api[s].job)
    /\ api' = [api EXCEPT ![s].pc = "delete_row"]
    /\ UNCHANGED <<artifact, worker>>

\* cleanup_solution_submission_record; a failure is only logged.
ApiDeleteRow(s) ==
    /\ api[s].pc = "delete_row"
    /\ api' = [api EXCEPT ![s].pc = "delete_artifact"]
    /\ DeleteSolutionSubmission(s) \/ UNCHANGED queueVars
    /\ UNCHANGED <<artifact, worker>>

\* cleanup_storage_key; a failure is only logged.
ApiDeleteArtifact(s) ==
    /\ api[s].pc = "delete_artifact"
    /\ api' = [api EXCEPT ![s].pc = "done"]
    /\ artifact' = [artifact EXCEPT ![s] = "none"] \/ UNCHANGED artifact
    /\ UNCHANGED <<queueVars, worker>>

\* The server stops or the client goes away: the handler takes no more steps.
ApiStops(s) ==
    /\ ApiInFlight(s)
    /\ api' = [api EXCEPT ![s].pc = "done"]
    /\ UNCHANGED <<queueVars, artifact, worker>>

\* Admin rejudge or official-run of a submission.
AdminQueue(s) ==
    /\ QueueEvaluationJob(s)
    /\ UNCHANGED <<artifact, api, worker>>

-----------------------------------------------------------------------------
(* run_one_cycle of a worker.                                                 *)

\* reap_and_reconcile.
WorkerReap(w) ==
    /\ worker[w].pc = "idle"
    /\ ReapStuckJobs
    /\ worker' = [worker EXCEPT ![w].pc = "maintained"]
    /\ UNCHANGED <<artifact, api>>

WorkerClaim(w) ==
    /\ worker[w].pc = "maintained"
    /\ \E j \in Jobs :
          /\ ClaimNextEvaluationJob(w, j)
          /\ worker' = [worker EXCEPT ![w] = [IdleWorker EXCEPT !.pc = "claimed", !.job = j,
                                                                !.attempt = job[j].attempt + 1]]
    /\ UNCHANGED <<artifact, api>>

WorkerFindsNothing(w) ==
    /\ worker[w].pc = "maintained"
    /\ Claimable(w) = {}
    /\ worker' = [worker EXCEPT ![w] = IdleWorker]
    /\ UNCHANGED <<queueVars, artifact, api>>

WorkerStart(w) ==
    /\ worker[w].pc = "claimed"
    /\ IF CanMarkStarted(w, worker[w].job, worker[w].attempt)
       THEN /\ MarkEvaluationStarted(w, worker[w].job, worker[w].attempt)
            /\ worker' = [worker EXCEPT ![w].pc = "started"]
       ELSE /\ worker' = [worker EXCEPT ![w] = IdleWorker]
            /\ UNCHANGED queueVars
    /\ UNCHANGED <<artifact, api>>

\* The lease task is spawned and the runner reads the artifact from storage.
WorkerExecute(w) ==
    /\ worker[w].pc = "started"
    /\ LET found == /\ job[worker[w].job].sub # NoSubmission
                    /\ artifact[job[worker[w].job].sub] = "durable"
       IN  worker' = [worker EXCEPT ![w].pc = "executing", ![w].leasing = TRUE, ![w].loaded = found]
    /\ UNCHANGED <<queueVars, artifact, api>>

\* One tick of refresh_claim_until_stopped: a refused refresh ends the task,
\* and the execution goes on without it.
WorkerRefresh(w) ==
    /\ worker[w].pc = "executing"
    /\ worker[w].leasing
    /\ IF ClaimMatches(worker[w].job, w, worker[w].attempt)
       THEN /\ RefreshEvaluationJobClaim(w, worker[w].job, worker[w].attempt)
            /\ UNCHANGED worker
       ELSE /\ worker' = [worker EXCEPT ![w].leasing = FALSE]
            /\ UNCHANGED queueVars
    /\ UNCHANGED <<artifact, api>>

\* finish_completed_job and finish_failed_job. The result of a lost claim is
\* dropped; so is one whose evaluation is not running, as an error.
WorkerFinish(w, status, score) ==
    /\ IF CanMarkFinished(w, worker[w].job, worker[w].attempt)
       THEN MarkEvaluationFinished(w, worker[w].job, worker[w].attempt, status, score)
       ELSE UNCHANGED queueVars
    /\ worker' = [worker EXCEPT ![w] = IdleWorker]
    /\ UNCHANGED <<artifact, api>>

WorkerCompletes(w) ==
    /\ worker[w].pc = "executing"
    /\ worker[w].loaded
    /\ \E score \in Scores : WorkerFinish(w, "completed", score)

\* From "started": the submission has no trusted artifact metadata.
WorkerFails(w) ==
    /\ worker[w].pc \in {"started", "executing"}
    /\ WorkerFinish(w, "failed", 0)

\* requeue_capacity_limited_job.
WorkerRequeues(w) ==
    /\ worker[w].pc = "executing"
    /\ IF ClaimMatches(worker[w].job, w, worker[w].attempt)
       THEN RequeueForCapacity(w, worker[w].job, worker[w].attempt)
       ELSE UNCHANGED queueVars
    /\ worker' = [worker EXCEPT ![w] = IdleWorker]
    /\ UNCHANGED <<artifact, api>>

\* A database call of the cycle fails: the loop logs the error and polls again.
WorkerErrs(w) ==
    /\ worker[w].pc \notin {"idle", "dead"}
    /\ worker' = [worker EXCEPT ![w] = IdleWorker]
    /\ UNCHANGED <<queueVars, artifact, api>>

WorkerDies(w) ==
    /\ worker[w].pc # "dead"
    /\ worker' = [worker EXCEPT ![w] = [IdleWorker EXCEPT !.pc = "dead"]]
    /\ UNCHANGED <<queueVars, artifact, api>>

-----------------------------------------------------------------------------
\* Without CleanupRaces the stale window is longer than a handler's life.
TimePasses(j) ==
    /\ ComesDue(j) \/ Expires(j)
    /\ job[j].status = "staged" => CleanupRaces \/ ~ApiInFlight(job[j].sub)
    /\ UNCHANGED <<artifact, api, worker>>

ApiStep(s) ==
    \/ ApiStageArtifact(s)
    \/ \E mode \in Modes : ApiCreate(s, mode) \/ ApiCreateReplyLost(s, mode)
    \/ ApiCreateFails(s)
    \/ ApiPromote(s)
    \/ ApiPromoteFails(s)
    \/ ApiReady(s)
    \/ ApiReadyFails(s)
    \/ ApiReadyReplyLost(s)
    \/ ApiDeleteRow(s)
    \/ ApiDeleteArtifact(s)

WorkerStep(w) ==
    \/ WorkerReap(w)
    \/ WorkerClaim(w)
    \/ WorkerFindsNothing(w)
    \/ WorkerStart(w)
    \/ WorkerExecute(w)
    \/ WorkerRefresh(w)
    \/ WorkerCompletes(w)
    \/ WorkerFails(w)
    \/ WorkerRequeues(w)
    \/ WorkerErrs(w)

WorkerEndsExecution(w) ==
    /\ worker[w].pc = "executing"
    /\ WorkerCompletes(w) \/ WorkerFails(w) \/ WorkerRequeues(w) \/ WorkerErrs(w)

Next ==
    \/ \E s \in Submissions : ApiStep(s) \/ ApiStops(s) \/ AdminQueue(s)
    \/ \E w \in Workers : WorkerStep(w) \/ WorkerDies(w)
    \/ \E j \in Jobs : TimePasses(j)

Spec == Init /\ [][Next]_vars

\* A handler that runs goes on; a live worker polls and takes its next step, an
\* execution ends (the runner bounds every phase), a claim is not refused by the
\* database for ever nor an execution by the runner's capacity; time passes.
FairSpec ==
    /\ Spec
    /\ \A s \in Submissions : WF_vars(ApiInFlight(s) /\ ApiStep(s))
    /\ \A w \in Workers :
          /\ WF_vars(WorkerStep(w))
          /\ WF_vars(WorkerEndsExecution(w))
          /\ SF_vars(WorkerClaim(w))
          /\ SF_vars(WorkerCompletes(w) \/ WorkerFails(w))
    /\ \A j \in Jobs : WF_vars(TimePasses(j))

-----------------------------------------------------------------------------
(* Properties.                                                                *)

\* Every table row and every process has its type.
TypeOK ==
    /\ QueueTypeOK
    /\ artifact \in [Submissions -> ArtifactPlaces]
    /\ api \in [Submissions -> ApiRecord]
    /\ worker \in [Workers -> WorkerRecord]

\* A worker in a job's cycle and a handler that waits to make its job claimable
\* remember a job that was created.
HoldersHaveJobs ==
    /\ \A w \in Workers : worker[w].pc \in {"claimed", "started", "executing"} => worker[w].job \in Jobs
    /\ \A s \in Submissions : api[s].pc \in {"created", "promoted"} => api[s].job \in Jobs

OwnsEvaluation(w) ==
    LET c == worker[w] IN
    /\ c.pc = "claimed" /\ ClaimMatches(c.job, w, c.attempt)
          => evaluation[c.job].status = "absent"
    /\ c.pc \in {"started", "executing"} /\ ClaimMatches(c.job, w, c.attempt)
          => evaluation[c.job].status = "running"

\* When a worker's claim is still the row's, the job's evaluation is in the state
\* the worker left it: mark_started inserts its row and mark_finished finds it
\* running. Lost claims, requeues and reaping leave nothing behind for the
\* (worker, attempt) pair to meet again, although attempts are given back.
ClaimOwnsEvaluation == \A w \in Workers : OwnsEvaluation(w)

\* The leaderboard row of a scope is the best completed official evaluation of
\* the scope, and exists as soon as there is one.
LeaderboardIsBest ==
    \A s \in Submissions : \A j \in OfficialResults(evaluation, s) :
        /\ leaderboard[ScopeOf[s]].sub # NoSubmission
        /\ leaderboard[ScopeOf[s]].score >= evaluation[j].score

\* While the job a submission was created with can be claimed or is running, the
\* artifact is under its durable key.
FirstJobHasArtifact ==
    \A s \in Submissions :
        api[s].job # NoJob /\ job[api[s].job].status \in {"queued", "running"}
            => artifact[s] = "durable"

\* Every job reaches a final state, or goes away with its submission, as long as
\* a worker that can run it stays alive: none is lost between the handler that
\* staged it, the workers that drop or lose it, and the reaper.
EveryJobFinishes ==
    \A j \in Jobs :
        job[j].status \in ActiveStatuses ~>
            \/ job[j].status \notin ActiveStatuses
            \/ \A w \in Workers : (NeedsGpu[job[j].sub] => HasGpu[w]) => worker[w].pc = "dead"

(* The queue as the workers see it: the claim columns of the job table.       *)

\* Staged jobs are not offered yet; finished ones, and those deleted with their
\* submission, never again.
ClaimOf(row) ==
    CASE row.status \in {"absent", "staged"} ->
            [status |-> "idle", worker |-> NoWorker, attempt |-> 0, fresh |-> TRUE]
      [] row.status = "queued" ->
            [status |-> "queued", worker |-> row.worker, attempt |-> row.attempt, fresh |-> TRUE]
      [] row.status = "running" ->
            [status |-> "running", worker |-> row.worker, attempt |-> row.attempt, fresh |-> row.fresh]
      [] row.status \in TerminalStatuses \cup {"deleted"} ->
            [status |-> "done", worker |-> NoWorker, attempt |-> 0, fresh |-> TRUE]

ClaimView == [j \in Jobs |-> ClaimOf(job[j])]

Claims == INSTANCE JobClaims WITH claim <- ClaimView

\* The handlers, workers, reaper and clean-up, whatever they race, use the queue
\* as JobClaims promises: a job changes hands only through a claim of its next
\* attempt, and only its holder refreshes, gives back or settles it, unless the
\* claim lapsed and the reaper took it away.
ImplementsJobClaims == Claims!ClaimsSpec

\* The inductive invariant: that of the tables, and what the processes remember.
Inv ==
    /\ TypeOK
    /\ QueueInv
    /\ HoldersHaveJobs
    /\ ClaimOwnsEvaluation

=============================================================================
