-------------------------- MODULE EvaluationQueue --------------------------
(* The evaluation tables of crates/persistence (solution_submissions,          *)
(* evaluation_jobs, evaluations, leaderboard_entries) and the transactions     *)
(* that move them: one action per transaction, guarded by its WHERE clauses.   *)
(* The processes that run the transactions (API handlers, workers) are in      *)
(* EvaluationLifecycle.                                                        *)
(*                                                                             *)
(* Data that no property tells apart is left out (payloads, logs, timestamps). *)
(* Time is kept as what the queries ask of it: "fresh" says the timestamp the  *)
(* reaper compares (scheduled_at of a staged job, claimed_at of a running one) *)
(* is younger than the stale window (TRUE when nothing reads it), "due" that   *)
(* scheduled_at has passed.                                                    *)
EXTENDS Integers, FiniteSets

CONSTANTS
    Submissions,        \* submission ids; numbered, so that ties can be broken
    Workers,            \* worker process ids: a restarted worker has a new one
    Scopes,             \* leaderboard scopes: (challenge, target, agent)
    ScopeOf,            \* the scope of each submission
    NeedsGpu,           \* does the submission's target require the accelerator
    HasGpu,             \* is the worker configured with the accelerator
    Scores,             \* ranking keys; the larger ranks first
    MaxJobs,            \* bound: evaluation jobs ever created
    MaxAttempts,        \* evaluation_jobs.max_attempts (1 by schema default)
    MaxActiveOfficial,  \* config.quotas.max_active_official_jobs
    NoWorker,           \* evaluation_jobs.worker_id IS NULL
    NoSubmission        \* no leaderboard row for the scope

ASSUME SubmissionsAssumption == Submissions \subseteq Nat /\ NoSubmission \notin Submissions
ASSUME WorkersAssumption == NoWorker \notin Workers
ASSUME ScopeAssumption == ScopeOf \in [Submissions -> Scopes]
ASSUME GpuAssumption == NeedsGpu \in [Submissions -> BOOLEAN] /\ HasGpu \in [Workers -> BOOLEAN]
ASSUME ScoresAssumption == Scores \subseteq Nat
ASSUME BoundsAssumption == /\ MaxJobs \in Nat
                           /\ MaxAttempts \in Nat \ {0}
                           /\ MaxActiveOfficial \in Nat

VARIABLES
    submission,   \* solution_submissions, by id
    job,          \* evaluation_jobs, by order of creation
    evaluation,   \* evaluations, by the job_id they are unique on
    leaderboard,  \* leaderboard_entries, by scope
    nextJob       \* the number the next inserted job gets

queueVars == <<submission, job, evaluation, leaderboard, nextJob>>

-----------------------------------------------------------------------------
Jobs == 1..MaxJobs
Modes == {"validation", "official"}
ActiveStatuses == {"staged", "queued", "running"}
TerminalStatuses == {"completed", "failed"}

\* "absent": not inserted yet; "deleted": removed by the submission cleanup.
SubmissionRecord == [status : {"absent", "pending", "queued", "running", "completed", "failed", "deleted"},
                     visible : BOOLEAN]
JobRecord == [status : {"absent", "deleted"} \cup ActiveStatuses \cup TerminalStatuses,
              sub : Submissions \cup {NoSubmission},
              mode : Modes,
              attempt : Nat,
              worker : Workers \cup {NoWorker},
              fresh : BOOLEAN,
              due : BOOLEAN]
EvaluationRecord == [status : {"absent", "running"} \cup TerminalStatuses,
                     score : Nat]
EntryRecord == [sub : Submissions \cup {NoSubmission}, score : Nat]

AbsentJob == [status |-> "absent", sub |-> NoSubmission, mode |-> "validation", attempt |-> 0,
              worker |-> NoWorker, fresh |-> TRUE, due |-> TRUE]
AbsentEvaluation == [status |-> "absent", score |-> 0]
NoEntry == [sub |-> NoSubmission, score |-> 0]

QueueInit ==
    /\ submission = [s \in Submissions |-> [status |-> "absent", visible |-> FALSE]]
    /\ job = [j \in Jobs |-> AbsentJob]
    /\ evaluation = [j \in Jobs |-> AbsentEvaluation]
    /\ leaderboard = [c \in Scopes |-> NoEntry]
    /\ nextJob = 1

-----------------------------------------------------------------------------
(* Queries.                                                                   *)

Exists(s) == submission[s].status \notin {"absent", "deleted"}
\* Mutant: the active-job check forgets staged jobs.
ActiveJobsOf_NoStaged(s) == {j \in Jobs : job[j].sub = s /\ job[j].status \in {"queued", "running"}}

ActiveJobsOf(s) == {j \in Jobs : job[j].sub = s /\ job[j].status \in ActiveStatuses}

\* Mutant: the capacity count forgets staged jobs.
ActiveOfficialJobs_NoStaged ==
    {j \in Jobs : job[j].mode = "official" /\ job[j].status \in {"queued", "running"}}

ActiveOfficialJobs == {j \in Jobs : job[j].mode = "official" /\ job[j].status \in ActiveStatuses}

\* The claim a worker took is still the one on the row: the WHERE clause of
\* every statement a worker runs after its claim.
ClaimMatches(j, w, attempt) ==
    /\ job[j].status = "running"
    /\ job[j].worker = w
    /\ job[j].attempt = attempt

\* Completed official evaluations of s, read from table ev.
OfficialResults(ev, s) ==
    {j \in Jobs : job[j].sub = s /\ job[j].mode = "official" /\ ev[j].status = "completed"}

HasOtherOfficialResult(s, j) == OfficialResults(evaluation, s) \ {j} # {}

\* The evaluation public reads and leaderboard repair take for s: the latest by
\* created_at. A submission's jobs run one at a time, so evaluations are
\* created in the order of their jobs.
LatestOfficialScore(s) ==
    LET latest == CHOOSE j \in OfficialResults(evaluation, s) :
                      \A k \in OfficialResults(evaluation, s) : k <= j
    IN  evaluation[latest].score

-----------------------------------------------------------------------------
(* Leaderboard maintenance.                                                   *)

\* Mutant: the last completed run replaces the entry, better or not.
UpsertEntry_LastWins(entry, s, score) == [sub |-> s, score |-> score]

\* candidate_replaces_leaderboard_entry, then the upsert.
UpsertEntry(entry, s, score) ==
    IF entry.sub = NoSubmission \/ score > entry.score
    THEN [sub |-> s, score |-> score]
    ELSE entry

\* Replacement for an entry of scope c: the best of the visible, completed
\* submissions in subs other than s, the first created among equals.
BestReplacement(subs, c, s) ==
    LET candidates == {t \in Submissions \ {s} :
                          /\ ScopeOf[t] = c
                          /\ subs[t].visible
                          /\ subs[t].status = "completed"
                          /\ OfficialResults(evaluation, t) # {}}
        best == CHOOSE t \in candidates :
                    \A u \in candidates :
                        \/ LatestOfficialScore(t) > LatestOfficialScore(u)
                        \/ LatestOfficialScore(t) = LatestOfficialScore(u) /\ t <= u
    IN  IF candidates = {}
        THEN NoEntry
        ELSE [sub |-> best, score |-> LatestOfficialScore(best)]

\* repair_leaderboard_entry_for_solution_submission_tx for every submission of
\* hidden, after the submission table became subs.
RepairedLeaderboard(subs, hidden) ==
    [c \in Scopes |->
        IF leaderboard[c].sub \in hidden
        THEN BestReplacement(subs, c, leaderboard[c].sub)
        ELSE leaderboard[c]]

-----------------------------------------------------------------------------
(* Transactions. Each is atomic: its row locks are held to the commit, and a   *)
(* transaction that fails rolls back and changes nothing.                      *)

\* create_solution_submission_with_job: the submission and its staged job,
\* under the official-capacity lock when the job is official.
CreateSolutionSubmissionWithJob(s, mode) ==
    /\ nextJob \in Jobs
    /\ submission[s].status = "absent"
    /\ mode = "official" => Cardinality(ActiveOfficialJobs) < MaxActiveOfficial
    /\ submission' = [submission EXCEPT ![s] = [status |-> "pending", visible |-> FALSE]]
    /\ job' = [job EXCEPT ![nextJob] = [AbsentJob EXCEPT !.status = "staged", !.sub = s, !.mode = mode]]
    /\ nextJob' = nextJob + 1
    /\ UNCHANGED <<evaluation, leaderboard>>

\* mark_evaluation_job_ready.
MarkEvaluationJobReady(j) ==
    /\ job[j].status = "staged"
    /\ job' = [job EXCEPT ![j] = [@ EXCEPT !.status = "queued", !.fresh = TRUE, !.due = TRUE]]
    /\ LET s == job[j].sub
       IN  submission' = IF submission[s].status = "pending"
                         THEN [submission EXCEPT ![s].status = "queued"]
                         ELSE submission
    /\ UNCHANGED <<evaluation, leaderboard, nextJob>>

\* delete_solution_submission, with the ON DELETE CASCADE of the jobs, the
\* evaluations and the leaderboard row that point to the submission.
DeleteSolutionSubmission(s) ==
    /\ submission' = [submission EXCEPT ![s] = [status |-> "deleted", visible |-> FALSE]]
    /\ job' = [j \in Jobs |-> IF job[j].sub = s THEN [AbsentJob EXCEPT !.status = "deleted"] ELSE job[j]]
    /\ evaluation' = [j \in Jobs |-> IF job[j].sub = s THEN AbsentEvaluation ELSE evaluation[j]]
    /\ leaderboard' = [c \in Scopes |-> IF leaderboard[c].sub = s THEN NoEntry ELSE leaderboard[c]]
    /\ UNCHANGED nextJob

\* queue_evaluation_job as its callers use it (admin rejudge and official-run):
\* an official job, behind the one-active-job check and the capacity lock. A
\* visible result stays; otherwise the submission is queued and hidden.
QueueEvaluationJob(s) ==
    /\ nextJob \in Jobs
    /\ Exists(s)
    /\ ActiveJobsOf(s) = {}
    /\ Cardinality(ActiveOfficialJobs) < MaxActiveOfficial
    /\ job' = [job EXCEPT ![nextJob] = [AbsentJob EXCEPT !.status = "queued", !.sub = s, !.mode = "official"]]
    /\ nextJob' = nextJob + 1
    /\ IF submission[s].visible
       THEN UNCHANGED <<submission, leaderboard>>
       ELSE /\ submission' = [submission EXCEPT ![s] = [status |-> "queued", visible |-> FALSE]]
            /\ leaderboard' = RepairedLeaderboard(submission', {s})
    /\ UNCHANGED evaluation

Priority(j) == IF job[j].mode = "official" THEN 10 ELSE 0

Claimable(w) ==
    {j \in Jobs : /\ job[j].status = "queued"
                  /\ job[j].due
                  /\ job[j].attempt < MaxAttempts
                  /\ NeedsGpu[job[j].sub] => HasGpu[w]}

\* claim_next_evaluation_job: highest priority first; the scheduled_at order
\* within a priority is left open.
ClaimNextEvaluationJob(w, j) ==
    /\ j \in Claimable(w)
    /\ \A k \in Claimable(w) : Priority(k) <= Priority(j)
    /\ job' = [job EXCEPT ![j] = [@ EXCEPT !.status = "running", !.worker = w, !.fresh = TRUE,
                                           !.attempt = job[j].attempt + 1]]
    /\ LET s == job[j].sub
       IN  submission' = IF submission[s].visible
                         THEN submission
                         ELSE [submission EXCEPT ![s].status = "running"]
    /\ UNCHANGED <<evaluation, leaderboard, nextJob>>

\* mark_evaluation_started: one row per job, ON CONFLICT (job_id) DO NOTHING.
CanMarkStarted(w, j, attempt) ==
    ClaimMatches(j, w, attempt) /\ evaluation[j].status = "absent"

MarkEvaluationStarted(w, j, attempt) ==
    /\ CanMarkStarted(w, j, attempt)
    /\ evaluation' = [evaluation EXCEPT ![j] = [status |-> "running", score |-> 0]]
    /\ UNCHANGED <<submission, job, leaderboard, nextJob>>

\* refresh_evaluation_job_claim.
RefreshEvaluationJobClaim(w, j, attempt) ==
    /\ ClaimMatches(j, w, attempt)
    /\ job' = [job EXCEPT ![j].fresh = TRUE]
    /\ UNCHANGED <<submission, evaluation, leaderboard, nextJob>>

\* mark_evaluation_finished: the transaction is a no-op when the claim no longer
\* matches and fails, changing nothing, when the evaluation is not running.
CanMarkFinished(w, j, attempt) ==
    ClaimMatches(j, w, attempt) /\ evaluation[j].status = "running"

MarkEvaluationFinished(w, j, attempt, status, score) ==
    /\ CanMarkFinished(w, j, attempt)
    /\ job' = [job EXCEPT ![j] = [@ EXCEPT !.status = status, !.fresh = TRUE]]
    /\ evaluation' = [evaluation EXCEPT ![j] = [status |-> status, score |-> score]]
    /\ LET s        == job[j].sub
           previous == HasOtherOfficialResult(s, j)
           visible  == status = "completed" \/ previous
       IN  IF job[j].mode = "validation"
           THEN /\ submission' = IF previous
                                 THEN submission
                                 ELSE [submission EXCEPT ![s] = [status |-> status, visible |-> FALSE]]
                /\ UNCHANGED leaderboard
           ELSE /\ submission' = [submission EXCEPT ![s] =
                                     [status |-> IF visible THEN "completed" ELSE "failed",
                                      visible |-> visible]]
                /\ leaderboard' = IF status = "completed"
                                  THEN [leaderboard EXCEPT ![ScopeOf[s]] = UpsertEntry(@, s, score)]
                                  ELSE leaderboard
    /\ UNCHANGED nextJob

\* Mutant: a capacity requeue consumes the attempt.
RequeueForCapacity_KeepsAttempt(w, j, attempt) ==
    /\ ClaimMatches(j, w, attempt)
    /\ job' = [job EXCEPT ![j] = [@ EXCEPT !.status = "queued", !.worker = NoWorker, !.fresh = TRUE, !.due = FALSE]]
    /\ evaluation' = IF evaluation[j].status = "running"
                     THEN [evaluation EXCEPT ![j] = AbsentEvaluation]
                     ELSE evaluation
    /\ LET s == job[j].sub
       IN  submission' = IF submission[s].visible
                         THEN submission
                         ELSE [submission EXCEPT ![s].status = "queued"]
    /\ UNCHANGED <<leaderboard, nextJob>>

\* requeue_running_evaluation_job_for_capacity: back to the queue five seconds
\* later, without consuming the attempt.
RequeueForCapacity(w, j, attempt) ==
    /\ ClaimMatches(j, w, attempt)
    /\ job' = [job EXCEPT ![j] = [@ EXCEPT !.status = "queued", !.worker = NoWorker, !.fresh = TRUE, !.due = FALSE,
                                           !.attempt = IF job[j].attempt > 0 THEN job[j].attempt - 1 ELSE 0]]
    /\ evaluation' = IF evaluation[j].status = "running"
                     THEN [evaluation EXCEPT ![j] = AbsentEvaluation]
                     ELSE evaluation
    /\ LET s == job[j].sub
       IN  submission' = IF submission[s].visible
                         THEN submission
                         ELSE [submission EXCEPT ![s].status = "queued"]
    /\ UNCHANGED <<leaderboard, nextJob>>

\* Mutant: the reaper forgets staged jobs.
StaleStaged_None == {}

\* reap_stuck_jobs: staged jobs past the window fail, running ones return to
\* the queue while attempts remain and fail otherwise, all in one transaction.
StaleStaged == {j \in Jobs : job[j].status = "staged" /\ ~job[j].fresh}
StaleRetriable == {j \in Jobs : /\ job[j].status = "running"
                                /\ ~job[j].fresh
                                /\ job[j].attempt < MaxAttempts}
StaleExhausted == {j \in Jobs : /\ job[j].status = "running"
                                /\ ~job[j].fresh
                                /\ job[j].attempt >= MaxAttempts}

\* Mutant: the reaper hides the submission whatever results it has.
PreservesResult_Never(j) == FALSE

\* preserve_visible_official_result_tx.
PreservesResult(j) == job[j].mode = "official" /\ HasOtherOfficialResult(job[j].sub, j)

ReapedJob(j) ==
    CASE j \in StaleStaged \cup StaleExhausted ->
            [job[j] EXCEPT !.status = "failed", !.worker = NoWorker, !.fresh = TRUE]
      [] j \in StaleRetriable ->
            [job[j] EXCEPT !.status = "queued", !.worker = NoWorker, !.fresh = TRUE]
      [] OTHER -> job[j]

\* Mutant: the running evaluation of a job returned to the queue is kept.
ReapedEvaluation_Kept(j) ==
    IF j \in StaleExhausted /\ evaluation[j].status = "running"
    THEN [evaluation[j] EXCEPT !.status = "failed"]
    ELSE evaluation[j]

ReapedEvaluation(j) ==
    CASE j \in StaleRetriable /\ evaluation[j].status = "running" -> AbsentEvaluation
      [] j \in StaleExhausted /\ evaluation[j].status = "running" ->
            [evaluation[j] EXCEPT !.status = "failed"]
      [] OTHER -> evaluation[j]

\* Mutant: the submission of a job returned to the queue is left as it is.
ReapedSubmission_RetriesSkipped(s) ==
    IF \E j \in StaleStaged \cup StaleExhausted : job[j].sub = s /\ ~PreservesResult(j)
    THEN [status |-> "failed", visible |-> FALSE]
    ELSE submission[s]

ReapedSubmission(s) ==
    LET reaped(js) == \E j \in js : job[j].sub = s
        kept       == \E j \in StaleRetriable \cup StaleExhausted : job[j].sub = s /\ PreservesResult(j)
    IN  CASE kept -> [status |-> "completed", visible |-> TRUE]
          [] ~kept /\ reaped(StaleRetriable) -> [status |-> "queued", visible |-> FALSE]
          [] ~kept /\ ~reaped(StaleRetriable) /\ reaped(StaleStaged \cup StaleExhausted) ->
                [status |-> "failed", visible |-> FALSE]
          [] OTHER -> submission[s]

\* Visible submissions that hide_reaped_solution_submission_tx hides.
HiddenByReaper ==
    {s \in Submissions : /\ submission[s].visible
                         /\ \E j \in StaleRetriable \cup StaleExhausted :
                                job[j].sub = s /\ ~PreservesResult(j)}

ReapStuckJobs ==
    /\ job' = [j \in Jobs |-> ReapedJob(j)]
    /\ evaluation' = [j \in Jobs |-> ReapedEvaluation(j)]
    /\ submission' = [s \in Submissions |-> ReapedSubmission(s)]
    /\ leaderboard' = RepairedLeaderboard(submission', HiddenByReaper)
    /\ UNCHANGED nextJob

\* Time passing: a timestamp leaves the stale window, a scheduled_at arrives.
Expires(j) ==
    /\ job[j].status \in {"staged", "running"}
    /\ job[j].fresh
    /\ job' = [job EXCEPT ![j].fresh = FALSE]
    /\ UNCHANGED <<submission, evaluation, leaderboard, nextJob>>

ComesDue(j) ==
    /\ job[j].status = "queued"
    /\ ~job[j].due
    /\ job' = [job EXCEPT ![j].due = TRUE]
    /\ UNCHANGED <<submission, evaluation, leaderboard, nextJob>>

-----------------------------------------------------------------------------
(* Properties of the tables.                                                  *)

\* Every row has the type its table declares.
QueueTypeOK ==
    /\ submission \in [Submissions -> SubmissionRecord]
    /\ job \in [Jobs -> JobRecord]
    /\ evaluation \in [Jobs -> EvaluationRecord]
    /\ leaderboard \in [Scopes -> EntryRecord]
    /\ nextJob \in 1..(MaxJobs + 1)

\* Jobs are inserted in the order of their numbers.
JobsAllocated ==
    \A j \in Jobs : j >= nextJob => job[j].status = "absent"

\* A job row has a submission row, and other jobs have no rows at all.
RowsAreLinked ==
    \A j \in Jobs :
        IF job[j].status \in {"absent", "deleted"}
        THEN job[j].sub = NoSubmission /\ evaluation[j].status = "absent"
        ELSE job[j].sub \in Submissions /\ Exists(job[j].sub)

\* A job's evaluation is where the job's status says: none before a claim, at
\* most a running one under it, the result afterwards.
EvaluationFollowsJob ==
    \A j \in Jobs :
        /\ job[j].status \in {"staged", "queued"} => evaluation[j].status = "absent"
        /\ job[j].status = "running" => evaluation[j].status \in {"absent", "running"}
        /\ job[j].status = "completed" => evaluation[j].status = "completed"
        /\ job[j].status = "failed" => evaluation[j].status \in {"absent", "failed"}

\* A submission never has two jobs in the staged, queued or running states,
\* whatever handlers, rejudges, retries and the reaper do to it.
OneActiveJobPerSubmission ==
    \A j, k \in Jobs :
        /\ job[j].status \in ActiveStatuses
        /\ job[k].status \in ActiveStatuses
        /\ job[j].sub = job[k].sub
        => j = k

\* No queued job has spent its attempts: the claim query would pass over it and
\* the reaper, which looks at running jobs only, would never fail it.
QueuedJobHasAttemptLeft ==
    \A j \in Jobs : job[j].status = "queued" => job[j].attempt < MaxAttempts

\* The attempts of a job stay within its budget, also where they are given back.
AttemptsWithinBudget ==
    \A j \in Jobs :
        /\ job[j].status = "staged" => job[j].attempt = 0
        /\ job[j].status = "running" => job[j].attempt \in 1..MaxAttempts

\* A staged job and an active validation job are the only job of their
\* submission: reruns are official, queued at once, and wait for the first job.
FirstJobIsAlone ==
    \A j, k \in Jobs :
        /\ job[j].status \in ActiveStatuses
        /\ job[j].status = "staged" \/ job[j].mode = "validation"
        /\ job[k].sub = job[j].sub
        => k = j

\* A submission is public exactly while it has a completed official evaluation:
\* a rerun that is queued, running, lost, requeued or failed never hides it.
VisibleIffOfficialResult ==
    \A s \in Submissions : submission[s].visible <=> OfficialResults(evaluation, s) # {}

\* The submission's status is what its active job says, and a submission without
\* an active job is in a final state: none is left queued or running for ever.
StatusFollowsJob ==
    \A s \in Submissions : Exists(s) =>
        IF submission[s].visible
        THEN submission[s].status = "completed"
        ELSE \/ \E j \in Jobs : /\ job[j].sub = s
                                /\ \/ job[j].status = "staged" /\ submission[s].status = "pending"
                                   \/ job[j].status = "queued" /\ submission[s].status = "queued"
                                   \/ job[j].status = "running" /\ submission[s].status = "running"
             \/ ActiveJobsOf(s) = {} /\ submission[s].status \in TerminalStatuses

\* A leaderboard row points to a visible, completed submission of its scope and
\* shows the metrics of one of that submission's completed official evaluations.
EntryShowsOfficialResult ==
    \A c \in Scopes : leaderboard[c].sub # NoSubmission =>
        LET s == leaderboard[c].sub IN
        /\ ScopeOf[s] = c
        /\ submission[s].visible
        /\ submission[s].status = "completed"
        /\ \E j \in OfficialResults(evaluation, s) : evaluation[j].score = leaderboard[c].score

\* The active official jobs never exceed the configured capacity, counting the
\* staged ones that handlers have admitted and not yet made claimable.
OfficialCapacity == Cardinality(ActiveOfficialJobs) <= MaxActiveOfficial

\* The inductive invariant of the tables.
QueueInv ==
    /\ QueueTypeOK
    /\ JobsAllocated
    /\ RowsAreLinked
    /\ EvaluationFollowsJob
    /\ OneActiveJobPerSubmission
    /\ QueuedJobHasAttemptLeft
    /\ AttemptsWithinBudget
    /\ FirstJobIsAlone
    /\ VisibleIffOfficialResult
    /\ StatusFollowsJob
    /\ EntryShowsOfficialResult

=============================================================================
