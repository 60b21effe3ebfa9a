----------------------- MODULE EvaluationQueueProofs -----------------------
(* Every transaction of EvaluationQueue preserves the invariant of the tables. *)
EXTENDS EvaluationQueue, TLAPS

\* The empty tables satisfy the invariant.
LEMMA QueueInitInv == QueueInit => QueueInv
<1> SUFFICES ASSUME QueueInit PROVE QueueInv
  OBVIOUS
<1> USE DEF QueueInit, AbsentJob, AbsentEvaluation, NoEntry
<1>1. QueueTypeOK
  BY BoundsAssumption DEF QueueTypeOK, SubmissionRecord, JobRecord, EvaluationRecord, EntryRecord,
     ActiveStatuses, TerminalStatuses, Modes, Jobs
<1>2. JobsAllocated /\ RowsAreLinked /\ EvaluationFollowsJob
  BY DEF JobsAllocated, RowsAreLinked, EvaluationFollowsJob
<1>3. OneActiveJobPerSubmission /\ QueuedJobHasAttemptLeft /\ AttemptsWithinBudget /\ FirstJobIsAlone
  BY DEF OneActiveJobPerSubmission, QueuedJobHasAttemptLeft, AttemptsWithinBudget,
     FirstJobIsAlone, ActiveStatuses
<1>4. VisibleIffOfficialResult /\ StatusFollowsJob /\ EntryShowsOfficialResult
  BY DEF VisibleIffOfficialResult, StatusFollowsJob, EntryShowsOfficialResult, OfficialResults, Exists
<1> QED
  BY <1>1, <1>2, <1>3, <1>4 DEF QueueInv

\* A step that leaves the columns the invariant reads as they are preserves it.
LEMMA FrameInv ==
  ASSUME QueueInv, QueueTypeOK',
         UNCHANGED <<submission, evaluation, leaderboard, nextJob>>,
         \A k \in Jobs : /\ job'[k].status = job[k].status /\ job'[k].sub = job[k].sub
                         /\ job'[k].mode = job[k].mode /\ job'[k].attempt = job[k].attempt
  PROVE  QueueInv'
<1>1. \A s : OfficialResults(evaluation, s)' = OfficialResults(evaluation, s)
  BY DEF OfficialResults
<1>2. \A s : ActiveJobsOf(s)' = ActiveJobsOf(s)
  BY DEF ActiveJobsOf
<1>3. JobsAllocated' /\ RowsAreLinked' /\ EvaluationFollowsJob'
  BY DEF QueueInv, JobsAllocated, RowsAreLinked, EvaluationFollowsJob, Exists
<1>4. OneActiveJobPerSubmission' /\ QueuedJobHasAttemptLeft' /\ AttemptsWithinBudget' /\ FirstJobIsAlone'
  BY DEF QueueInv, OneActiveJobPerSubmission, QueuedJobHasAttemptLeft, AttemptsWithinBudget,
     FirstJobIsAlone
<1>5. VisibleIffOfficialResult' /\ StatusFollowsJob'
  BY <1>1, <1>2 DEF QueueInv, VisibleIffOfficialResult, StatusFollowsJob, Exists
<1>6. EntryShowsOfficialResult'
  BY <1>1 DEF QueueInv, EntryShowsOfficialResult, QueueTypeOK, EntryRecord
<1> QED
  BY <1>3, <1>4, <1>5, <1>6 DEF QueueInv

\* So do the transactions and the passing of time that touch only timestamps.
LEMMA TimestampInv ==
  ASSUME NEW j \in Jobs, QueueInv,
         (\E w, attempt : RefreshEvaluationJobClaim(w, j, attempt)) \/ Expires(j) \/ ComesDue(j)
  PROVE  QueueInv'
<1>1. /\ UNCHANGED <<submission, evaluation, leaderboard, nextJob>>
      /\ \E b \in BOOLEAN : job' = [job EXCEPT ![j].fresh = b] \/ job' = [job EXCEPT ![j].due = b]
  BY DEF RefreshEvaluationJobClaim, Expires, ComesDue
<1>2. PICK b \in BOOLEAN : job' = [job EXCEPT ![j].fresh = b] \/ job' = [job EXCEPT ![j].due = b]
  BY <1>1
<1>3. job \in [Jobs -> JobRecord]
  BY DEF QueueInv, QueueTypeOK
<1>4. job' \in [Jobs -> JobRecord]
  <2>1. CASE job' = [job EXCEPT ![j].fresh = b]
    BY <1>3, <2>1 DEF JobRecord
  <2>2. CASE job' = [job EXCEPT ![j].due = b]
    BY <1>3, <2>2 DEF JobRecord
  <2> QED
    BY <1>2, <2>1, <2>2
<1>5. QueueTypeOK'
  BY <1>1, <1>4 DEF QueueInv, QueueTypeOK
<1>6. \A k \in Jobs : /\ job'[k].status = job[k].status /\ job'[k].sub = job[k].sub
                      /\ job'[k].mode = job[k].mode /\ job'[k].attempt = job[k].attempt
  <2>1. CASE job' = [job EXCEPT ![j].fresh = b]
    BY <1>3, <2>1 DEF JobRecord
  <2>2. CASE job' = [job EXCEPT ![j].due = b]
    BY <1>3, <2>2 DEF JobRecord
  <2> QED
    BY <1>2, <2>1, <2>2
<1> QED
  BY <1>1, <1>5, <1>6, FrameInv

\* The submission of a staged job is pending and not public.
LEMMA StagedIsPending ==
  ASSUME NEW j \in Jobs, QueueInv, job[j].status = "staged"
  PROVE  ~submission[job[j].sub].visible /\ submission[job[j].sub].status = "pending"
<1>1. job[j].sub \in Submissions /\ Exists(job[j].sub)
  BY DEF QueueInv, RowsAreLinked
<1>2. OfficialResults(evaluation, job[j].sub) = {}
  BY DEF QueueInv, OfficialResults, FirstJobIsAlone, EvaluationFollowsJob, ActiveStatuses
<1>3. ~submission[job[j].sub].visible
  BY <1>1, <1>2 DEF QueueInv, VisibleIffOfficialResult
<1>4. j \in ActiveJobsOf(job[j].sub)
  BY DEF ActiveJobsOf, ActiveStatuses
<1> QED
  BY <1>1, <1>3, <1>4 DEF QueueInv, StatusFollowsJob, FirstJobIsAlone, ActiveStatuses

\* mark_evaluation_job_ready: job and submission move to queued together.
LEMMA ReadyInv ==
  ASSUME NEW j \in Jobs, QueueInv, MarkEvaluationJobReady(j)
  PROVE  QueueInv'
<1> DEFINE s == job[j].sub
<1> USE DEF MarkEvaluationJobReady
<1>1. s \in Submissions /\ Exists(s)
  BY DEF QueueInv, RowsAreLinked
<1>2. ~submission[s].visible /\ submission[s].status = "pending"
  BY StagedIsPending
<1>3. QueueTypeOK'
  <2>1. job' \in [Jobs -> JobRecord]
    BY ZenonT(40) DEF QueueInv, QueueTypeOK, JobRecord, ActiveStatuses
  <2>2. submission' \in [Submissions -> SubmissionRecord]
    BY <1>1, <1>2 DEF QueueInv, QueueTypeOK, SubmissionRecord
  <2> QED
    BY <2>1, <2>2 DEF QueueInv, QueueTypeOK
<1>4. /\ job[j].status = "staged" /\ job'[j].status = "queued"
      /\ \A k \in Jobs : /\ job'[k].sub = job[k].sub /\ job'[k].mode = job[k].mode
                         /\ job'[k].attempt = job[k].attempt
                         /\ k # j => job'[k].status = job[k].status
      /\ \A t \in Submissions : /\ submission'[t].visible = submission[t].visible
                                /\ t # s => submission'[t].status = submission[t].status
      /\ submission'[s].status = "queued"
      /\ UNCHANGED <<evaluation, leaderboard, nextJob>>
  BY <1>1, <1>2 DEF QueueInv, QueueTypeOK, JobRecord, SubmissionRecord
<1> HIDE DEF MarkEvaluationJobReady
<1>5. \A t : OfficialResults(evaluation, t)' = OfficialResults(evaluation, t)
  BY <1>4 DEF OfficialResults
<1>6. \A t : ActiveJobsOf(t)' = ActiveJobsOf(t)
  BY <1>4 DEF ActiveJobsOf, ActiveStatuses
<1>7. JobsAllocated' /\ RowsAreLinked' /\ EvaluationFollowsJob'
  BY <1>1, <1>4 DEF QueueInv, JobsAllocated, RowsAreLinked, EvaluationFollowsJob, Exists
<1>8. OneActiveJobPerSubmission' /\ QueuedJobHasAttemptLeft' /\ AttemptsWithinBudget' /\ FirstJobIsAlone'
  BY <1>4, BoundsAssumption DEF QueueInv, OneActiveJobPerSubmission, QueuedJobHasAttemptLeft, AttemptsWithinBudget,
     FirstJobIsAlone, ActiveStatuses
<1>9. VisibleIffOfficialResult'
  BY <1>4, <1>5 DEF QueueInv, VisibleIffOfficialResult
<1>10. StatusFollowsJob'
  BY <1>1, <1>2, <1>4, <1>6 DEF QueueInv, StatusFollowsJob, Exists
<1>11. EntryShowsOfficialResult'
  BY <1>1, <1>2, <1>4, <1>5 DEF QueueInv, EntryShowsOfficialResult, QueueTypeOK, EntryRecord
<1> QED
  BY <1>3, <1>7, <1>8, <1>9, <1>10, <1>11 DEF QueueInv

\* mark_evaluation_started: the running job gets its evaluation row.
LEMMA StartInv ==
  ASSUME NEW w, NEW j \in Jobs, NEW attempt, QueueInv, MarkEvaluationStarted(w, j, attempt)
  PROVE  QueueInv'
<1>1. /\ job[j].status = "running" /\ evaluation[j].status = "absent"
      /\ evaluation'[j].status = "running"
      /\ \A k \in Jobs : k # j => evaluation'[k] = evaluation[k]
      /\ UNCHANGED <<submission, job, leaderboard, nextJob>>
  BY DEF QueueInv, QueueTypeOK, EvaluationRecord, MarkEvaluationStarted, CanMarkStarted, ClaimMatches
<1>2. QueueTypeOK'
  BY DEF QueueInv, QueueTypeOK, EvaluationRecord, MarkEvaluationStarted
<1>3. \A t : OfficialResults(evaluation, t)' = OfficialResults(evaluation, t)
  BY <1>1 DEF OfficialResults
<1>4. \A t : ActiveJobsOf(t)' = ActiveJobsOf(t)
  BY <1>1 DEF ActiveJobsOf
<1>5. JobsAllocated' /\ RowsAreLinked' /\ EvaluationFollowsJob'
  BY <1>1 DEF QueueInv, JobsAllocated, RowsAreLinked, EvaluationFollowsJob, Exists
<1>6. OneActiveJobPerSubmission' /\ QueuedJobHasAttemptLeft' /\ AttemptsWithinBudget' /\ FirstJobIsAlone'
  BY <1>1 DEF QueueInv, OneActiveJobPerSubmission, QueuedJobHasAttemptLeft, AttemptsWithinBudget,
     FirstJobIsAlone
<1>7. VisibleIffOfficialResult' /\ StatusFollowsJob'
  BY <1>1, <1>3, <1>4 DEF QueueInv, VisibleIffOfficialResult, StatusFollowsJob, Exists
<1>8. EntryShowsOfficialResult'
  BY <1>1, <1>3 DEF QueueInv, EntryShowsOfficialResult, OfficialResults
<1> QED
  BY <1>2, <1>5, <1>6, <1>7, <1>8 DEF QueueInv

\* No row points to a submission that was not created or was deleted.
LEMMA NoRowsWithoutSubmission ==
  ASSUME NEW s \in Submissions, QueueInv, ~Exists(s)
  PROVE  /\ \A k \in Jobs : job[k].sub # s
         /\ \A c \in Scopes : leaderboard[c].sub # s
<1>1. \A k \in Jobs : job[k].sub # s
  BY SubmissionsAssumption DEF QueueInv, RowsAreLinked
<1>2. \A c \in Scopes : leaderboard[c].sub # s
  BY <1>1, SubmissionsAssumption DEF QueueInv, EntryShowsOfficialResult, OfficialResults
<1> QED
  BY <1>1, <1>2

\* create_solution_submission_with_job.
LEMMA CreateInv ==
  ASSUME NEW s \in Submissions, NEW mode \in Modes, QueueInv, CreateSolutionSubmissionWithJob(s, mode)
  PROVE  QueueInv'
<1> DEFINE n == nextJob
<1>1. /\ n \in Jobs /\ ~Exists(s)
      /\ UNCHANGED <<evaluation, leaderboard>>
      /\ nextJob' = nextJob + 1
      /\ job[n].status = "absent" /\ evaluation[n].status = "absent"
  BY DEF CreateSolutionSubmissionWithJob, Exists, QueueInv, JobsAllocated, RowsAreLinked, QueueTypeOK, Jobs
<1>2. /\ \A k \in Jobs : job[k].sub # s
      /\ \A c \in Scopes : leaderboard[c].sub # s
  BY <1>1, NoRowsWithoutSubmission
<1>3. QueueTypeOK'
  <2>1. job' \in [Jobs -> JobRecord]
    BY DEF CreateSolutionSubmissionWithJob, QueueInv, QueueTypeOK, JobRecord, AbsentJob, ActiveStatuses
  <2>2. submission' \in [Submissions -> SubmissionRecord]
    BY DEF CreateSolutionSubmissionWithJob, QueueInv, QueueTypeOK, SubmissionRecord
  <2>3. nextJob' \in 1..(MaxJobs + 1)
    BY <1>1, BoundsAssumption DEF Jobs
  <2> QED
    BY <1>1, <2>1, <2>2, <2>3 DEF QueueInv, QueueTypeOK
<1>4. /\ job'[n].status = "staged" /\ job'[n].sub = s /\ job'[n].mode = mode /\ job'[n].attempt = 0
      /\ \A k \in Jobs : k # n => job'[k] = job[k]
      /\ submission'[s].status = "pending" /\ submission'[s].visible = FALSE
      /\ \A t \in Submissions : t # s => submission'[t] = submission[t]
  BY <1>1 DEF CreateSolutionSubmissionWithJob, QueueInv, QueueTypeOK, AbsentJob
<1>5. \A t \in Submissions : OfficialResults(evaluation, t)' = OfficialResults(evaluation, t)
  BY <1>1, <1>4 DEF OfficialResults
<1>6. OfficialResults(evaluation, s) = {}
  BY <1>2 DEF OfficialResults
<1>7. \A t \in Submissions : t # s => ActiveJobsOf(t)' = ActiveJobsOf(t)
  BY <1>1, <1>4 DEF ActiveJobsOf, ActiveStatuses
<1>8. JobsAllocated'
  BY <1>1, <1>4 DEF QueueInv, JobsAllocated, QueueTypeOK, Jobs
<1>9. RowsAreLinked' /\ EvaluationFollowsJob'
  BY <1>1, <1>2, <1>4 DEF QueueInv, RowsAreLinked, EvaluationFollowsJob, Exists
<1>10. OneActiveJobPerSubmission'
  BY <1>1, <1>2, <1>4 DEF QueueInv, OneActiveJobPerSubmission
<1>11. QueuedJobHasAttemptLeft' /\ AttemptsWithinBudget'
  BY <1>1, <1>4 DEF QueueInv, QueuedJobHasAttemptLeft, AttemptsWithinBudget
<1>12. FirstJobIsAlone'
  BY <1>1, <1>2, <1>4 DEF QueueInv, FirstJobIsAlone
<1>13. VisibleIffOfficialResult'
  BY <1>4, <1>5, <1>6 DEF QueueInv, VisibleIffOfficialResult
<1>14. StatusFollowsJob'
  <2> SUFFICES ASSUME NEW t \in Submissions, Exists(t)', ~submission'[t].visible
               PROVE  \/ \E k \in Jobs : /\ job'[k].sub = t
                                         /\ \/ job'[k].status = "staged" /\ submission'[t].status = "pending"
                                            \/ job'[k].status = "queued" /\ submission'[t].status = "queued"
                                            \/ job'[k].status = "running" /\ submission'[t].status = "running"
                      \/ ActiveJobsOf(t)' = {} /\ submission'[t].status \in TerminalStatuses
    BY <1>4 DEF QueueInv, StatusFollowsJob, Exists
  <2>1. CASE t = s
    BY <1>1, <1>4, <2>1
  <2>2. CASE t # s
    BY <1>1, <1>4, <1>7, <2>2 DEF QueueInv, StatusFollowsJob, Exists
  <2> QED
    BY <2>1, <2>2
<1>15. EntryShowsOfficialResult'
  BY <1>1, <1>2, <1>4, <1>5 DEF QueueInv, EntryShowsOfficialResult, QueueTypeOK, EntryRecord
<1> QED
  BY <1>3, <1>8, <1>9, <1>10, <1>11, <1>12, <1>13, <1>14, <1>15 DEF QueueInv

\* A job moves between queued and running, its evaluation stays out of the
\* results, and the submission follows unless it is public.
LEMMA MoveInv ==
  ASSUME NEW j \in Jobs, NEW from, NEW to, QueueInv,
         from \in {"queued", "running"}, to \in {"queued", "running"},
         QueueTypeOK',
         job[j].status = from, job'[j].status = to,
         job'[j].sub = job[j].sub, job'[j].mode = job[j].mode,
         to = "queued" => job'[j].attempt < MaxAttempts,
         to = "running" => job'[j].attempt \in 1..MaxAttempts,
         \A k \in Jobs : k # j => job'[k] = job[k] /\ evaluation'[k] = evaluation[k],
         evaluation'[j].status = "absent",
         submission' = IF submission[job[j].sub].visible
                       THEN submission
                       ELSE [submission EXCEPT ![job[j].sub].status = to],
         UNCHANGED <<leaderboard, nextJob>>
  PROVE  QueueInv'
<1> DEFINE s == job[j].sub
<1>1. s \in Submissions /\ Exists(s)
  BY DEF QueueInv, RowsAreLinked
<1>2. /\ \A t \in Submissions : /\ submission'[t].visible = submission[t].visible
                                /\ t # s => submission'[t].status = submission[t].status
      /\ submission[s].visible => submission'[s].status = submission[s].status
      /\ ~submission[s].visible => submission'[s].status = to
  <2>1. CASE submission[s].visible
    BY <2>1
  <2>2. CASE ~submission[s].visible
    BY <1>1, <2>2 DEF QueueInv, QueueTypeOK, SubmissionRecord
  <2> QED
    BY <2>1, <2>2
<1>3. evaluation[j].status # "completed"
  BY DEF QueueInv, EvaluationFollowsJob
<1>4. \A t : OfficialResults(evaluation, t)' = OfficialResults(evaluation, t)
  BY <1>3 DEF OfficialResults
<1>5. \A t : ActiveJobsOf(t)' = ActiveJobsOf(t)
  BY DEF ActiveJobsOf, ActiveStatuses
<1>6. JobsAllocated'
  BY DEF QueueInv, JobsAllocated
<1>7. RowsAreLinked' /\ EvaluationFollowsJob'
  BY <1>1, <1>2 DEF QueueInv, RowsAreLinked, EvaluationFollowsJob, Exists
<1>8. OneActiveJobPerSubmission'
  BY DEF QueueInv, OneActiveJobPerSubmission, ActiveStatuses
<1>9. QueuedJobHasAttemptLeft' /\ AttemptsWithinBudget'
  BY DEF QueueInv, QueuedJobHasAttemptLeft, AttemptsWithinBudget
<1>10. FirstJobIsAlone'
  BY DEF QueueInv, FirstJobIsAlone, ActiveStatuses
<1>11. VisibleIffOfficialResult'
  BY <1>2, <1>4 DEF QueueInv, VisibleIffOfficialResult
<1>12. StatusFollowsJob'
  <2> SUFFICES ASSUME NEW t \in Submissions, Exists(t)', ~submission'[t].visible
               PROVE  \/ \E k \in Jobs : /\ job'[k].sub = t
                                         /\ \/ job'[k].status = "staged" /\ submission'[t].status = "pending"
                                            \/ job'[k].status = "queued" /\ submission'[t].status = "queued"
                                            \/ job'[k].status = "running" /\ submission'[t].status = "running"
                      \/ ActiveJobsOf(t)' = {} /\ submission'[t].status \in TerminalStatuses
    BY <1>2 DEF QueueInv, StatusFollowsJob, Exists
  <2>1. CASE t = s
    BY <1>2, <2>1
  <2>2. CASE t # s
    BY <1>2, <1>5, <2>2 DEF QueueInv, StatusFollowsJob, Exists
  <2> QED
    BY <2>1, <2>2
<1>13. EntryShowsOfficialResult'
  <2> SUFFICES ASSUME NEW c \in Scopes, leaderboard[c].sub # NoSubmission
               PROVE  LET e == leaderboard[c].sub IN
                      /\ ScopeOf[e] = c
                      /\ submission'[e].visible
                      /\ submission'[e].status = "completed"
                      /\ \E k \in OfficialResults(evaluation, e)' : evaluation'[k].score = leaderboard[c].score
    BY DEF EntryShowsOfficialResult
  <2>1. leaderboard[c].sub \in Submissions
    BY DEF QueueInv, QueueTypeOK, EntryRecord
  <2>2. \A k \in OfficialResults(evaluation, leaderboard[c].sub) : k \in Jobs /\ k # j
    BY <1>3 DEF OfficialResults
  <2> QED
    BY <1>2, <1>4, <2>1, <2>2 DEF QueueInv, EntryShowsOfficialResult
<1> QED
  BY <1>6, <1>7, <1>8, <1>9, <1>10, <1>11, <1>12, <1>13 DEF QueueInv

\* claim_next_evaluation_job.
LEMMA ClaimInv ==
  ASSUME NEW w \in Workers, NEW j \in Jobs, QueueInv, ClaimNextEvaluationJob(w, j)
  PROVE  QueueInv'
<1>1. job[j].status = "queued" /\ job[j].attempt < MaxAttempts
  BY DEF ClaimNextEvaluationJob, Claimable
<1>2. job[j].sub \in Submissions
  BY <1>1 DEF QueueInv, RowsAreLinked
<1>3. QueueTypeOK'
  <2> DEFINE r == [job[j] EXCEPT !.status = "running", !.worker = w, !.fresh = TRUE,
                                 !.attempt = job[j].attempt + 1]
  <2>a. job \in [Jobs -> JobRecord] /\ job[j] \in JobRecord
    BY DEF QueueInv, QueueTypeOK
  <2>b. r \in JobRecord
    <3>1. job[j].attempt + 1 \in Nat
      BY <2>a DEF JobRecord
    <3>2. \A n \in Nat : [job[j] EXCEPT !.status = "running", !.worker = w, !.fresh = TRUE, !.attempt = n] \in JobRecord
      BY <2>a DEF JobRecord, ActiveStatuses
    <3> QED
      BY <3>1, <3>2
  <2>c. job' = [job EXCEPT ![j] = r]
    BY DEF ClaimNextEvaluationJob
  <2>1. job' \in [Jobs -> JobRecord]
    BY <2>a, <2>b, <2>c
  <2>2. submission' \in [Submissions -> SubmissionRecord]
    BY <1>2 DEF ClaimNextEvaluationJob, QueueInv, QueueTypeOK, SubmissionRecord
  <2> QED
    BY <2>1, <2>2 DEF ClaimNextEvaluationJob, QueueInv, QueueTypeOK
<1>4. /\ job'[j].status = "running" /\ job'[j].sub = job[j].sub /\ job'[j].mode = job[j].mode
      /\ job'[j].attempt \in 1..MaxAttempts
      /\ \A k \in Jobs : k # j => job'[k] = job[k] /\ evaluation'[k] = evaluation[k]
      /\ UNCHANGED <<evaluation, leaderboard, nextJob>>
  BY <1>1, BoundsAssumption DEF ClaimNextEvaluationJob, QueueInv, QueueTypeOK, JobRecord
<1>5. evaluation'[j].status = "absent"
  BY <1>1, <1>4 DEF QueueInv, EvaluationFollowsJob
<1>6. submission' = IF submission[job[j].sub].visible
                    THEN submission
                    ELSE [submission EXCEPT ![job[j].sub].status = "running"]
  BY DEF ClaimNextEvaluationJob
<1> QED
  BY <1>1, <1>3, <1>4, <1>5, <1>6, MoveInv

\* requeue_running_evaluation_job_for_capacity.
LEMMA RequeueInv ==
  ASSUME NEW w, NEW j \in Jobs, NEW attempt, QueueInv, RequeueForCapacity(w, j, attempt)
  PROVE  QueueInv'
<1>1. job[j].status = "running"
  BY DEF RequeueForCapacity, ClaimMatches
<1>2. job[j].sub \in Submissions
  BY <1>1 DEF QueueInv, RowsAreLinked
<1>3. job[j].attempt \in 1..MaxAttempts
  BY <1>1 DEF QueueInv, AttemptsWithinBudget
<1>4. QueueTypeOK'
  <2> DEFINE r == [job[j] EXCEPT !.status = "queued", !.worker = NoWorker, !.fresh = TRUE, !.due = FALSE,
                                 !.attempt = IF job[j].attempt > 0 THEN job[j].attempt - 1 ELSE 0]
  <2>a. job \in [Jobs -> JobRecord] /\ job[j] \in JobRecord
    BY DEF QueueInv, QueueTypeOK
  <2>b. r \in JobRecord
    <3>1. (IF job[j].attempt > 0 THEN job[j].attempt - 1 ELSE 0) \in Nat
      BY <1>3, BoundsAssumption
    <3>2. \A n \in Nat : [job[j] EXCEPT !.status = "queued", !.worker = NoWorker, !.fresh = TRUE, !.due = FALSE,
                                        !.attempt = n] \in JobRecord
      BY <2>a DEF JobRecord, ActiveStatuses
    <3> QED
      BY <3>1, <3>2
  <2>c. job' = [job EXCEPT ![j] = r]
    BY DEF RequeueForCapacity
  <2>1. job' \in [Jobs -> JobRecord]
    BY <2>a, <2>b, <2>c
  <2>2. submission' \in [Submissions -> SubmissionRecord]
    BY <1>2 DEF RequeueForCapacity, QueueInv, QueueTypeOK, SubmissionRecord
  <2>3. evaluation' \in [Jobs -> EvaluationRecord]
    BY DEF RequeueForCapacity, QueueInv, QueueTypeOK, EvaluationRecord, AbsentEvaluation
  <2> QED
    BY <2>1, <2>2, <2>3 DEF RequeueForCapacity, QueueInv, QueueTypeOK
<1>5. /\ job'[j].status = "queued" /\ job'[j].sub = job[j].sub /\ job'[j].mode = job[j].mode
      /\ job'[j].attempt < MaxAttempts
      /\ \A k \in Jobs : k # j => job'[k] = job[k]
      /\ UNCHANGED <<leaderboard, nextJob>>
  BY <1>3, BoundsAssumption DEF RequeueForCapacity, QueueInv, QueueTypeOK, JobRecord
<1>6. evaluation[j].status \in {"absent", "running"}
  BY <1>1 DEF QueueInv, EvaluationFollowsJob
<1>7. evaluation'[j].status = "absent" /\ \A k \in Jobs : k # j => evaluation'[k] = evaluation[k]
  BY <1>6 DEF RequeueForCapacity, QueueInv, QueueTypeOK, AbsentEvaluation
<1>8. submission' = IF submission[job[j].sub].visible
                    THEN submission
                    ELSE [submission EXCEPT ![job[j].sub].status = "queued"]
  BY DEF RequeueForCapacity
<1> QED
  BY <1>1, <1>4, <1>5, <1>7, <1>8, MoveInv

\* An unfinished job is not among the results of its submission; when it is a
\* validation job, nothing is.
LEMMA ActiveJobIsNoResult ==
  ASSUME NEW j \in Jobs, QueueInv, job[j].status \in ActiveStatuses
  PROVE  /\ evaluation[j].status # "completed"
         /\ \A t : j \notin OfficialResults(evaluation, t)
         /\ job[j].mode = "validation" => OfficialResults(evaluation, job[j].sub) = {}
  BY DEF QueueInv, EvaluationFollowsJob, FirstJobIsAlone, OfficialResults, ActiveStatuses

\* mark_evaluation_finished.
LEMMA FinishInv ==
  ASSUME NEW w, NEW j \in Jobs, NEW attempt, NEW status \in TerminalStatuses, NEW score \in Nat,
         QueueInv, MarkEvaluationFinished(w, j, attempt, status, score)
  PROVE  QueueInv'
<1>0. PICK s \in Submissions : s = job[j].sub
  BY DEF MarkEvaluationFinished, CanMarkFinished, ClaimMatches, QueueInv, RowsAreLinked
<1> DEFINE published == status = "completed" \/ OfficialResults(evaluation, s) # {}
<1>1. /\ job[j].status = "running" /\ evaluation[j].status = "running"
      /\ s = job[j].sub /\ Exists(s)
  BY <1>0 DEF MarkEvaluationFinished, CanMarkFinished, ClaimMatches, QueueInv, RowsAreLinked
<1>2. /\ \A t : j \notin OfficialResults(evaluation, t)
      /\ job[j].mode = "validation" => OfficialResults(evaluation, s) = {}
      /\ HasOtherOfficialResult(s, j) <=> OfficialResults(evaluation, s) # {}
  BY <1>1, ActiveJobIsNoResult DEF ActiveStatuses, HasOtherOfficialResult
<1>a. job[j].mode = "validation" \/ job[j].mode = "official"
  BY DEF QueueInv, QueueTypeOK, JobRecord, Modes
<1>3. \/ /\ job[j].mode = "validation"
         /\ submission' = [submission EXCEPT ![s] = [status |-> status, visible |-> FALSE]]
      \/ /\ job[j].mode = "official" /\ published
         /\ submission' = [submission EXCEPT ![s] = [status |-> "completed", visible |-> TRUE]]
      \/ /\ job[j].mode = "official" /\ ~published
         /\ submission' = [submission EXCEPT ![s] = [status |-> "failed", visible |-> FALSE]]
  <2>1. CASE job[j].mode = "validation"
    BY <1>1, <1>2, <2>1 DEF MarkEvaluationFinished
  <2>2. CASE job[j].mode = "official" /\ published
    <3>1. (status = "completed" \/ HasOtherOfficialResult(s, j)) = TRUE
      BY <1>2, <2>2
    <3>2. submission' = [submission EXCEPT ![s] =
                            [status |-> IF status = "completed" \/ HasOtherOfficialResult(s, j)
                                        THEN "completed" ELSE "failed",
                             visible |-> status = "completed" \/ HasOtherOfficialResult(s, j)]]
      BY <1>1, <2>2 DEF MarkEvaluationFinished
    <3> QED
      BY <2>2, <3>1, <3>2
  <2>3. CASE job[j].mode = "official" /\ ~published
    <3>1. (status = "completed" \/ HasOtherOfficialResult(s, j)) = FALSE
      BY <1>2, <2>3
    <3>2. submission' = [submission EXCEPT ![s] =
                            [status |-> IF status = "completed" \/ HasOtherOfficialResult(s, j)
                                        THEN "completed" ELSE "failed",
                             visible |-> status = "completed" \/ HasOtherOfficialResult(s, j)]]
      BY <1>1, <2>3 DEF MarkEvaluationFinished
    <3> QED
      BY <2>3, <3>1, <3>2
  <2> QED
    BY <1>a, <2>1, <2>2, <2>3
<1>4. QueueTypeOK'
  <2>1. job' \in [Jobs -> JobRecord]
    <3>1. job \in [Jobs -> JobRecord] /\ job' = [job EXCEPT ![j] = [job[j] EXCEPT !.status = status, !.fresh = TRUE]]
      BY DEF MarkEvaluationFinished, QueueInv, QueueTypeOK
    <3>2. [job[j] EXCEPT !.status = status, !.fresh = TRUE] \in JobRecord
      BY <3>1 DEF JobRecord
    <3> QED
      BY <3>1, <3>2
  <2>2. submission' \in [Submissions -> SubmissionRecord]
    <3>1. PICK r \in SubmissionRecord : submission' = [submission EXCEPT ![s] = r]
      BY <1>3 DEF SubmissionRecord, TerminalStatuses
    <3> QED
      BY <3>1 DEF QueueInv, QueueTypeOK
  <2>3. evaluation' \in [Jobs -> EvaluationRecord]
    BY DEF MarkEvaluationFinished, QueueInv, QueueTypeOK, EvaluationRecord
  <2>4. leaderboard' \in [Scopes -> EntryRecord]
    <3>1. \/ leaderboard' = leaderboard
          \/ leaderboard' = [leaderboard EXCEPT ![ScopeOf[s]] = UpsertEntry(leaderboard[ScopeOf[s]], s, score)]
      BY <1>1 DEF MarkEvaluationFinished
    <3>2. \A e \in EntryRecord : UpsertEntry(e, s, score) \in EntryRecord
      BY <1>1 DEF EntryRecord, UpsertEntry
    <3> QED
      BY <1>1, <3>1, <3>2, ScopeAssumption DEF QueueInv, QueueTypeOK
  <2>5. nextJob' = nextJob
    BY DEF MarkEvaluationFinished
  <2> QED
    BY <2>1, <2>2, <2>3, <2>4, <2>5 DEF QueueInv, QueueTypeOK
<1>5. /\ job'[j].status = status
      /\ \A k \in Jobs : /\ job'[k].sub = job[k].sub /\ job'[k].mode = job[k].mode
                         /\ job'[k].attempt = job[k].attempt
                         /\ k # j => job'[k].status = job[k].status
      /\ evaluation'[j] = [status |-> status, score |-> score]
      /\ \A k \in Jobs : k # j => evaluation'[k] = evaluation[k]
      /\ nextJob' = nextJob
  BY DEF MarkEvaluationFinished, QueueInv, QueueTypeOK, JobRecord
<1>6. /\ \A t \in Submissions : t # s => submission'[t] = submission[t]
      /\ job[j].mode = "validation" => submission'[s].status = status /\ ~submission'[s].visible
      /\ job[j].mode = "official" /\ published => submission'[s].status = "completed" /\ submission'[s].visible
      /\ job[j].mode = "official" /\ ~published => submission'[s].status = "failed" /\ ~submission'[s].visible
  BY <1>1, <1>3 DEF QueueInv, QueueTypeOK
<1>7. /\ \A t : t # s => OfficialResults(evaluation, t)' = OfficialResults(evaluation, t)
      /\ OfficialResults(evaluation, s)' =
            IF job[j].mode = "official" /\ status = "completed"
            THEN OfficialResults(evaluation, s) \cup {j}
            ELSE OfficialResults(evaluation, s)
  BY <1>1, <1>5 DEF OfficialResults
<1>8. /\ ActiveJobsOf(s)' = {}
      /\ \A t : t # s => ActiveJobsOf(t)' = ActiveJobsOf(t)
  BY <1>1, <1>5 DEF ActiveJobsOf, QueueInv, OneActiveJobPerSubmission, ActiveStatuses, TerminalStatuses
<1>9. JobsAllocated'
  BY <1>1, <1>5 DEF QueueInv, JobsAllocated
<1>10. RowsAreLinked'
  <2>1. Exists(s)' /\ \A t \in Submissions : Exists(t) => Exists(t)'
    BY <1>a, <1>6 DEF Exists, TerminalStatuses
  <2> QED
    BY <1>1, <1>5, <2>1 DEF QueueInv, RowsAreLinked, TerminalStatuses
<1>11. EvaluationFollowsJob'
  BY <1>5 DEF QueueInv, EvaluationFollowsJob, TerminalStatuses
<1>12. OneActiveJobPerSubmission' /\ FirstJobIsAlone'
  BY <1>5 DEF QueueInv, OneActiveJobPerSubmission, FirstJobIsAlone, ActiveStatuses, TerminalStatuses
<1>13. QueuedJobHasAttemptLeft' /\ AttemptsWithinBudget'
  BY <1>5 DEF QueueInv, QueuedJobHasAttemptLeft, AttemptsWithinBudget, TerminalStatuses
<1>14. VisibleIffOfficialResult'
  <2> SUFFICES ASSUME NEW t \in Submissions
               PROVE  submission'[t].visible <=> OfficialResults(evaluation, t)' # {}
    BY DEF VisibleIffOfficialResult
  <2>1. CASE t # s
    BY <1>6, <1>7, <2>1 DEF QueueInv, VisibleIffOfficialResult
  <2>2. CASE t = s /\ job[j].mode = "validation"
    BY <1>2, <1>6, <1>7, <2>2
  <2>3. CASE t = s /\ job[j].mode = "official"
    <3>1. OfficialResults(evaluation, s)' # {} <=> published
      BY <1>7, <2>3
    <3> QED
      BY <1>6, <2>3, <3>1
  <2> QED
    BY <1>a, <2>1, <2>2, <2>3
<1>15. StatusFollowsJob'
  <2> SUFFICES ASSUME NEW t \in Submissions, Exists(t)'
               PROVE  IF submission'[t].visible
                      THEN submission'[t].status = "completed"
                      ELSE \/ \E k \in Jobs : /\ job'[k].sub = t
                                              /\ \/ job'[k].status = "staged" /\ submission'[t].status = "pending"
                                                 \/ job'[k].status = "queued" /\ submission'[t].status = "queued"
                                                 \/ job'[k].status = "running" /\ submission'[t].status = "running"
                           \/ ActiveJobsOf(t)' = {} /\ submission'[t].status \in TerminalStatuses
    BY DEF StatusFollowsJob
  <2>1. CASE t = s
    BY <1>a, <1>6, <1>8, <2>1 DEF TerminalStatuses
  <2>2. CASE t # s
    BY <1>1, <1>5, <1>6, <1>8, <2>2 DEF QueueInv, StatusFollowsJob, Exists
  <2> QED
    BY <2>1, <2>2
<1>16. EntryShowsOfficialResult'
  <2> SUFFICES ASSUME NEW c \in Scopes, NEW e, e = leaderboard'[c].sub, e # NoSubmission
               PROVE  /\ ScopeOf[e] = c
                      /\ submission'[e].visible
                      /\ submission'[e].status = "completed"
                      /\ \E k \in OfficialResults(evaluation, e)' : evaluation'[k].score = leaderboard'[c].score
    BY DEF EntryShowsOfficialResult, OfficialResults
  <2>1. \/ leaderboard'[c] = leaderboard[c]
        \/ /\ c = ScopeOf[s] /\ job[j].mode = "official" /\ status = "completed"
           /\ leaderboard'[c] = [sub |-> s, score |-> score]
    <3>1. \/ leaderboard' = leaderboard
          \/ /\ job[j].mode = "official" /\ status = "completed"
             /\ leaderboard' = [leaderboard EXCEPT ![ScopeOf[s]] = UpsertEntry(leaderboard[ScopeOf[s]], s, score)]
      BY <1>1, <1>a DEF MarkEvaluationFinished
    <3> QED
      BY <1>1, <3>1, ScopeAssumption DEF UpsertEntry, QueueInv, QueueTypeOK
  <2>2. CASE leaderboard'[c] = leaderboard[c]
    <3>1. e \in Submissions /\ submission[e].visible /\ submission[e].status = "completed" /\ ScopeOf[e] = c
      BY <2>2 DEF QueueInv, EntryShowsOfficialResult, QueueTypeOK, EntryRecord
    <3>2. PICK k \in OfficialResults(evaluation, e) : evaluation[k].score = leaderboard[c].score
      BY <2>2 DEF QueueInv, EntryShowsOfficialResult
    <3>3. k \in OfficialResults(evaluation, e)' /\ evaluation'[k] = evaluation[k]
      BY <1>2, <1>5, <1>7, <3>2 DEF OfficialResults
    <3>4. submission'[e].visible /\ submission'[e].status = "completed"
      <4>1. CASE e # s
        BY <1>6, <3>1, <4>1
      <4>2. CASE e = s
        <5>1. published /\ job[j].mode = "official"
          BY <1>a, <1>2, <3>2, <4>2
        <5> QED
          BY <1>6, <4>2, <5>1
      <4> QED
        BY <4>1, <4>2
    <3> QED
      BY <2>2, <3>1, <3>2, <3>3, <3>4
  <2>3. CASE /\ c = ScopeOf[s] /\ job[j].mode = "official" /\ status = "completed"
             /\ leaderboard'[c] = [sub |-> s, score |-> score]
    <3>1. j \in OfficialResults(evaluation, s)' /\ evaluation'[j].score = score
      BY <1>5, <1>7, <2>3
    <3> QED
      BY <1>6, <2>3, <3>1
  <2> QED
    BY <2>1, <2>2, <2>3
<1> QED
  BY <1>4, <1>9, <1>10, <1>11, <1>12, <1>13, <1>14, <1>15, <1>16 DEF QueueInv

\* delete_solution_submission and its cascade.
LEMMA DeleteInv ==
  ASSUME NEW s \in Submissions, QueueInv, DeleteSolutionSubmission(s)
  PROVE  QueueInv'
<1>1. /\ \A k \in Jobs : IF job[k].sub = s
                         THEN /\ job'[k].status = "deleted" /\ job'[k].sub = NoSubmission
                              /\ evaluation'[k].status = "absent"
                         ELSE job'[k] = job[k] /\ evaluation'[k] = evaluation[k]
      /\ \A c \in Scopes : IF leaderboard[c].sub = s
                           THEN leaderboard'[c].sub = NoSubmission
                           ELSE leaderboard'[c] = leaderboard[c]
      /\ submission'[s].status = "deleted" /\ ~submission'[s].visible
      /\ \A t \in Submissions : t # s => submission'[t] = submission[t]
      /\ nextJob' = nextJob
  BY DEF DeleteSolutionSubmission, QueueInv, QueueTypeOK, AbsentJob, AbsentEvaluation, NoEntry
<1>2. QueueTypeOK'
  <2>1. submission' \in [Submissions -> SubmissionRecord]
    BY DEF DeleteSolutionSubmission, QueueInv, QueueTypeOK, SubmissionRecord
  <2>2. job' \in [Jobs -> JobRecord]
    <3>1. [AbsentJob EXCEPT !.status = "deleted"] \in JobRecord
      BY DEF AbsentJob, JobRecord, Modes
    <3> QED
      BY <3>1 DEF DeleteSolutionSubmission, QueueInv, QueueTypeOK
  <2>3. evaluation' \in [Jobs -> EvaluationRecord]
    <3>1. AbsentEvaluation \in EvaluationRecord
      BY DEF AbsentEvaluation, EvaluationRecord
    <3> QED
      BY <3>1 DEF DeleteSolutionSubmission, QueueInv, QueueTypeOK
  <2>4. leaderboard' \in [Scopes -> EntryRecord]
    <3>1. NoEntry \in EntryRecord
      BY DEF NoEntry, EntryRecord
    <3> QED
      BY <3>1 DEF DeleteSolutionSubmission, QueueInv, QueueTypeOK
  <2> QED
    BY <1>1, <2>1, <2>2, <2>3, <2>4 DEF QueueInv, QueueTypeOK
<1>3. s # NoSubmission
  BY SubmissionsAssumption
<1>4. /\ OfficialResults(evaluation, s)' = {}
      /\ \A t \in Submissions : t # s => /\ OfficialResults(evaluation, t)' = OfficialResults(evaluation, t)
                                         /\ ActiveJobsOf(t)' = ActiveJobsOf(t)
  <2>1. OfficialResults(evaluation, s)' = {}
    BY <1>1, <1>3 DEF OfficialResults
  <2>2. \A t \in Submissions : t # s => OfficialResults(evaluation, t)' = OfficialResults(evaluation, t)
    BY <1>1, SubmissionsAssumption DEF OfficialResults
  <2>3. \A t \in Submissions : t # s => ActiveJobsOf(t)' = ActiveJobsOf(t)
    BY <1>1, SubmissionsAssumption DEF ActiveJobsOf
  <2> QED
    BY <2>1, <2>2, <2>3
<1>5. JobsAllocated'
  BY <1>1, <1>3 DEF QueueInv, JobsAllocated, RowsAreLinked
<1>6. RowsAreLinked'
  BY <1>1 DEF QueueInv, RowsAreLinked, Exists
<1>7. EvaluationFollowsJob' /\ QueuedJobHasAttemptLeft' /\ AttemptsWithinBudget'
  BY <1>1 DEF QueueInv, EvaluationFollowsJob, QueuedJobHasAttemptLeft, AttemptsWithinBudget
<1>8. OneActiveJobPerSubmission'
  BY <1>1 DEF QueueInv, OneActiveJobPerSubmission, ActiveStatuses
<1>9. FirstJobIsAlone'
  <2> SUFFICES ASSUME NEW j \in Jobs, NEW k \in Jobs, job'[j].status \in ActiveStatuses,
                      job'[j].status = "staged" \/ job'[j].mode = "validation",
                      job'[k].sub = job'[j].sub
               PROVE  k = j
    BY DEF FirstJobIsAlone
  <2>1. job'[j] = job[j] /\ job[j].sub \in Submissions
    BY <1>1 DEF ActiveStatuses, QueueInv, RowsAreLinked
  <2>2. job'[k] = job[k]
    BY <1>1, <2>1, SubmissionsAssumption
  <2> QED
    BY <2>1, <2>2 DEF QueueInv, FirstJobIsAlone
<1>10. VisibleIffOfficialResult'
  BY <1>1, <1>4 DEF QueueInv, VisibleIffOfficialResult
<1>11. StatusFollowsJob'
  <2> SUFFICES ASSUME NEW t \in Submissions, Exists(t)'
               PROVE  IF submission'[t].visible
                      THEN submission'[t].status = "completed"
                      ELSE \/ \E k \in Jobs : /\ job'[k].sub = t
                                              /\ \/ job'[k].status = "staged" /\ submission'[t].status = "pending"
                                                 \/ job'[k].status = "queued" /\ submission'[t].status = "queued"
                                                 \/ job'[k].status = "running" /\ submission'[t].status = "running"
                           \/ ActiveJobsOf(t)' = {} /\ submission'[t].status \in TerminalStatuses
    BY DEF StatusFollowsJob
  <2>1. t # s
    BY <1>1 DEF Exists
  <2> QED
    BY <1>1, <1>4, <2>1 DEF QueueInv, StatusFollowsJob, Exists
<1>12. EntryShowsOfficialResult'
  <2> SUFFICES ASSUME NEW c \in Scopes, NEW e, e = leaderboard'[c].sub, e # NoSubmission
               PROVE  /\ ScopeOf[e] = c
                      /\ submission'[e].visible
                      /\ submission'[e].status = "completed"
                      /\ \E k \in OfficialResults(evaluation, e)' : evaluation'[k].score = leaderboard'[c].score
    BY DEF EntryShowsOfficialResult, OfficialResults
  <2>1. leaderboard'[c] = leaderboard[c] /\ e # s
    BY <1>1
  <2>2. e \in Submissions
    BY <2>1 DEF QueueInv, QueueTypeOK, EntryRecord
  <2>3. PICK k \in OfficialResults(evaluation, e) : evaluation[k].score = leaderboard[c].score
    BY <2>1 DEF QueueInv, EntryShowsOfficialResult
  <2>4. k \in OfficialResults(evaluation, e)' /\ evaluation'[k] = evaluation[k]
    BY <1>1, <1>4, <2>1, <2>2, <2>3 DEF OfficialResults
  <2> QED
    BY <1>1, <2>1, <2>2, <2>3, <2>4 DEF QueueInv, EntryShowsOfficialResult
<1> QED
  BY <1>2, <1>5, <1>6, <1>7, <1>8, <1>9, <1>10, <1>11, <1>12 DEF QueueInv

\* queue_evaluation_job: the repair it ends with finds nothing to repair, since
\* the leaderboard never points to a submission that is not public.
LEMMA QueueJobInv ==
  ASSUME NEW s \in Submissions, QueueInv, QueueEvaluationJob(s)
  PROVE  QueueInv'
<1> DEFINE n == nextJob
<1>1. /\ n \in Jobs /\ Exists(s) /\ ActiveJobsOf(s) = {}
      /\ evaluation' = evaluation
      /\ nextJob' = nextJob + 1
      /\ job[n].status = "absent" /\ evaluation[n].status = "absent"
  BY DEF QueueEvaluationJob, QueueInv, JobsAllocated, RowsAreLinked, QueueTypeOK, Jobs
<1>2. leaderboard' = leaderboard
  <2>1. CASE submission[s].visible
    BY <2>1 DEF QueueEvaluationJob
  <2>2. CASE ~submission[s].visible
    <3>1. \A c \in Scopes : leaderboard[c].sub \notin {s}
      BY <2>2, SubmissionsAssumption DEF QueueInv, EntryShowsOfficialResult
    <3>2. leaderboard' = [c \in Scopes |->
                            IF leaderboard[c].sub \in {s}
                            THEN BestReplacement(submission', c, leaderboard[c].sub)
                            ELSE leaderboard[c]]
      BY <2>2 DEF QueueEvaluationJob, RepairedLeaderboard
    <3> QED
      BY <3>1, <3>2 DEF QueueInv, QueueTypeOK
  <2> QED
    BY <2>1, <2>2
<1>3. /\ submission[s].visible => submission' = submission
      /\ ~submission[s].visible => submission' = [submission EXCEPT ![s] = [status |-> "queued", visible |-> FALSE]]
  BY DEF QueueEvaluationJob
<1>4. QueueTypeOK'
  <2>1. job' \in [Jobs -> JobRecord]
    <3>1. [AbsentJob EXCEPT !.status = "queued", !.sub = s, !.mode = "official"] \in JobRecord
      BY DEF AbsentJob, JobRecord, Modes, ActiveStatuses
    <3> QED
      BY <3>1 DEF QueueEvaluationJob, QueueInv, QueueTypeOK
  <2>2. submission' \in [Submissions -> SubmissionRecord]
    <3>1. [status |-> "queued", visible |-> FALSE] \in SubmissionRecord
      BY DEF SubmissionRecord
    <3>2. CASE submission[s].visible
      BY <1>3, <3>2 DEF QueueInv, QueueTypeOK
    <3>3. CASE ~submission[s].visible
      <4>1. submission' = [submission EXCEPT ![s] = [status |-> "queued", visible |-> FALSE]]
        BY <1>3, <3>3
      <4> QED
        BY <3>1, <4>1 DEF QueueInv, QueueTypeOK
    <3> QED
      BY <3>2, <3>3
  <2>3. nextJob' \in 1..(MaxJobs + 1)
    BY <1>1, BoundsAssumption DEF Jobs
  <2> QED
    BY <1>1, <1>2, <2>1, <2>2, <2>3 DEF QueueInv, QueueTypeOK
<1>5. /\ job'[n].status = "queued" /\ job'[n].sub = s /\ job'[n].mode = "official" /\ job'[n].attempt = 0
      /\ \A k \in Jobs : k # n => job'[k] = job[k]
  BY <1>1 DEF QueueEvaluationJob, QueueInv, QueueTypeOK, AbsentJob
<1>6. /\ \A t \in Submissions : /\ submission'[t].visible = submission[t].visible
                                /\ t # s => submission'[t] = submission[t]
      /\ submission[s].visible => submission'[s] = submission[s]
      /\ ~submission[s].visible => submission'[s].status = "queued"
  <2>1. CASE submission[s].visible
    BY <1>3, <2>1
  <2>2. CASE ~submission[s].visible
    <3>1. submission[s].visible = FALSE
      BY <2>2 DEF QueueInv, QueueTypeOK, SubmissionRecord
    <3>2. submission' = [submission EXCEPT ![s] = [status |-> "queued", visible |-> FALSE]]
      BY <1>3, <2>2
    <3>3. submission'[s] = [status |-> "queued", visible |-> FALSE]
      BY <3>2 DEF QueueInv, QueueTypeOK
    <3>4. \A t \in Submissions : t # s => submission'[t] = submission[t]
      BY <3>2 DEF QueueInv, QueueTypeOK
    <3>5. submission'[s].status = "queued" /\ submission'[s].visible = FALSE
      BY <3>3
    <3> QED
      BY <2>2, <3>1, <3>4, <3>5
  <2> QED
    BY <2>1, <2>2
<1>7. \A t \in Submissions : OfficialResults(evaluation, t)' = OfficialResults(evaluation, t)
  BY <1>1, <1>5 DEF OfficialResults
<1>8. \A t \in Submissions : t # s => ActiveJobsOf(t)' = ActiveJobsOf(t)
  BY <1>1, <1>5 DEF ActiveJobsOf, ActiveStatuses
<1>9. JobsAllocated'
  BY <1>1, <1>5 DEF QueueInv, JobsAllocated, QueueTypeOK, Jobs
<1>10. RowsAreLinked' /\ EvaluationFollowsJob'
  <2>1. \A t \in Submissions : Exists(t) => Exists(t)'
    BY <1>6 DEF Exists
  <2> QED
    BY <1>1, <1>5, <2>1 DEF QueueInv, RowsAreLinked, EvaluationFollowsJob
<1>11. \A k \in Jobs : k # n /\ job[k].sub = s => job[k].status \notin ActiveStatuses
  BY <1>1 DEF ActiveJobsOf
<1>12. OneActiveJobPerSubmission' /\ FirstJobIsAlone'
  <2>1. OneActiveJobPerSubmission'
    BY <1>1, <1>5, <1>11 DEF QueueInv, OneActiveJobPerSubmission
  <2>2. FirstJobIsAlone'
    BY <1>1, <1>5, <1>11 DEF QueueInv, FirstJobIsAlone
  <2> QED
    BY <2>1, <2>2
<1>13. QueuedJobHasAttemptLeft' /\ AttemptsWithinBudget'
  BY <1>1, <1>5, BoundsAssumption DEF QueueInv, QueuedJobHasAttemptLeft, AttemptsWithinBudget
<1>14. VisibleIffOfficialResult'
  BY <1>6, <1>7 DEF QueueInv, VisibleIffOfficialResult
<1>15. StatusFollowsJob'
  <2> SUFFICES ASSUME NEW t \in Submissions, Exists(t)'
               PROVE  IF submission'[t].visible
                      THEN submission'[t].status = "completed"
                      ELSE \/ \E k \in Jobs : /\ job'[k].sub = t
                                              /\ \/ job'[k].status = "staged" /\ submission'[t].status = "pending"
                                                 \/ job'[k].status = "queued" /\ submission'[t].status = "queued"
                                                 \/ job'[k].status = "running" /\ submission'[t].status = "running"
                           \/ ActiveJobsOf(t)' = {} /\ submission'[t].status \in TerminalStatuses
    BY DEF StatusFollowsJob
  <2>1. CASE t = s
    BY <1>1, <1>5, <1>6, <2>1 DEF QueueInv, StatusFollowsJob, Exists
  <2>2. CASE t # s
    BY <1>1, <1>5, <1>6, <1>8, <2>2 DEF QueueInv, StatusFollowsJob, Exists
  <2> QED
    BY <2>1, <2>2
<1>16. EntryShowsOfficialResult'
  <2> SUFFICES ASSUME NEW c \in Scopes, NEW e, e = leaderboard[c].sub, e # NoSubmission
               PROVE  /\ ScopeOf[e] = c
                      /\ submission'[e].visible
                      /\ submission'[e].status = "completed"
                      /\ \E k \in OfficialResults(evaluation, e)' : evaluation'[k].score = leaderboard[c].score
    BY <1>2 DEF EntryShowsOfficialResult, OfficialResults
  <2>1. e \in Submissions /\ submission[e].visible
    BY DEF QueueInv, QueueTypeOK, EntryRecord, EntryShowsOfficialResult
  <2> QED
    BY <1>1, <1>6, <1>7, <2>1 DEF QueueInv, EntryShowsOfficialResult
<1> QED
  BY <1>4, <1>9, <1>10, <1>12, <1>13, <1>14, <1>15, <1>16 DEF QueueInv

\* What the reaper does to one job: nothing unless it is stale, and then the
\* status, the lease and the evaluation only.
LEMMA ReapedJobFacts ==
  ASSUME NEW j \in Jobs, QueueInv
  PROVE  /\ ReapedJob(j) \in JobRecord
         /\ ReapedJob(j).sub = job[j].sub
         /\ ReapedJob(j).mode = job[j].mode
         /\ ReapedJob(j).attempt = job[j].attempt
         /\ j \in StaleStaged \cup StaleExhausted => ReapedJob(j).status = "failed"
         /\ j \in StaleRetriable => ReapedJob(j).status = "queued"
         /\ j \notin StaleStaged \cup StaleExhausted \cup StaleRetriable => ReapedJob(j) = job[j]
<1>0. job[j] \in JobRecord
  BY DEF QueueInv, QueueTypeOK
<1>1. CASE j \in StaleStaged \cup StaleExhausted
  <2>1. j \notin StaleRetriable
    BY <1>1, BoundsAssumption, <1>0 DEF StaleStaged, StaleExhausted, StaleRetriable, JobRecord
  <2>2. ReapedJob(j) = [job[j] EXCEPT !.status = "failed", !.worker = NoWorker, !.fresh = TRUE]
    BY <1>1, <2>1 DEF ReapedJob
  <2> QED
    BY <1>0, <1>1, <2>1, <2>2 DEF JobRecord, TerminalStatuses
<1>2. CASE j \in StaleRetriable /\ j \notin StaleStaged \cup StaleExhausted
  <2>1. ReapedJob(j) = [job[j] EXCEPT !.status = "queued", !.worker = NoWorker, !.fresh = TRUE]
    BY <1>2 DEF ReapedJob
  <2> QED
    BY <1>0, <1>2, <2>1 DEF JobRecord, ActiveStatuses
<1>3. CASE j \notin StaleStaged \cup StaleExhausted \cup StaleRetriable
  <2>1. ReapedJob(j) = job[j]
    BY <1>3 DEF ReapedJob
  <2> QED
    BY <1>0, <1>3, <2>1
<1> QED
  BY <1>1, <1>2, <1>3

LEMMA ReapedEvaluationFacts ==
  ASSUME NEW j \in Jobs, QueueInv
  PROVE  /\ ReapedEvaluation(j) \in EvaluationRecord
         /\ j \in StaleRetriable => ReapedEvaluation(j).status = "absent"
         /\ j \in StaleStaged \cup StaleExhausted => ReapedEvaluation(j).status \in {"absent", "failed"}
         /\ j \notin StaleRetriable \cup StaleExhausted => ReapedEvaluation(j) = evaluation[j]
         /\ evaluation[j].status = "absent" => ReapedEvaluation(j).status = "absent"
<1>0. evaluation[j] \in EvaluationRecord /\ AbsentEvaluation \in EvaluationRecord
  BY DEF QueueInv, QueueTypeOK, AbsentEvaluation, EvaluationRecord
<1>1. CASE j \in StaleRetriable /\ evaluation[j].status = "running"
  <2>1. j \notin StaleStaged \cup StaleExhausted
    BY <1>1, BoundsAssumption DEF StaleStaged, StaleExhausted, StaleRetriable, QueueInv, QueueTypeOK, JobRecord
  <2>2. ReapedEvaluation(j) = AbsentEvaluation
    BY <1>1, <2>1 DEF ReapedEvaluation
  <2> QED
    BY <1>0, <1>1, <2>1, <2>2 DEF AbsentEvaluation
<1>2. CASE j \in StaleExhausted /\ j \notin StaleRetriable /\ evaluation[j].status = "running"
  <2>1. ReapedEvaluation(j) = [evaluation[j] EXCEPT !.status = "failed"]
    BY <1>2 DEF ReapedEvaluation
  <2> QED
    BY <1>0, <1>2, <2>1 DEF EvaluationRecord, TerminalStatuses
<1>3. CASE j \notin StaleRetriable \cup StaleExhausted \/ evaluation[j].status # "running"
  <2>1. ReapedEvaluation(j) = evaluation[j]
    BY <1>3 DEF ReapedEvaluation
  <2>2. j \in StaleRetriable \cup StaleExhausted => evaluation[j].status \in {"absent", "running"}
    BY DEF StaleRetriable, StaleExhausted, QueueInv, EvaluationFollowsJob
  <2>3. j \in StaleStaged => evaluation[j].status = "absent"
    BY DEF StaleStaged, QueueInv, EvaluationFollowsJob
  <2> QED
    BY <1>0, <1>3, <2>1, <2>2, <2>3
<1> QED
  BY <1>1, <1>2, <1>3

\* A rerun of a public submission is official and beside the public result, so
\* the reaper preserves the result whichever of its two branches takes the job.
LEMMA ReaperPreserves ==
  ASSUME NEW j \in Jobs, QueueInv, job[j].status = "running"
  PROVE  /\ job[j].sub \in Submissions
         /\ PreservesResult(j) <=> submission[job[j].sub].visible
<1>1. PICK s \in Submissions : s = job[j].sub
  BY DEF QueueInv, RowsAreLinked
<1>2. submission[s].visible <=> OfficialResults(evaluation, s) # {}
  BY DEF QueueInv, VisibleIffOfficialResult
<1>3. OfficialResults(evaluation, s) \ {j} = OfficialResults(evaluation, s)
  BY ActiveJobIsNoResult DEF ActiveStatuses
<1>4. job[j].mode = "validation" => OfficialResults(evaluation, s) = {}
  BY <1>1, ActiveJobIsNoResult DEF ActiveStatuses
<1>5. job[j].mode \in Modes
  BY DEF QueueInv, QueueTypeOK, JobRecord
<1> QED
  BY <1>1, <1>2, <1>3, <1>4, <1>5 DEF PreservesResult, HasOtherOfficialResult, Modes

\* What the reaper does to one submission.
LEMMA ReapedSubmissionFacts ==
  ASSUME NEW s \in Submissions, QueueInv
  PROVE  /\ submission[s].visible => ReapedSubmission(s) = submission[s]
         /\ ~submission[s].visible =>
              /\ ReapedSubmission(s) \in SubmissionRecord
              /\ ReapedSubmission(s).visible = FALSE
              /\ (\E j \in StaleRetriable : job[j].sub = s) => ReapedSubmission(s).status = "queued"
              /\ (\E j \in StaleStaged \cup StaleExhausted : job[j].sub = s)
                   /\ ~(\E j \in StaleRetriable : job[j].sub = s) => ReapedSubmission(s).status = "failed"
              /\ ~(\E j \in StaleStaged \cup StaleExhausted \cup StaleRetriable : job[j].sub = s)
                   => ReapedSubmission(s) = submission[s]
<1> DEFINE kept == \E j \in StaleRetriable \cup StaleExhausted : job[j].sub = s /\ PreservesResult(j)
           retried == \E j \in StaleRetriable : job[j].sub = s
           failed == \E j \in StaleStaged \cup StaleExhausted : job[j].sub = s
<1>0. submission[s] \in SubmissionRecord
  BY DEF QueueInv, QueueTypeOK
<1>1. ReapedSubmission(s) = CASE kept -> [status |-> "completed", visible |-> TRUE]
                              [] ~kept /\ retried -> [status |-> "queued", visible |-> FALSE]
                              [] ~kept /\ ~retried /\ failed -> [status |-> "failed", visible |-> FALSE]
                              [] OTHER -> submission[s]
  BY DEF ReapedSubmission
<1>2. StaleRetriable \cup StaleExhausted \subseteq {j \in Jobs : job[j].status = "running"}
  BY DEF StaleRetriable, StaleExhausted
<1>3. StaleStaged \subseteq {j \in Jobs : job[j].status = "staged"}
  BY DEF StaleStaged
<1>4. kept => submission[s].visible
  BY <1>2, ReaperPreserves
<1>5. CASE submission[s].visible
  <2>1. submission[s] = [status |-> "completed", visible |-> TRUE]
    <3>1. Exists(s)
      BY <1>5, NoRowsWithoutSubmission DEF QueueInv, VisibleIffOfficialResult, OfficialResults
    <3>2. submission[s].status = "completed" /\ submission[s].visible = TRUE
      BY <1>0, <1>5, <3>1 DEF QueueInv, StatusFollowsJob, SubmissionRecord
    <3> QED
      BY <1>0, <3>2 DEF SubmissionRecord
  <2>2. (\E j \in StaleRetriable \cup StaleExhausted : job[j].sub = s) => kept
    BY <1>2, <1>5, ReaperPreserves
  <2>3. ~(\E j \in StaleStaged : job[j].sub = s)
    BY <1>3, <1>5, StagedIsPending
  <2>4. retried \/ failed => kept
    BY <2>2, <2>3
  <2>5. CASE kept
    BY <1>1, <1>5, <2>1, <2>5
  <2>6. CASE ~kept
    <3>1. ~retried /\ ~failed
      BY <2>4, <2>6
    <3> HIDE DEF kept, retried, failed
    <3> QED
      BY <1>1, <1>5, <2>6, <3>1
  <2> QED
    BY <2>5, <2>6
<1>6. CASE ~submission[s].visible
  <2>1. ~kept
    BY <1>4, <1>6
  <2>2. submission[s].visible = FALSE
    BY <1>0, <1>6 DEF SubmissionRecord
  <2>3. /\ [status |-> "queued", visible |-> FALSE] \in SubmissionRecord
        /\ [status |-> "failed", visible |-> FALSE] \in SubmissionRecord
    BY DEF SubmissionRecord
  <2>4. (\E j \in StaleStaged \cup StaleExhausted \cup StaleRetriable : job[j].sub = s) <=> retried \/ failed
    OBVIOUS
  <2> HIDE DEF kept
  <2>5. /\ retried => ReapedSubmission(s) = [status |-> "queued", visible |-> FALSE]
        /\ ~retried /\ failed => ReapedSubmission(s) = [status |-> "failed", visible |-> FALSE]
        /\ ~retried /\ ~failed => ReapedSubmission(s) = submission[s]
    <3> HIDE DEF retried, failed
    <3> QED
      BY <1>1, <2>1
  <2>6. CASE retried
    <3>1. ReapedSubmission(s) = [status |-> "queued", visible |-> FALSE]
      BY <2>5, <2>6
    <3> QED
      BY <1>6, <2>3, <2>6, <3>1
  <2>7. CASE ~retried /\ failed
    <3>1. ReapedSubmission(s) = [status |-> "failed", visible |-> FALSE]
      BY <2>5, <2>7
    <3> QED
      BY <1>6, <2>3, <2>7, <3>1
  <2>8. CASE ~retried /\ ~failed
    BY <1>0, <1>6, <2>2, <2>5, <2>8
  <2> QED
    BY <2>6, <2>7, <2>8
<1> QED
  BY <1>5, <1>6

\* reap_stuck_jobs: whichever set of jobs is stale at once, no public result is
\* hidden, so the leaderboard has nothing to repair.
LEMMA ReapInv ==
  ASSUME QueueInv, ReapStuckJobs
  PROVE  QueueInv'
<1> DEFINE Stale == StaleStaged \cup StaleExhausted \cup StaleRetriable
<1>1. /\ \A j \in Jobs : job'[j] = ReapedJob(j) /\ evaluation'[j] = ReapedEvaluation(j)
      /\ \A s \in Submissions : submission'[s] = ReapedSubmission(s)
      /\ nextJob' = nextJob
  BY DEF ReapStuckJobs
<1>2. /\ StaleStaged \subseteq {j \in Jobs : job[j].status = "staged"}
      /\ StaleRetriable \subseteq {j \in Jobs : job[j].status = "running" /\ job[j].attempt < MaxAttempts}
      /\ StaleExhausted \subseteq {j \in Jobs : job[j].status = "running" /\ job[j].attempt >= MaxAttempts}
  BY DEF StaleStaged, StaleRetriable, StaleExhausted
<1>3. leaderboard' = leaderboard
  <2>1. HiddenByReaper = {}
    BY <1>2, ReaperPreserves DEF HiddenByReaper
  <2>2. leaderboard' = [c \in Scopes |-> leaderboard[c]]
    BY <2>1 DEF ReapStuckJobs, RepairedLeaderboard
  <2> QED
    BY <2>2 DEF QueueInv, QueueTypeOK
<1>4. \A j \in Jobs :
        /\ job'[j] \in JobRecord
        /\ job'[j].sub = job[j].sub /\ job'[j].mode = job[j].mode /\ job'[j].attempt = job[j].attempt
        /\ j \in StaleStaged \cup StaleExhausted => job'[j].status = "failed"
        /\ j \in StaleRetriable => job'[j].status = "queued"
        /\ j \notin Stale => job'[j] = job[j]
  BY <1>1, ReapedJobFacts
<1>5. \A j \in Jobs :
        /\ evaluation'[j] \in EvaluationRecord
        /\ j \in StaleRetriable => evaluation'[j].status = "absent"
        /\ j \in StaleStaged \cup StaleExhausted => evaluation'[j].status \in {"absent", "failed"}
        /\ j \notin StaleRetriable \cup StaleExhausted => evaluation'[j] = evaluation[j]
        /\ evaluation[j].status = "absent" => evaluation'[j].status = "absent"
  BY <1>1, ReapedEvaluationFacts
<1>6. \A s \in Submissions :
        /\ submission[s].visible => submission'[s] = submission[s]
        /\ ~submission[s].visible =>
              /\ submission'[s] \in SubmissionRecord
              /\ submission'[s].visible = FALSE
              /\ (\E j \in StaleRetriable : job[j].sub = s) => submission'[s].status = "queued"
              /\ (\E j \in StaleStaged \cup StaleExhausted : job[j].sub = s)
                   /\ ~(\E j \in StaleRetriable : job[j].sub = s) => submission'[s].status = "failed"
              /\ ~(\E j \in Stale : job[j].sub = s) => submission'[s] = submission[s]
  <2> SUFFICES ASSUME NEW s \in Submissions
               PROVE  /\ submission[s].visible => submission'[s] = submission[s]
                      /\ ~submission[s].visible =>
                           /\ submission'[s] \in SubmissionRecord
                           /\ submission'[s].visible = FALSE
                           /\ (\E j \in StaleRetriable : job[j].sub = s) => submission'[s].status = "queued"
                           /\ (\E j \in StaleStaged \cup StaleExhausted : job[j].sub = s)
                                /\ ~(\E j \in StaleRetriable : job[j].sub = s) => submission'[s].status = "failed"
                           /\ ~(\E j \in Stale : job[j].sub = s) => submission'[s] = submission[s]
    OBVIOUS
  <2>1. submission'[s] = ReapedSubmission(s)
    BY <1>1
  <2>2. /\ submission[s].visible => ReapedSubmission(s) = submission[s]
        /\ ~submission[s].visible =>
             /\ ReapedSubmission(s) \in SubmissionRecord
             /\ ReapedSubmission(s).visible = FALSE
             /\ (\E j \in StaleRetriable : job[j].sub = s) => ReapedSubmission(s).status = "queued"
             /\ (\E j \in StaleStaged \cup StaleExhausted : job[j].sub = s)
                  /\ ~(\E j \in StaleRetriable : job[j].sub = s) => ReapedSubmission(s).status = "failed"
             /\ ~(\E j \in Stale : job[j].sub = s) => ReapedSubmission(s) = submission[s]
    BY ReapedSubmissionFacts, Zenon
  <2> QED
    BY <2>1, <2>2, Zenon
<1>7. QueueTypeOK'
  <2>1. submission' \in [Submissions -> SubmissionRecord]
    <3>1. submission' = [s \in Submissions |-> ReapedSubmission(s)]
      BY DEF ReapStuckJobs
    <3>2. \A s \in Submissions : submission'[s] \in SubmissionRecord
      BY <1>6 DEF QueueInv, QueueTypeOK
    <3> QED
      BY <3>1, <3>2
  <2>2. job' \in [Jobs -> JobRecord]
    BY <1>4 DEF ReapStuckJobs
  <2>3. evaluation' \in [Jobs -> EvaluationRecord]
    BY <1>5 DEF ReapStuckJobs
  <2> QED
    BY <1>1, <1>3, <2>1, <2>2, <2>3 DEF QueueInv, QueueTypeOK
<1> HIDE DEF Stale
<1>8. \A j \in Stale : j \in Jobs /\ job[j].status \in ActiveStatuses
  BY <1>2 DEF Stale, ActiveStatuses
<1>9. \A s \in Submissions : OfficialResults(evaluation, s)' = OfficialResults(evaluation, s)
  <2>1. \A j \in Jobs : evaluation'[j].status = "completed" <=> evaluation[j].status = "completed"
    BY <1>2, <1>5 DEF QueueInv, EvaluationFollowsJob
  <2> QED
    BY <1>4, <2>1 DEF OfficialResults
<1>10. \A s \in Submissions : submission'[s].visible <=> submission[s].visible
  BY <1>6
<1>11. \A j, k \in Jobs : j \in Stale /\ job[k].status \in ActiveStatuses /\ job[j].sub = job[k].sub => j = k
  BY <1>8 DEF QueueInv, OneActiveJobPerSubmission
<1>12. \A s \in Submissions : Exists(s)' <=> Exists(s)
  <2> SUFFICES ASSUME NEW s \in Submissions PROVE Exists(s)' <=> Exists(s)
    OBVIOUS
  <2>1. CASE submission[s].visible \/ ~(\E j \in Stale : job[j].sub = s)
    BY <1>6, <2>1 DEF Exists, Stale
  <2>2. CASE ~submission[s].visible /\ \E j \in Stale : job[j].sub = s
    <3>1. Exists(s)
      BY <1>8, <2>2, NoRowsWithoutSubmission
    <3>2. submission'[s].status \in {"queued", "failed"}
      BY <1>6, <2>2 DEF Stale
    <3> QED
      BY <3>1, <3>2 DEF Exists
  <2> QED
    BY <2>1, <2>2
<1>13. JobsAllocated'
  BY <1>1, <1>4, <1>8 DEF QueueInv, JobsAllocated, ActiveStatuses
<1>14. RowsAreLinked'
  <2> SUFFICES ASSUME NEW j \in Jobs
               PROVE  IF job'[j].status \in {"absent", "deleted"}
                      THEN job'[j].sub = NoSubmission /\ evaluation'[j].status = "absent"
                      ELSE job'[j].sub \in Submissions /\ Exists(job[j].sub)'
    BY <1>4 DEF RowsAreLinked, Exists
  <2>1. CASE j \in Stale
    BY <1>4, <1>8, <1>12, <2>1 DEF QueueInv, RowsAreLinked, ActiveStatuses, Stale
  <2>2. CASE j \notin Stale
    BY <1>4, <1>5, <1>12, <2>2 DEF QueueInv, RowsAreLinked, Stale
  <2> QED
    BY <2>1, <2>2
<1>15. EvaluationFollowsJob'
  BY <1>2, <1>4, <1>5 DEF QueueInv, EvaluationFollowsJob, Stale
<1>16. OneActiveJobPerSubmission' /\ FirstJobIsAlone'
  <2>1. \A j \in Jobs : job'[j].status \in ActiveStatuses => job[j].status \in ActiveStatuses
    BY <1>4, <1>8
  <2>2. \A j \in Jobs : job'[j].status = "staged" => job[j].status = "staged"
    BY <1>4 DEF Stale
  <2> QED
    BY <1>4, <2>1, <2>2 DEF QueueInv, OneActiveJobPerSubmission, FirstJobIsAlone
<1>17. QueuedJobHasAttemptLeft' /\ AttemptsWithinBudget'
  BY <1>2, <1>4 DEF QueueInv, QueuedJobHasAttemptLeft, AttemptsWithinBudget, Stale
<1>18. VisibleIffOfficialResult'
  BY <1>9, <1>10 DEF QueueInv, VisibleIffOfficialResult
<1>19. StatusFollowsJob'
  <2> SUFFICES ASSUME NEW t \in Submissions, Exists(t)'
               PROVE  IF submission'[t].visible
                      THEN submission'[t].status = "completed"
                      ELSE \/ \E k \in Jobs : /\ job'[k].sub = t
                                              /\ \/ job'[k].status = "staged" /\ submission'[t].status = "pending"
                                                 \/ job'[k].status = "queued" /\ submission'[t].status = "queued"
                                                 \/ job'[k].status = "running" /\ submission'[t].status = "running"
                           \/ ActiveJobsOf(t)' = {} /\ submission'[t].status \in TerminalStatuses
    BY DEF StatusFollowsJob
  <2>0. Exists(t)
    BY <1>12
  <2>1. CASE submission[t].visible
    BY <1>6, <2>0, <2>1 DEF QueueInv, StatusFollowsJob
  <2>2. CASE ~submission[t].visible /\ \E j \in StaleRetriable : job[j].sub = t
    BY <1>2, <1>4, <1>6, <2>2
  <2>3. ASSUME ~submission[t].visible, NEW j \in StaleStaged \cup StaleExhausted, job[j].sub = t
        PROVE  ActiveJobsOf(t)' = {} /\ submission'[t].status = "failed"
    <3>1. j \in Stale /\ j \in Jobs /\ job[j].status \in ActiveStatuses
      BY <1>8, <2>3 DEF Stale
    <3>2. \A k \in Jobs : job[k].sub = t /\ job[k].status \in ActiveStatuses => k = j
      BY <1>11, <2>3, <3>1
    <3>3. j \notin StaleRetriable
      BY <1>2, <2>3, BoundsAssumption DEF QueueInv, QueueTypeOK, JobRecord
    <3>4. ~(\E k \in StaleRetriable : job[k].sub = t)
      BY <1>8, <3>2, <3>3 DEF Stale
    <3>5. submission'[t].status = "failed"
      BY <1>6, <2>3, <3>4
    <3>6. \A k \in Jobs : job'[k].sub = t => job'[k].status \notin ActiveStatuses
      <4> SUFFICES ASSUME NEW k \in Jobs, job'[k].sub = t PROVE job'[k].status \notin ActiveStatuses
        OBVIOUS
      <4>1. CASE k = j
        BY <1>4, <2>3, <4>1 DEF ActiveStatuses
      <4>2. CASE k # j
        BY <1>4, <1>8, <3>2, <4>2
      <4> QED
        BY <4>1, <4>2
    <3> QED
      BY <3>5, <3>6 DEF ActiveJobsOf
  <2>4. CASE ~submission[t].visible /\ ~(\E j \in Stale : job[j].sub = t)
    <3>1. submission'[t] = submission[t]
      BY <1>6, <2>4 DEF Stale
    <3>2. \A k \in Jobs : job'[k].sub = t => job'[k] = job[k]
      BY <1>4, <2>4
    <3>3. \A k \in Jobs : job[k].sub = t => job'[k] = job[k]
      BY <1>4, <2>4
    <3>4. ActiveJobsOf(t)' = ActiveJobsOf(t)
      BY <3>2, <3>3 DEF ActiveJobsOf
    <3> QED
      BY <2>0, <2>4, <3>1, <3>3, <3>4 DEF QueueInv, StatusFollowsJob
  <2>5. CASE ~submission[t].visible /\ \E j \in StaleStaged \cup StaleExhausted : job[j].sub = t
    BY <1>6, <2>3, <2>5 DEF TerminalStatuses
  <2> QED
    BY <2>1, <2>2, <2>4, <2>5 DEF Stale
<1>20. EntryShowsOfficialResult'
  <2> SUFFICES ASSUME NEW c \in Scopes, NEW e, e = leaderboard[c].sub, e # NoSubmission
               PROVE  /\ ScopeOf[e] = c
                      /\ submission'[e].visible
                      /\ submission'[e].status = "completed"
                      /\ \E k \in OfficialResults(evaluation, e)' : evaluation'[k].score = leaderboard[c].score
    BY <1>3 DEF EntryShowsOfficialResult, OfficialResults
  <2>1. e \in Submissions /\ submission[e].visible
    BY DEF QueueInv, QueueTypeOK, EntryRecord, EntryShowsOfficialResult
  <2>2. PICK k \in OfficialResults(evaluation, e) : evaluation[k].score = leaderboard[c].score
    BY DEF QueueInv, EntryShowsOfficialResult
  <2>3. evaluation'[k] = evaluation[k]
    BY <1>2, <1>5, <2>2 DEF OfficialResults, QueueInv, EvaluationFollowsJob
  <2> QED
    BY <1>6, <1>9, <2>1, <2>2, <2>3 DEF QueueInv, EntryShowsOfficialResult
<1> QED
  BY <1>7, <1>13, <1>14, <1>15, <1>16, <1>17, <1>18, <1>19, <1>20 DEF QueueInv

=============================================================================
