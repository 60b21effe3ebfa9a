--------------------- MODULE EvaluationLifecycleProofs ---------------------
(* EvaluationLifecycle, for any number of submissions, workers, jobs and       *)
(* attempts. The table part of its invariant is EvaluationQueueProofs; here    *)
(* are the processes, and the argument that a claim's evaluation is its own:   *)
(* no step of anyone else leaves a claim on the row and touches its evaluation.*)
(* Then: every transaction on the job table is one step of JobClaims or leaves *)
(* the claims as they are; the official capacity is never exceeded; no worker  *)
(* claims a job whose artifact is not stored; and the leaderboard never falls  *)
(* behind the official results.                                                *)
EXTENDS EvaluationLifecycle, EvaluationQueueProofs, FiniteSetTheorems

\* No claim of w is made by the step, and the evaluation of one that survives it
\* is left alone.
KeepsClaims(w) ==
    \A j \in Jobs, attempt \in Nat :
        ClaimMatches(j, w, attempt)' => ClaimMatches(j, w, attempt) /\ evaluation'[j] = evaluation[j]

-----------------------------------------------------------------------------
(* Transactions keep the claims of all workers, or of all but the one that     *)
(* runs them.                                                                  *)

LEMMA UnchangedKeepsClaims ==
  ASSUME NEW w, UNCHANGED queueVars
  PROVE  KeepsClaims(w)
  BY DEF queueVars, KeepsClaims, ClaimMatches

LEMMA CreateKeepsClaims ==
  ASSUME QueueInv, NEW w, NEW s, NEW mode, CreateSolutionSubmissionWithJob(s, mode)
  PROVE  KeepsClaims(w)
<1>1. /\ nextJob \in Jobs /\ evaluation' = evaluation
      /\ job'[nextJob].status = "staged"
      /\ \A j \in Jobs : j # nextJob => job'[j] = job[j]
  BY DEF CreateSolutionSubmissionWithJob, QueueInv, QueueTypeOK, AbsentJob
<1> QED
  BY <1>1 DEF KeepsClaims, ClaimMatches

LEMMA ReadyKeepsClaims ==
  ASSUME QueueInv, NEW w, NEW j \in Jobs, MarkEvaluationJobReady(j)
  PROVE  KeepsClaims(w)
<1>1. /\ evaluation' = evaluation
      /\ job'[j].status = "queued"
      /\ \A k \in Jobs : k # j => job'[k] = job[k]
  BY DEF MarkEvaluationJobReady, QueueInv, QueueTypeOK, JobRecord
<1> QED
  BY <1>1 DEF KeepsClaims, ClaimMatches

LEMMA DeleteKeepsClaims ==
  ASSUME QueueInv, NEW w, NEW s, DeleteSolutionSubmission(s)
  PROVE  KeepsClaims(w)
<1>1. \A j \in Jobs : \/ job'[j].status = "deleted"
                      \/ job'[j] = job[j] /\ evaluation'[j] = evaluation[j]
  BY DEF DeleteSolutionSubmission, AbsentJob
<1> QED
  BY <1>1 DEF KeepsClaims, ClaimMatches

LEMMA QueueJobKeepsClaims ==
  ASSUME QueueInv, NEW w, NEW s, QueueEvaluationJob(s)
  PROVE  KeepsClaims(w)
<1>1. /\ nextJob \in Jobs /\ evaluation' = evaluation
      /\ job'[nextJob].status = "queued"
      /\ \A j \in Jobs : j # nextJob => job'[j] = job[j]
  BY DEF QueueEvaluationJob, QueueInv, QueueTypeOK, AbsentJob
<1> QED
  BY <1>1 DEF KeepsClaims, ClaimMatches

LEMMA ReapKeepsClaims ==
  ASSUME QueueInv, NEW w, ReapStuckJobs
  PROVE  KeepsClaims(w)
<1>1. \A j \in Jobs : job'[j] = ReapedJob(j) /\ evaluation'[j] = ReapedEvaluation(j)
  BY DEF ReapStuckJobs
<1>2. \A j \in Jobs : \/ job'[j].status \in {"queued", "failed"}
                      \/ job'[j] = job[j] /\ evaluation'[j] = evaluation[j]
  BY <1>1, ReapedJobFacts, ReapedEvaluationFacts
<1> QED
  BY <1>2 DEF KeepsClaims, ClaimMatches

LEMMA TimestampKeepsClaims ==
  ASSUME QueueInv, NEW w, NEW j \in Jobs,
         (\E v, attempt : RefreshEvaluationJobClaim(v, j, attempt)) \/ Expires(j) \/ ComesDue(j)
  PROVE  KeepsClaims(w)
<1>1. evaluation' = evaluation
  BY DEF RefreshEvaluationJobClaim, Expires, ComesDue
<1>2. \A k \in Jobs : /\ job'[k].status = job[k].status /\ job'[k].worker = job[k].worker
                      /\ job'[k].attempt = job[k].attempt
  BY DEF RefreshEvaluationJobClaim, Expires, ComesDue, QueueInv, QueueTypeOK, JobRecord
<1> QED
  BY <1>1, <1>2 DEF KeepsClaims, ClaimMatches

LEMMA ClaimKeepsClaims ==
  ASSUME QueueInv, NEW v \in Workers, NEW w \in Workers \ {v}, NEW j \in Jobs, ClaimNextEvaluationJob(v, j)
  PROVE  KeepsClaims(w)
<1>1. /\ evaluation' = evaluation
      /\ job'[j].worker = v
      /\ \A k \in Jobs : k # j => job'[k] = job[k]
  BY DEF ClaimNextEvaluationJob, QueueInv, QueueTypeOK, JobRecord
<1> QED
  BY <1>1 DEF KeepsClaims, ClaimMatches

LEMMA StartKeepsClaims ==
  ASSUME QueueInv, NEW v \in Workers, NEW w \in Workers \ {v}, NEW j \in Jobs, NEW a,
         MarkEvaluationStarted(v, j, a)
  PROVE  KeepsClaims(w)
<1>1. /\ job' = job /\ job[j].worker = v
      /\ \A k \in Jobs : k # j => evaluation'[k] = evaluation[k]
  BY DEF MarkEvaluationStarted, CanMarkStarted, ClaimMatches, QueueInv, QueueTypeOK
<1> QED
  BY <1>1 DEF KeepsClaims, ClaimMatches

LEMMA FinishKeepsClaims ==
  ASSUME QueueInv, NEW v, NEW w, NEW j \in Jobs, NEW a, NEW status \in TerminalStatuses, NEW score,
         MarkEvaluationFinished(v, j, a, status, score)
  PROVE  KeepsClaims(w)
<1>1. /\ job'[j].status = status
      /\ \A k \in Jobs : k # j => job'[k] = job[k] /\ evaluation'[k] = evaluation[k]
  BY DEF MarkEvaluationFinished, QueueInv, QueueTypeOK, JobRecord
<1> QED
  BY <1>1 DEF KeepsClaims, ClaimMatches, TerminalStatuses

LEMMA RequeueKeepsClaims ==
  ASSUME QueueInv, NEW v, NEW w, NEW j \in Jobs, NEW a, RequeueForCapacity(v, j, a)
  PROVE  KeepsClaims(w)
<1>1. job'[j].status = "queued" /\ \A k \in Jobs : k # j => job'[k] = job[k]
  BY DEF RequeueForCapacity, QueueInv, QueueTypeOK, JobRecord
<1>2. \A k \in Jobs : k # j => evaluation'[k] = evaluation[k]
  BY DEF RequeueForCapacity, QueueInv, QueueTypeOK
<1> QED
  BY <1>1, <1>2 DEF KeepsClaims, ClaimMatches

\* A worker that did not move still owns the evaluation of its claim.
LEMMA OwnerFrame ==
  ASSUME Inv, NEW w \in Workers, KeepsClaims(w), worker'[w] = worker[w]
  PROVE  OwnsEvaluation(w)'
<1>1. worker[w] \in WorkerRecord
  BY DEF Inv, TypeOK
<1>2. worker[w].pc \in {"claimed", "started", "executing"} => worker[w].job \in Jobs
  BY DEF Inv, HoldersHaveJobs
<1>3. OwnsEvaluation(w)
  BY DEF Inv, ClaimOwnsEvaluation
<1>4. \A j \in Jobs : ClaimMatches(j, w, worker[w].attempt)'
                      => ClaimMatches(j, w, worker[w].attempt) /\ evaluation'[j] = evaluation[j]
  BY <1>1 DEF KeepsClaims, WorkerRecord, ClaimMatches
<1> QED
  BY <1>2, <1>3, <1>4 DEF OwnsEvaluation, ClaimMatches

-----------------------------------------------------------------------------
LEMMA InitInv == Init => Inv
<1> SUFFICES ASSUME Init PROVE Inv
  OBVIOUS
<1>1. QueueInv
  BY QueueInitInv DEF Init
<1>2. TypeOK
  BY <1>1 DEF QueueInv, Init, TypeOK, ArtifactPlaces, ApiRecord, WorkerRecord, IdleWorker
<1>3. HoldersHaveJobs /\ ClaimOwnsEvaluation
  BY DEF Init, HoldersHaveJobs, ClaimOwnsEvaluation, OwnsEvaluation, IdleWorker
<1> QED
  BY <1>1, <1>2, <1>3 DEF Inv

\* A step of a handler, an administrator or the clock: no worker moves.
LEMMA HandlerFrame ==
  ASSUME Inv, QueueInv', worker' = worker,
         artifact' \in [Submissions -> ArtifactPlaces],
         api' \in [Submissions -> ApiRecord],
         \A s \in Submissions : api'[s].pc \in {"created", "promoted"} => api'[s].job \in Jobs,
         \A w \in Workers : KeepsClaims(w)
  PROVE  Inv'
<1>1. TypeOK'
  BY DEF Inv, TypeOK, QueueInv
<1>2. HoldersHaveJobs'
  BY DEF Inv, HoldersHaveJobs
<1>3. ClaimOwnsEvaluation'
  BY OwnerFrame DEF ClaimOwnsEvaluation
<1> QED
  BY <1>1, <1>2, <1>3 DEF Inv

\* A step of worker w, which leaves it as r.
LEMMA WorkerFrame ==
  ASSUME Inv, QueueInv', NEW w \in Workers, NEW r \in WorkerRecord,
         worker' = [worker EXCEPT ![w] = r],
         UNCHANGED <<artifact, api>>,
         r.pc \in {"claimed", "started", "executing"} => r.job \in Jobs /\ OwnsEvaluation(w)',
         \A v \in Workers \ {w} : KeepsClaims(v)
  PROVE  Inv'
<1>1. TypeOK'
  BY DEF Inv, TypeOK, QueueInv
<1>2. worker'[w] = r /\ \A v \in Workers \ {w} : worker'[v] = worker[v]
  BY DEF Inv, TypeOK
<1>3. HoldersHaveJobs'
  BY <1>2 DEF Inv, HoldersHaveJobs
<1>4. ClaimOwnsEvaluation'
  <2>1. OwnsEvaluation(w)'
    BY <1>2 DEF OwnsEvaluation
  <2>2. \A v \in Workers \ {w} : OwnsEvaluation(v)'
    BY <1>2, OwnerFrame
  <2> QED
    BY <2>1, <2>2 DEF ClaimOwnsEvaluation
<1> QED
  BY <1>1, <1>3, <1>4 DEF Inv

\* The step of a worker that leaves its cycle, whatever became of the tables.
LEMMA WorkerLeaves ==
  ASSUME Inv, QueueInv', NEW w \in Workers,
         \/ worker' = [worker EXCEPT ![w] = IdleWorker]
         \/ worker' = [worker EXCEPT ![w] = [IdleWorker EXCEPT !.pc = "dead"]],
         UNCHANGED <<artifact, api>>,
         \A v \in Workers : KeepsClaims(v)
  PROVE  Inv'
<1>1. IdleWorker \in WorkerRecord /\ [IdleWorker EXCEPT !.pc = "dead"] \in WorkerRecord
  BY DEF IdleWorker, WorkerRecord
<1>2. IdleWorker.pc = "idle" /\ [IdleWorker EXCEPT !.pc = "dead"].pc = "dead"
  BY DEF IdleWorker
<1> QED
  BY <1>1, <1>2, WorkerFrame

LEMMA UnchangedQueueInv ==
  ASSUME QueueInv, UNCHANGED queueVars
  PROVE  QueueInv'
<1>1. QueueTypeOK'
  BY DEF QueueInv, QueueTypeOK, queueVars
<1> QED
  BY <1>1, FrameInv DEF queueVars

-----------------------------------------------------------------------------
(* One case per action.                                                       *)

LEMMA ApiStepInv ==
  ASSUME Inv, NEW s \in Submissions, ApiStep(s) \/ ApiStops(s) \/ AdminQueue(s)
  PROVE  Inv'
<1>1. /\ QueueInv
      /\ artifact \in [Submissions -> ArtifactPlaces]
      /\ api \in [Submissions -> ApiRecord]
      /\ \A t \in Submissions : api[t].pc \in {"created", "promoted"} => api[t].job \in Jobs
  BY DEF Inv, TypeOK, HoldersHaveJobs
<1>2. \A p \in {"none", "staged", "delete_row", "delete_artifact", "done"} :
        LET a == [api EXCEPT ![s].pc = p] IN
        /\ a \in [Submissions -> ApiRecord]
        /\ \A t \in Submissions : a[t].pc \in {"created", "promoted"} => a[t].job \in Jobs
  BY <1>1 DEF ApiRecord
<1>3. CASE ApiStageArtifact(s)
  <2>1. artifact' \in [Submissions -> ArtifactPlaces]
    BY <1>1, <1>3 DEF ApiStageArtifact, ArtifactPlaces
  <2> QED
    BY <1>1, <1>2, <1>3, <2>1, UnchangedQueueInv, UnchangedKeepsClaims, HandlerFrame DEF ApiStageArtifact
<1>4. CASE \E mode \in Modes : ApiCreate(s, mode) \/ ApiCreateReplyLost(s, mode)
  <2>1. PICK mode \in Modes : ApiCreate(s, mode) \/ ApiCreateReplyLost(s, mode)
    BY <1>4
  <2>2. QueueInv' /\ \A w \in Workers : KeepsClaims(w)
    BY <1>1, <2>1, CreateInv, CreateKeepsClaims DEF ApiCreate, ApiCreateReplyLost
  <2>3. /\ api' \in [Submissions -> ApiRecord]
        /\ \A t \in Submissions : api'[t].pc \in {"created", "promoted"} => api'[t].job \in Jobs
    BY <1>1, <2>1 DEF ApiCreate, ApiCreateReplyLost, CreateSolutionSubmissionWithJob, ApiRecord
  <2> QED
    BY <1>1, <2>1, <2>2, <2>3, HandlerFrame DEF ApiCreate, ApiCreateReplyLost
<1>5. CASE ApiCreateFails(s)
  BY <1>1, <1>2, <1>5, UnchangedQueueInv, UnchangedKeepsClaims, HandlerFrame DEF ApiCreateFails
<1>6. CASE ApiPromote(s)
  <2>1. artifact' \in [Submissions -> ArtifactPlaces]
    BY <1>1, <1>6 DEF ApiPromote, ArtifactPlaces
  <2>2. /\ api' \in [Submissions -> ApiRecord]
        /\ \A t \in Submissions : api'[t].pc \in {"created", "promoted"} => api'[t].job \in Jobs
    BY <1>1, <1>6 DEF ApiPromote, ApiRecord
  <2> QED
    BY <1>1, <1>6, <2>1, <2>2, UnchangedQueueInv, UnchangedKeepsClaims, HandlerFrame DEF ApiPromote
<1>7. CASE ApiPromoteFails(s)
  <2>1. artifact' \in [Submissions -> ArtifactPlaces]
    BY <1>1, <1>7 DEF ApiPromoteFails, ArtifactPlaces
  <2> QED
    BY <1>1, <1>2, <1>7, <2>1, UnchangedQueueInv, UnchangedKeepsClaims, HandlerFrame DEF ApiPromoteFails
<1>8. CASE ApiReady(s) \/ ApiReadyReplyLost(s)
  <2>1. api[s].job \in Jobs /\ MarkEvaluationJobReady(api[s].job)
    BY <1>1, <1>8 DEF ApiReady, ApiReadyReplyLost
  <2>2. QueueInv' /\ \A w \in Workers : KeepsClaims(w)
    BY <1>1, <2>1, ReadyInv, ReadyKeepsClaims
  <2> QED
    BY <1>1, <1>2, <1>8, <2>2, HandlerFrame DEF ApiReady, ApiReadyReplyLost
<1>9. CASE ApiReadyFails(s)
  BY <1>1, <1>2, <1>9, UnchangedQueueInv, UnchangedKeepsClaims, HandlerFrame DEF ApiReadyFails
<1>10. CASE ApiDeleteRow(s)
  <2>1. QueueInv' /\ \A w \in Workers : KeepsClaims(w)
    BY <1>1, <1>10, DeleteInv, DeleteKeepsClaims, UnchangedQueueInv, UnchangedKeepsClaims DEF ApiDeleteRow
  <2> QED
    BY <1>1, <1>2, <1>10, <2>1, HandlerFrame DEF ApiDeleteRow
<1>11. CASE ApiDeleteArtifact(s)
  <2>1. artifact' \in [Submissions -> ArtifactPlaces]
    BY <1>1, <1>11 DEF ApiDeleteArtifact, ArtifactPlaces
  <2> QED
    BY <1>1, <1>2, <1>11, <2>1, UnchangedQueueInv, UnchangedKeepsClaims, HandlerFrame DEF ApiDeleteArtifact
<1>12. CASE ApiStops(s)
  BY <1>1, <1>2, <1>12, UnchangedQueueInv, UnchangedKeepsClaims, HandlerFrame DEF ApiStops
<1>13. CASE AdminQueue(s)
  <2>1. QueueInv' /\ \A w \in Workers : KeepsClaims(w)
    BY <1>1, <1>13, QueueJobInv, QueueJobKeepsClaims DEF AdminQueue
  <2> QED
    BY <1>1, <1>13, <2>1, HandlerFrame DEF AdminQueue
<1> QED
  BY <1>3, <1>4, <1>5, <1>6, <1>7, <1>8, <1>9, <1>10, <1>11, <1>12, <1>13 DEF ApiStep

LEMMA WorkerStepInv ==
  ASSUME Inv, NEW w \in Workers, WorkerStep(w) \/ WorkerDies(w)
  PROVE  Inv'
<1>1. /\ QueueInv
      /\ worker \in [Workers -> WorkerRecord]
      /\ worker[w] \in WorkerRecord
      /\ worker[w].pc \in {"claimed", "started", "executing"} => worker[w].job \in Jobs
      /\ OwnsEvaluation(w)
  BY DEF Inv, TypeOK, HoldersHaveJobs, ClaimOwnsEvaluation
<1>2. CASE WorkerReap(w)
  <2> DEFINE r == [worker[w] EXCEPT !.pc = "maintained"]
  <2>1. QueueInv' /\ \A v \in Workers : KeepsClaims(v)
    BY <1>1, <1>2, ReapInv, ReapKeepsClaims DEF WorkerReap
  <2>2. r \in WorkerRecord /\ r.pc = "maintained" /\ worker' = [worker EXCEPT ![w] = r]
    BY <1>1, <1>2 DEF WorkerReap, WorkerRecord
  <2> HIDE DEF r
  <2> QED
    BY <1>2, <2>1, <2>2, WorkerFrame DEF WorkerReap
<1>3. CASE WorkerClaim(w)
  <2>1. PICK j \in Jobs : /\ ClaimNextEvaluationJob(w, j)
                          /\ worker' = [worker EXCEPT ![w] = [IdleWorker EXCEPT !.pc = "claimed", !.job = j,
                                                                               !.attempt = job[j].attempt + 1]]
    BY <1>3 DEF WorkerClaim
  <2>2. job[j].attempt \in Nat
    BY <1>1 DEF QueueInv, QueueTypeOK, JobRecord
  <2> DEFINE r == [IdleWorker EXCEPT !.pc = "claimed", !.job = j, !.attempt = job[j].attempt + 1]
  <2>3. r \in WorkerRecord /\ r.pc = "claimed" /\ r.job = j
    <3>1. \A n \in Nat : [IdleWorker EXCEPT !.pc = "claimed", !.job = j, !.attempt = n] \in WorkerRecord
      BY DEF WorkerRecord, IdleWorker
    <3>2. job[j].attempt + 1 \in Nat
      BY <2>2
    <3> QED
      BY <3>1, <3>2 DEF IdleWorker
  <2>4. worker' = [worker EXCEPT ![w] = r]
    BY <2>1
  <2> HIDE DEF r
  <2>5. QueueInv' /\ \A v \in Workers \ {w} : KeepsClaims(v)
    BY <1>1, <2>1, ClaimInv, ClaimKeepsClaims
  <2>6. evaluation'[j].status = "absent"
    BY <1>1, <2>1 DEF ClaimNextEvaluationJob, Claimable, QueueInv, EvaluationFollowsJob
  <2>7. OwnsEvaluation(w)'
    BY <1>1, <2>3, <2>4, <2>6 DEF OwnsEvaluation
  <2> QED
    BY <1>3, <2>3, <2>4, <2>5, <2>7, WorkerFrame DEF WorkerClaim
<1>4. CASE WorkerFindsNothing(w) \/ WorkerErrs(w) \/ WorkerDies(w)
  BY <1>1, <1>4, UnchangedQueueInv, UnchangedKeepsClaims, WorkerLeaves
     DEF WorkerFindsNothing, WorkerErrs, WorkerDies
<1>5. CASE WorkerStart(w)
  <2>1. CASE CanMarkStarted(w, worker[w].job, worker[w].attempt)
    <3> DEFINE r == [worker[w] EXCEPT !.pc = "started"]
    <3>1. /\ worker[w].job \in Jobs
          /\ MarkEvaluationStarted(w, worker[w].job, worker[w].attempt)
          /\ worker' = [worker EXCEPT ![w] = r]
      BY <1>1, <1>5, <2>1 DEF WorkerStart
    <3>2. QueueInv' /\ \A v \in Workers \ {w} : KeepsClaims(v)
      BY <1>1, <3>1, StartInv, StartKeepsClaims
    <3>3. r \in WorkerRecord /\ r.pc = "started" /\ r.job = worker[w].job
      BY <1>1 DEF WorkerRecord
    <3>4. evaluation'[worker[w].job].status = "running"
      BY <1>1, <3>1 DEF MarkEvaluationStarted, QueueInv, QueueTypeOK
    <3> HIDE DEF r
    <3>5. OwnsEvaluation(w)'
      BY <1>1, <3>1, <3>3, <3>4 DEF OwnsEvaluation
    <3> QED
      BY <1>5, <3>1, <3>2, <3>3, <3>5, WorkerFrame DEF WorkerStart
  <2>2. CASE ~CanMarkStarted(w, worker[w].job, worker[w].attempt)
    BY <1>1, <1>5, <2>2, UnchangedQueueInv, UnchangedKeepsClaims, WorkerLeaves DEF WorkerStart
  <2> QED
    BY <2>1, <2>2
<1>6. CASE WorkerExecute(w)
  <2>1. PICK found \in BOOLEAN :
          worker' = [worker EXCEPT ![w].pc = "executing", ![w].leasing = TRUE, ![w].loaded = found]
    BY <1>6 DEF WorkerExecute
  <2> DEFINE r == [worker[w] EXCEPT !.pc = "executing", !.leasing = TRUE, !.loaded = found]
  <2>2. worker' = [worker EXCEPT ![w] = r]
    BY <1>1, <2>1
  <2>3. /\ r \in WorkerRecord /\ r.pc = "executing"
        /\ r.job = worker[w].job /\ r.attempt = worker[w].attempt
    BY <1>1 DEF WorkerRecord
  <2> HIDE DEF r
  <2>4. worker[w].pc = "started" /\ UNCHANGED queueVars /\ UNCHANGED <<artifact, api>>
    BY <1>6 DEF WorkerExecute
  <2>5. OwnsEvaluation(w)'
    BY <1>1, <2>2, <2>3, <2>4 DEF OwnsEvaluation, ClaimMatches, queueVars
  <2> QED
    BY <1>1, <2>2, <2>3, <2>4, <2>5, UnchangedQueueInv, UnchangedKeepsClaims, WorkerFrame
<1>7. CASE WorkerRefresh(w)
  <2>0. worker[w].job \in Jobs /\ UNCHANGED <<artifact, api>>
    BY <1>1, <1>7 DEF WorkerRefresh
  <2>1. CASE ClaimMatches(worker[w].job, w, worker[w].attempt)
    <3>1. RefreshEvaluationJobClaim(w, worker[w].job, worker[w].attempt) /\ worker' = worker
      BY <1>7, <2>1 DEF WorkerRefresh
    <3>2. QueueInv' /\ \A v \in Workers : KeepsClaims(v)
      BY <1>1, <2>0, <3>1, TimestampInv, TimestampKeepsClaims
    <3> QED
      BY <2>0, <3>1, <3>2, HandlerFrame DEF Inv, TypeOK, HoldersHaveJobs
  <2>2. CASE ~ClaimMatches(worker[w].job, w, worker[w].attempt)
    <3> DEFINE r == [worker[w] EXCEPT !.leasing = FALSE]
    <3>1. worker' = [worker EXCEPT ![w] = r] /\ UNCHANGED queueVars
      BY <1>1, <1>7, <2>2 DEF WorkerRefresh
    <3>2. /\ r \in WorkerRecord /\ r.pc = worker[w].pc
          /\ r.job = worker[w].job /\ r.attempt = worker[w].attempt
      BY <1>1 DEF WorkerRecord
    <3> HIDE DEF r
    <3>3. OwnsEvaluation(w)'
      BY <1>1, <3>1, <3>2 DEF OwnsEvaluation, ClaimMatches, queueVars
    <3> QED
      BY <1>1, <2>0, <3>1, <3>2, <3>3, UnchangedQueueInv, UnchangedKeepsClaims, WorkerFrame
  <2> QED
    BY <2>1, <2>2
<1>8. ASSUME NEW status \in TerminalStatuses, NEW score \in Nat, worker[w].job \in Jobs,
             WorkerFinish(w, status, score)
      PROVE  Inv'
  <2>1. QueueInv' /\ \A v \in Workers : KeepsClaims(v)
    <3>1. CASE CanMarkFinished(w, worker[w].job, worker[w].attempt)
      BY <1>1, <1>8, <3>1, FinishInv, FinishKeepsClaims DEF WorkerFinish
    <3>2. CASE ~CanMarkFinished(w, worker[w].job, worker[w].attempt)
      BY <1>1, <1>8, <3>2, UnchangedQueueInv, UnchangedKeepsClaims DEF WorkerFinish
    <3> QED
      BY <3>1, <3>2
  <2> QED
    BY <1>8, <2>1, WorkerLeaves DEF WorkerFinish
<1>9. CASE WorkerCompletes(w)
  BY <1>1, <1>8, <1>9, ScoresAssumption DEF WorkerCompletes, TerminalStatuses
<1>10. CASE WorkerFails(w)
  BY <1>1, <1>8, <1>10 DEF WorkerFails, TerminalStatuses
<1>11. CASE WorkerRequeues(w)
  <2>1. QueueInv' /\ \A v \in Workers : KeepsClaims(v)
    BY <1>1, <1>11, RequeueInv, RequeueKeepsClaims, UnchangedQueueInv, UnchangedKeepsClaims DEF WorkerRequeues
  <2> QED
    BY <1>11, <2>1, WorkerLeaves DEF WorkerRequeues
<1> QED
  BY <1>2, <1>3, <1>4, <1>5, <1>6, <1>7, <1>9, <1>10, <1>11 DEF WorkerStep

LEMMA TimeInv ==
  ASSUME Inv, NEW j \in Jobs, TimePasses(j)
  PROVE  Inv'
<1>1. QueueInv' /\ \A w \in Workers : KeepsClaims(w)
  BY TimestampInv, TimestampKeepsClaims DEF Inv, TimePasses
<1> QED
  BY <1>1, HandlerFrame DEF Inv, TypeOK, HoldersHaveJobs, TimePasses

LEMMA NextInv == Inv /\ [Next]_vars => Inv'
<1> SUFFICES ASSUME Inv, [Next]_vars PROVE Inv'
  OBVIOUS
<1>1. CASE UNCHANGED vars
  <2>1. QueueInv'
    BY <1>1, UnchangedQueueInv DEF Inv, vars, queueVars
  <2>2. \A w \in Workers : KeepsClaims(w)
    BY <1>1, UnchangedKeepsClaims DEF vars, queueVars
  <2> QED
    BY <1>1, <2>1, <2>2, HandlerFrame DEF Inv, TypeOK, HoldersHaveJobs, vars
<1>2. CASE \E s \in Submissions : ApiStep(s) \/ ApiStops(s) \/ AdminQueue(s)
  BY <1>2, ApiStepInv
<1>3. CASE \E w \in Workers : WorkerStep(w) \/ WorkerDies(w)
  BY <1>3, WorkerStepInv
<1>4. CASE \E j \in Jobs : TimePasses(j)
  BY <1>4, TimeInv
<1> QED
  BY <1>1, <1>2, <1>3, <1>4 DEF Next

-----------------------------------------------------------------------------
\* The inductive invariant holds in every reachable state.
THEOREM Invariance == Spec => []Inv
  BY InitInv, NextInv, PTL DEF Spec

\* Every table row and every process keeps its type.
THEOREM TypeCorrectness == Spec => []TypeOK
<1>1. Inv => TypeOK
  BY DEF Inv
<1> QED
  BY <1>1, Invariance, PTL

\* A submission is public exactly while it has a completed official evaluation.
THEOREM PublicationSafety == Spec => []VisibleIffOfficialResult
<1>1. Inv => VisibleIffOfficialResult
  BY DEF Inv, QueueInv
<1> QED
  BY <1>1, Invariance, PTL

\* A worker's claim, as long as the row carries it, has the evaluation the worker
\* left: the fencing by (worker_id, attempt_count) is sound although a capacity
\* requeue gives attempt numbers back.
THEOREM FencingSafety == Spec => []ClaimOwnsEvaluation
<1>1. Inv => ClaimOwnsEvaluation
  BY DEF Inv
<1> QED
  BY <1>1, Invariance, PTL

\* A submission never has two staged, queued or running jobs.
THEOREM SingleActiveJob == Spec => []OneActiveJobPerSubmission
<1>1. Inv => OneActiveJobPerSubmission
  BY DEF Inv, QueueInv
<1> QED
  BY <1>1, Invariance, PTL

\* No queued job is out of attempts, where neither a worker nor the reaper would
\* ever touch it again.
THEOREM NoStrandedJob == Spec => []QueuedJobHasAttemptLeft
<1>1. Inv => QueuedJobHasAttemptLeft
  BY DEF Inv, QueueInv
<1> QED
  BY <1>1, Invariance, PTL

\* A submission's status is the one its active job gives it, or final.
THEOREM StatusSafety == Spec => []StatusFollowsJob
<1>1. Inv => StatusFollowsJob
  BY DEF Inv, QueueInv
<1> QED
  BY <1>1, Invariance, PTL

\* A leaderboard row always shows a completed official evaluation of a public
\* submission of its scope.
THEOREM LeaderboardSafety == Spec => []EntryShowsOfficialResult
<1>1. Inv => EntryShowsOfficialResult
  BY DEF Inv, QueueInv
<1> QED
  BY <1>1, Invariance, PTL

-----------------------------------------------------------------------------
(* Each transaction is a step of the abstract claims, or none.                 *)

\* A job that waits carries nobody's claim: the columns are cleared whenever a
\* job returns to the queue.
WaitingIsUnclaimed ==
    \A j \in Jobs : job[j].status \in {"staged", "queued"} => job[j].worker = NoWorker

\* What a transaction owes: an abstract step or none, and the columns cleared.
Simulates == [Claims!ClaimsNext]_ClaimView /\ WaitingIsUnclaimed'

-----------------------------------------------------------------------------
\* The abstract claim of a row, case by case.
LEMMA ClaimOfFacts ==
  ASSUME NEW row
  PROVE  /\ row.status \in {"absent", "staged"} => ClaimOf(row) = Claims!Unclaimed("idle", 0)
         /\ row.status = "queued" /\ row.worker = NoWorker
               => ClaimOf(row) = Claims!Unclaimed("queued", row.attempt)
         /\ row.status = "running"
               => ClaimOf(row) = [status |-> "running", worker |-> row.worker,
                                  attempt |-> row.attempt, fresh |-> row.fresh]
         /\ row.status \in TerminalStatuses \cup {"deleted"}
               => ClaimOf(row) = Claims!Unclaimed("done", 0)
<1>1. CASE row.status \in {"absent", "staged"}
  BY <1>1 DEF ClaimOf, Claims!Unclaimed, TerminalStatuses
<1>2. CASE row.status = "queued"
  BY <1>2 DEF ClaimOf, Claims!Unclaimed, TerminalStatuses
<1>3. CASE row.status = "running"
  BY <1>3 DEF ClaimOf, TerminalStatuses
<1>4. CASE row.status \in TerminalStatuses \cup {"deleted"}
  BY <1>4 DEF ClaimOf, Claims!Unclaimed, TerminalStatuses
<1> QED
  BY <1>1, <1>2, <1>3, <1>4 DEF TerminalStatuses

LEMMA ViewIsClaim == \A j \in Jobs : ClaimView[j] = ClaimOf(job[j]) /\ ClaimView'[j] = ClaimOf(job'[j])
  BY DEF ClaimView

\* The view is a function on the jobs, so it changes as its values do.
LEMMA ViewChanges ==
  ASSUME NEW j \in Jobs, NEW c, ClaimOf(job'[j]) = c,
         \A k \in Jobs : k # j => ClaimOf(job'[k]) = ClaimOf(job[k])
  PROVE  ClaimView' = [ClaimView EXCEPT ![j] = c]
  BY DEF ClaimView

LEMMA ViewStays ==
  ASSUME \A k \in Jobs : ClaimOf(job'[k]) = ClaimOf(job[k])
  PROVE  ClaimView' = ClaimView
  BY DEF ClaimView

LEMMA UnchangedSimulates ==
  ASSUME WaitingIsUnclaimed, UNCHANGED job
  PROVE  Simulates
  BY DEF Simulates, ClaimView, WaitingIsUnclaimed

\* The holder of a row is the holder of its abstract claim.
LEMMA HolderHolds ==
  ASSUME QueueInv, NEW w, NEW j \in Jobs, NEW attempt, ClaimMatches(j, w, attempt)
  PROVE  Claims!Holds(w, j, attempt) /\ attempt \in 1..MaxAttempts
<1>1. ClaimView[j] = [status |-> "running", worker |-> w, attempt |-> attempt, fresh |-> job[j].fresh]
  BY ClaimOfFacts, ViewIsClaim DEF ClaimMatches
<1>2. attempt \in 1..MaxAttempts
  BY DEF ClaimMatches, QueueInv, AttemptsWithinBudget
<1> QED
  BY <1>1, <1>2 DEF Claims!Holds

-----------------------------------------------------------------------------
(* The transactions.                                                          *)

LEMMA InitSimulates == Init => Claims!ClaimsInit /\ WaitingIsUnclaimed
<1> SUFFICES ASSUME Init PROVE Claims!ClaimsInit /\ WaitingIsUnclaimed
  OBVIOUS
<1>1. \A j \in Jobs : job[j] = AbsentJob
  BY DEF Init, QueueInit
<1>2. \A j \in Jobs : ClaimOf(job[j]) = Claims!Unclaimed("idle", 0)
  BY <1>1, ClaimOfFacts DEF AbsentJob
<1>3. ClaimView = [j \in Jobs |-> Claims!Unclaimed("idle", 0)]
  BY <1>2 DEF ClaimView
<1>4. WaitingIsUnclaimed
  BY <1>1 DEF WaitingIsUnclaimed, AbsentJob
<1> QED
  BY <1>3, <1>4 DEF Claims!ClaimsInit

\* A staged job is not offered to the workers.
LEMMA CreateSimulates ==
  ASSUME QueueInv, WaitingIsUnclaimed, NEW s, NEW mode, CreateSolutionSubmissionWithJob(s, mode)
  PROVE  Simulates
<1>1. /\ nextJob \in Jobs /\ job[nextJob].status = "absent"
      /\ job'[nextJob].status = "staged" /\ job'[nextJob].worker = NoWorker
      /\ \A j \in Jobs : j # nextJob => job'[j] = job[j]
  BY DEF CreateSolutionSubmissionWithJob, QueueInv, QueueTypeOK, JobsAllocated, AbsentJob, Jobs
<1>2. \A j \in Jobs : ClaimOf(job'[j]) = ClaimOf(job[j])
  BY <1>1, ClaimOfFacts
<1> QED
  BY <1>1, <1>2, ViewStays DEF Simulates, WaitingIsUnclaimed

LEMMA OfferSimulates ==
  ASSUME WaitingIsUnclaimed, NEW j \in Jobs,
         job[j].status \in {"absent", "staged"},
         job'[j].status = "queued", job'[j].worker = NoWorker, job'[j].attempt = 0,
         \A k \in Jobs : k # j => job'[k] = job[k]
  PROVE  Simulates
<1>1. ClaimOf(job'[j]) = Claims!Unclaimed("queued", 0)
  BY ClaimOfFacts
<1>2. ClaimView' = [ClaimView EXCEPT ![j] = Claims!Unclaimed("queued", 0)]
  BY <1>1, ViewChanges
<1>3. ClaimView[j].status = "idle"
  BY ClaimOfFacts, ViewIsClaim DEF Claims!Unclaimed
<1>4. Claims!ClaimsNext
  BY <1>2, <1>3 DEF Claims!Offer, Claims!ClaimsNext
<1> QED
  BY <1>4 DEF Simulates, WaitingIsUnclaimed

LEMMA ReadySimulates ==
  ASSUME QueueInv, WaitingIsUnclaimed, NEW j \in Jobs, MarkEvaluationJobReady(j)
  PROVE  Simulates
<1>1. /\ job[j].status = "staged" /\ job[j].attempt = 0 /\ job[j].worker = NoWorker
  BY DEF MarkEvaluationJobReady, QueueInv, AttemptsWithinBudget, WaitingIsUnclaimed
<1>2. /\ job'[j].status = "queued"
      /\ job'[j].worker = job[j].worker /\ job'[j].attempt = job[j].attempt
      /\ \A k \in Jobs : k # j => job'[k] = job[k]
  BY DEF MarkEvaluationJobReady, QueueInv, QueueTypeOK, JobRecord
<1> QED
  BY <1>1, <1>2, OfferSimulates

LEMMA QueueJobSimulates ==
  ASSUME QueueInv, WaitingIsUnclaimed, NEW s, QueueEvaluationJob(s)
  PROVE  Simulates
<1>1. /\ nextJob \in Jobs /\ job[nextJob].status = "absent"
      /\ job'[nextJob].status = "queued" /\ job'[nextJob].worker = NoWorker
      /\ job'[nextJob].attempt = 0
      /\ \A j \in Jobs : j # nextJob => job'[j] = job[j]
  BY DEF QueueEvaluationJob, QueueInv, QueueTypeOK, JobsAllocated, AbsentJob, Jobs
<1> QED
  BY <1>1, OfferSimulates

LEMMA DeleteSimulates ==
  ASSUME QueueInv, WaitingIsUnclaimed, NEW s, DeleteSolutionSubmission(s)
  PROVE  Simulates
<1> DEFINE gone == {j \in Jobs : job[j].sub = s}
<1>1. \A j \in Jobs : IF j \in gone THEN job'[j].status = "deleted" ELSE job'[j] = job[j]
  BY DEF DeleteSolutionSubmission, AbsentJob
<1>2. \A j \in gone : ClaimOf(job'[j]) = Claims!Unclaimed("done", 0)
  BY <1>1, ClaimOfFacts
<1>3. ClaimView' = [j \in Jobs |-> IF j \in gone THEN Claims!Unclaimed("done", 0) ELSE ClaimView[j]]
  BY <1>1, <1>2 DEF ClaimView
<1>4. Claims!Withdraw(gone)
  BY <1>3 DEF Claims!Withdraw
<1>5. Claims!ClaimsNext
  BY <1>4 DEF Claims!ClaimsNext
<1> QED
  BY <1>1, <1>5 DEF Simulates, WaitingIsUnclaimed

LEMMA ClaimSimulates ==
  ASSUME QueueInv, WaitingIsUnclaimed, NEW w \in Workers, NEW j \in Jobs, ClaimNextEvaluationJob(w, j)
  PROVE  Simulates
<1>1. /\ job[j].status = "queued" /\ job[j].attempt < MaxAttempts /\ job[j].worker = NoWorker
  BY DEF ClaimNextEvaluationJob, Claimable, WaitingIsUnclaimed
<1>2. /\ job'[j].status = "running" /\ job'[j].worker = w
      /\ job'[j].attempt = job[j].attempt + 1 /\ job'[j].fresh = TRUE
      /\ \A k \in Jobs : k # j => job'[k] = job[k]
  BY DEF ClaimNextEvaluationJob, QueueInv, QueueTypeOK, JobRecord
<1>3. ClaimView[j] = Claims!Unclaimed("queued", job[j].attempt)
  BY <1>1, ClaimOfFacts, ViewIsClaim
<1>4. ClaimView' = [ClaimView EXCEPT ![j] = [status |-> "running", worker |-> w,
                                             attempt |-> job[j].attempt + 1, fresh |-> TRUE]]
  BY <1>2, ClaimOfFacts, ViewChanges
<1>5. Claims!Claim(w, j)
  BY <1>1, <1>3, <1>4 DEF Claims!Claim, Claims!Unclaimed
<1>6. Claims!ClaimsNext
  BY <1>5 DEF Claims!ClaimsNext
<1> QED
  BY <1>2, <1>6 DEF Simulates, WaitingIsUnclaimed

LEMMA RefreshSimulates ==
  ASSUME QueueInv, WaitingIsUnclaimed, NEW w \in Workers, NEW j \in Jobs, NEW attempt,
         RefreshEvaluationJobClaim(w, j, attempt)
  PROVE  Simulates
<1>1. Claims!Holds(w, j, attempt) /\ attempt \in 1..MaxAttempts
  BY HolderHolds DEF RefreshEvaluationJobClaim
<1>2. /\ job[j].status = "running"
      /\ job' = [job EXCEPT ![j].fresh = TRUE]
  BY DEF RefreshEvaluationJobClaim, ClaimMatches
<1>3. /\ job'[j].status = "running" /\ job'[j].worker = job[j].worker
      /\ job'[j].attempt = job[j].attempt /\ job'[j].fresh = TRUE
      /\ \A k \in Jobs : k # j => job'[k] = job[k]
  BY <1>2 DEF QueueInv, QueueTypeOK, JobRecord
<1>4. ClaimView[j] = [status |-> "running", worker |-> job[j].worker,
                      attempt |-> job[j].attempt, fresh |-> job[j].fresh]
  BY <1>2, ClaimOfFacts, ViewIsClaim
<1>5. ClaimView' = [ClaimView EXCEPT ![j] = [status |-> "running", worker |-> job[j].worker,
                                             attempt |-> job[j].attempt, fresh |-> TRUE]]
  BY <1>3, ClaimOfFacts, ViewChanges
<1>6. Claims!Refresh(w, j, attempt)
  <2>0. PICK before, after : before = job[j].fresh /\ after = TRUE
    OBVIOUS
  <2>1. [ClaimView[j] EXCEPT !.fresh = TRUE] = [status |-> "running", worker |-> job[j].worker,
                                                attempt |-> job[j].attempt, fresh |-> TRUE]
    <3>1. ClaimView[j] = [status |-> "running", worker |-> job[j].worker,
                          attempt |-> job[j].attempt, fresh |-> before]
      BY <1>4, <2>0
    <3>2. [ClaimView[j] EXCEPT !.fresh = after] = [status |-> "running", worker |-> job[j].worker,
                                                   attempt |-> job[j].attempt, fresh |-> after]
      BY <3>1
    <3> QED
      BY <2>0, <3>2
  <2>2. ClaimView' = [ClaimView EXCEPT ![j] = [ClaimView[j] EXCEPT !.fresh = TRUE]]
    BY <1>5, <2>1
  <2>3. ClaimView' = [ClaimView EXCEPT ![j].fresh = TRUE]
    BY <2>2
  <2> QED
    BY <1>1, <2>3 DEF Claims!Refresh
<1>7. Claims!ClaimsNext
  BY <1>1, <1>6 DEF Claims!ClaimsNext
<1> QED
  BY <1>3, <1>7 DEF Simulates, WaitingIsUnclaimed

LEMMA FinishSimulates ==
  ASSUME QueueInv, WaitingIsUnclaimed, NEW w \in Workers, NEW j \in Jobs, NEW attempt,
         NEW status \in TerminalStatuses, NEW score, MarkEvaluationFinished(w, j, attempt, status, score)
  PROVE  Simulates
<1>1. Claims!Holds(w, j, attempt) /\ attempt \in 1..MaxAttempts
  BY HolderHolds DEF MarkEvaluationFinished, CanMarkFinished
<1>2. job'[j].status = status /\ \A k \in Jobs : k # j => job'[k] = job[k]
  BY DEF MarkEvaluationFinished, QueueInv, QueueTypeOK, JobRecord
<1>3. ClaimView' = [ClaimView EXCEPT ![j] = Claims!Unclaimed("done", 0)]
  BY <1>2, ClaimOfFacts, ViewChanges
<1>4. Claims!Settle(w, j, attempt)
  BY <1>1, <1>3 DEF Claims!Settle
<1>5. Claims!ClaimsNext
  BY <1>1, <1>4 DEF Claims!ClaimsNext
<1> QED
  BY <1>2, <1>5 DEF Simulates, WaitingIsUnclaimed, TerminalStatuses

LEMMA RequeueSimulates ==
  ASSUME QueueInv, WaitingIsUnclaimed, NEW w \in Workers, NEW j \in Jobs, NEW attempt,
         RequeueForCapacity(w, j, attempt)
  PROVE  Simulates
<1>1. Claims!Holds(w, j, attempt) /\ attempt \in 1..MaxAttempts /\ job[j].attempt = attempt
  BY HolderHolds DEF RequeueForCapacity, ClaimMatches
<1>2. /\ job'[j].status = "queued" /\ job'[j].worker = NoWorker
      /\ job'[j].attempt = attempt - 1
      /\ \A k \in Jobs : k # j => job'[k] = job[k]
  BY <1>1, BoundsAssumption DEF RequeueForCapacity, QueueInv, QueueTypeOK, JobRecord
<1>3. ClaimView' = [ClaimView EXCEPT ![j] = Claims!Unclaimed("queued", attempt - 1)]
  BY <1>2, ClaimOfFacts, ViewChanges
<1>4. Claims!GiveBack(w, j, attempt)
  BY <1>1, <1>3 DEF Claims!GiveBack
<1>5. Claims!ClaimsNext
  BY <1>1, <1>4 DEF Claims!ClaimsNext
<1> QED
  BY <1>2, <1>5 DEF Simulates, WaitingIsUnclaimed

\* A stale claim lapses; a stale staged job was never offered.
LEMMA ExpiresSimulates ==
  ASSUME QueueInv, WaitingIsUnclaimed, NEW j \in Jobs, Expires(j)
  PROVE  Simulates
<1>1. /\ job[j].status \in {"staged", "running"} /\ job[j].fresh
      /\ job'[j].status = job[j].status /\ job'[j].worker = job[j].worker
      /\ job'[j].attempt = job[j].attempt /\ job'[j].fresh = FALSE
      /\ \A k \in Jobs : k # j => job'[k] = job[k]
  BY DEF Expires, QueueInv, QueueTypeOK, JobRecord
<1>2. WaitingIsUnclaimed'
  BY <1>1 DEF WaitingIsUnclaimed
<1>3. CASE job[j].status = "staged"
  <2>1. ClaimOf(job'[j]) = ClaimOf(job[j])
    BY <1>1, <1>3, ClaimOfFacts
  <2> QED
    BY <1>1, <1>2, <2>1, ViewStays DEF Simulates
<1>4. CASE job[j].status = "running"
  <2>1. ClaimView[j] = [status |-> "running", worker |-> job[j].worker,
                        attempt |-> job[j].attempt, fresh |-> job[j].fresh]
    BY <1>4, ClaimOfFacts, ViewIsClaim
  <2>2. ClaimView' = [ClaimView EXCEPT ![j] = [status |-> "running", worker |-> job[j].worker,
                                               attempt |-> job[j].attempt, fresh |-> FALSE]]
    BY <1>1, <1>4, ClaimOfFacts, ViewChanges
  <2>3. Claims!Lapse(j)
    <3>0. PICK before, after : before = job[j].fresh /\ after = FALSE
      OBVIOUS
    <3>1. [ClaimView[j] EXCEPT !.fresh = FALSE] = [status |-> "running", worker |-> job[j].worker,
                                                   attempt |-> job[j].attempt, fresh |-> FALSE]
      <4>1. ClaimView[j] = [status |-> "running", worker |-> job[j].worker,
                            attempt |-> job[j].attempt, fresh |-> before]
        BY <2>1, <3>0
      <4>2. [ClaimView[j] EXCEPT !.fresh = after] = [status |-> "running", worker |-> job[j].worker,
                                                     attempt |-> job[j].attempt, fresh |-> after]
        BY <4>1
      <4> QED
        BY <3>0, <4>2
    <3>3. ClaimView' = [ClaimView EXCEPT ![j] = [ClaimView[j] EXCEPT !.fresh = FALSE]]
      BY <2>2, <3>1
    <3>4. ClaimView' = [ClaimView EXCEPT ![j].fresh = FALSE]
      BY <3>3
    <3>2. ClaimView[j].status = "running" /\ ClaimView[j].fresh
      BY <1>1, <2>1
    <3> QED
      BY <3>2, <3>4 DEF Claims!Lapse
  <2>4. Claims!ClaimsNext
    BY <2>3 DEF Claims!ClaimsNext
  <2> QED
    BY <1>2, <2>4 DEF Simulates
<1> QED
  BY <1>1, <1>3, <1>4

LEMMA ComesDueSimulates ==
  ASSUME QueueInv, WaitingIsUnclaimed, NEW j \in Jobs, ComesDue(j)
  PROVE  Simulates
<1>1. /\ job[j].status = "queued" /\ job'[j].status = "queued"
      /\ job'[j].worker = job[j].worker /\ job'[j].attempt = job[j].attempt
      /\ \A k \in Jobs : k # j => job'[k] = job[k]
  BY DEF ComesDue, QueueInv, QueueTypeOK, JobRecord
<1>2. ClaimOf(job'[j]) = ClaimOf(job[j])
  BY <1>1, ClaimOfFacts DEF WaitingIsUnclaimed
<1> QED
  BY <1>1, <1>2, ViewStays DEF Simulates, WaitingIsUnclaimed

\* The reaper takes every lapsed claim away, and gives up the stale staged jobs.
LEMMA ReapSimulates ==
  ASSUME QueueInv, WaitingIsUnclaimed, ReapStuckJobs
  PROVE  Simulates
<1>1. \A j \in Jobs : job'[j] = ReapedJob(j) /\ job[j] \in JobRecord
  BY DEF ReapStuckJobs, QueueInv, QueueTypeOK
<1>2. \A j \in StaleRetriable : /\ job'[j].status = "queued" /\ job'[j].worker = NoWorker
                                /\ job'[j].attempt = job[j].attempt
  <2> SUFFICES ASSUME NEW j \in StaleRetriable
               PROVE  /\ job'[j].status = "queued" /\ job'[j].worker = NoWorker
                      /\ job'[j].attempt = job[j].attempt
    OBVIOUS
  <2>1. j \in Jobs /\ j \notin StaleStaged \cup StaleExhausted
    BY <1>1, BoundsAssumption DEF StaleRetriable, StaleStaged, StaleExhausted, JobRecord
  <2>2. job'[j] = [job[j] EXCEPT !.status = "queued", !.worker = NoWorker, !.fresh = TRUE]
    BY <1>1, <2>1 DEF ReapedJob
  <2> QED
    BY <1>1, <2>1, <2>2 DEF JobRecord
<1>3. \A j \in StaleStaged \cup StaleExhausted : j \in Jobs /\ job'[j].status = "failed"
  BY <1>1, ReapedJobFacts DEF StaleStaged, StaleExhausted
<1>4. \A j \in Jobs : j \notin StaleStaged \cup StaleRetriable \cup StaleExhausted => job'[j] = job[j]
  BY <1>1, ReapedJobFacts
<1>5. \A j \in StaleRetriable : ClaimView'[j] = Claims!Unclaimed("queued", ClaimView[j].attempt)
  BY <1>2, ClaimOfFacts, ViewIsClaim DEF StaleRetriable
<1>6. \A j \in StaleStaged \cup StaleExhausted : ClaimView'[j] = Claims!Unclaimed("done", 0)
  BY <1>3, ClaimOfFacts, ViewIsClaim DEF TerminalStatuses
<1>7. \A j \in Jobs : j \notin StaleStaged \cup StaleRetriable \cup StaleExhausted
                      => ClaimView'[j] = ClaimView[j]
  BY <1>4, ViewIsClaim
<1>8. \A j \in StaleStaged : ClaimView[j].status = "idle"
  BY ClaimOfFacts, ViewIsClaim DEF StaleStaged, Claims!Unclaimed
<1>9. \A j \in Jobs : /\ j \in StaleRetriable <=>
                           /\ ClaimView[j].status = "running" /\ ~ClaimView[j].fresh
                           /\ ClaimView[j].attempt < MaxAttempts
                      /\ j \in StaleExhausted <=>
                           /\ ClaimView[j].status = "running" /\ ~ClaimView[j].fresh
                           /\ ~(ClaimView[j].attempt < MaxAttempts)
  <2> SUFFICES ASSUME NEW j \in Jobs
               PROVE  /\ j \in StaleRetriable <=>
                           /\ ClaimView[j].status = "running" /\ ~ClaimView[j].fresh
                           /\ ClaimView[j].attempt < MaxAttempts
                      /\ j \in StaleExhausted <=>
                           /\ ClaimView[j].status = "running" /\ ~ClaimView[j].fresh
                           /\ ~(ClaimView[j].attempt < MaxAttempts)
    OBVIOUS
  <2>1. CASE job[j].status = "running"
    BY <1>1, <2>1, ClaimOfFacts, ViewIsClaim, BoundsAssumption DEF StaleRetriable, StaleExhausted, JobRecord
  <2>2. CASE job[j].status # "running"
    <3>1. ClaimView[j].status # "running"
      BY <1>1, <2>2, ClaimOfFacts, ViewIsClaim
         DEF WaitingIsUnclaimed, JobRecord, ActiveStatuses, Claims!Unclaimed
    <3> QED
      BY <2>2, <3>1 DEF StaleRetriable, StaleExhausted
  <2> QED
    BY <2>1, <2>2
<1>10. \A j \in StaleStaged : j \notin StaleRetriable \cup StaleExhausted
  BY DEF StaleStaged, StaleRetriable, StaleExhausted
<1>11. ClaimView' = [j \in Jobs |->
                        IF j \in StaleStaged \/ (ClaimView[j].status = "running" /\ ~ClaimView[j].fresh)
                        THEN IF j \notin StaleStaged /\ ClaimView[j].attempt < MaxAttempts
                             THEN Claims!Unclaimed("queued", ClaimView[j].attempt)
                             ELSE Claims!Unclaimed("done", 0)
                        ELSE ClaimView[j]]
  <2>1. ClaimView' = [j \in Jobs |-> ClaimView'[j]]
    BY DEF ClaimView
  <2> QED
    BY <1>5, <1>6, <1>7, <1>9, <1>10, <2>1
<1>12. Claims!Reap(StaleStaged) /\ StaleStaged \in SUBSET Jobs
  BY <1>8, <1>11 DEF Claims!Reap, StaleStaged
<1>13. Claims!ClaimsNext
  BY <1>12 DEF Claims!ClaimsNext
<1>14. WaitingIsUnclaimed'
  BY <1>2, <1>3, <1>4 DEF WaitingIsUnclaimed
<1> QED
  BY <1>13, <1>14 DEF Simulates

-----------------------------------------------------------------------------
(* The handlers, the workers and time.                                        *)

\* The transactions on the job table, as the handlers, workers and the clock of
\* the lifecycle call them.
JobTransaction ==
    \/ UNCHANGED job
    \/ \E s \in Submissions, mode \in Modes : CreateSolutionSubmissionWithJob(s, mode)
    \/ \E j \in Jobs : MarkEvaluationJobReady(j) \/ Expires(j) \/ ComesDue(j)
    \/ \E s \in Submissions : DeleteSolutionSubmission(s) \/ QueueEvaluationJob(s)
    \/ \E w \in Workers, j \in Jobs : ClaimNextEvaluationJob(w, j)
    \/ \E w \in Workers, j \in Jobs, attempt \in Nat :
          \/ RefreshEvaluationJobClaim(w, j, attempt)
          \/ RequeueForCapacity(w, j, attempt)
          \/ \E status \in TerminalStatuses, score \in Nat :
                MarkEvaluationFinished(w, j, attempt, status, score)
    \/ ReapStuckJobs

LEMMA ApiTransaction ==
  ASSUME Inv, NEW s \in Submissions, ApiStep(s) \/ ApiStops(s) \/ AdminQueue(s)
  PROVE  JobTransaction
<1>0. api[s].pc \in {"created", "promoted"} => api[s].job \in Jobs
  BY DEF Inv, HoldersHaveJobs
<1>1. CASE UNCHANGED queueVars
  BY <1>1 DEF queueVars, JobTransaction
<1>2. CASE \E mode \in Modes : CreateSolutionSubmissionWithJob(s, mode)
  BY <1>2 DEF JobTransaction
<1>3. CASE api[s].pc = "promoted" /\ MarkEvaluationJobReady(api[s].job)
  BY <1>0, <1>3 DEF JobTransaction
<1>4. CASE DeleteSolutionSubmission(s) \/ QueueEvaluationJob(s)
  BY <1>4 DEF JobTransaction
<1> QED
  BY <1>1, <1>2, <1>3, <1>4
     DEF ApiStep, ApiStops, AdminQueue, ApiStageArtifact, ApiCreate, ApiCreateReplyLost, ApiCreateFails,
         ApiPromote, ApiPromoteFails, ApiReady, ApiReadyFails, ApiReadyReplyLost, ApiDeleteRow,
         ApiDeleteArtifact

\* No worker makes a job ready.
WorkerTransaction(w) ==
    \/ UNCHANGED job
    \/ ReapStuckJobs
    \/ \E j \in Jobs : ClaimNextEvaluationJob(w, j)
    \/ \E j \in Jobs, attempt \in Nat :
          \/ RefreshEvaluationJobClaim(w, j, attempt)
          \/ RequeueForCapacity(w, j, attempt)
          \/ \E status \in TerminalStatuses, score \in Nat :
                MarkEvaluationFinished(w, j, attempt, status, score)

LEMMA WorkerRunsTransaction ==
  ASSUME Inv, NEW w \in Workers, WorkerStep(w) \/ WorkerDies(w)
  PROVE  WorkerTransaction(w)
<1>0. /\ worker[w].pc \in {"claimed", "started", "executing"} => worker[w].job \in Jobs
      /\ worker[w].attempt \in Nat
  BY DEF Inv, HoldersHaveJobs, TypeOK, WorkerRecord
<1>1. CASE UNCHANGED job
  BY <1>1 DEF WorkerTransaction
<1>2. CASE ReapStuckJobs
  BY <1>2 DEF WorkerTransaction
<1>3. CASE \E j \in Jobs : ClaimNextEvaluationJob(w, j)
  BY <1>3 DEF WorkerTransaction
<1>4. CASE worker[w].pc = "executing" /\ RefreshEvaluationJobClaim(w, worker[w].job, worker[w].attempt)
  BY <1>0, <1>4 DEF WorkerTransaction
<1>5. CASE /\ worker[w].pc \in {"started", "executing"}
           /\ \E status \in TerminalStatuses, score \in Nat :
                 MarkEvaluationFinished(w, worker[w].job, worker[w].attempt, status, score)
  BY <1>0, <1>5 DEF WorkerTransaction
<1>6. CASE worker[w].pc = "executing" /\ RequeueForCapacity(w, worker[w].job, worker[w].attempt)
  BY <1>0, <1>6 DEF WorkerTransaction
<1>7. WorkerStart(w) \/ WorkerFindsNothing(w) \/ WorkerExecute(w) \/ WorkerErrs(w) \/ WorkerDies(w)
      => UNCHANGED job
  BY DEF WorkerStart, WorkerFindsNothing, WorkerExecute, WorkerErrs, WorkerDies, MarkEvaluationStarted,
         queueVars
<1>8. WorkerReap(w) => ReapStuckJobs
  BY DEF WorkerReap
<1>9. WorkerClaim(w) => \E j \in Jobs : ClaimNextEvaluationJob(w, j)
  BY DEF WorkerClaim
<1>10. WorkerRefresh(w) => \/ UNCHANGED job
                           \/ /\ worker[w].pc = "executing"
                              /\ RefreshEvaluationJobClaim(w, worker[w].job, worker[w].attempt)
  BY DEF WorkerRefresh, queueVars
<1>11. WorkerCompletes(w) \/ WorkerFails(w)
       => \/ UNCHANGED job
          \/ /\ worker[w].pc \in {"started", "executing"}
             /\ \E status \in TerminalStatuses, score \in Nat :
                   MarkEvaluationFinished(w, worker[w].job, worker[w].attempt, status, score)
  <2>1. ASSUME NEW status \in TerminalStatuses, NEW score \in Nat, WorkerFinish(w, status, score)
        PROVE  \/ UNCHANGED job
               \/ MarkEvaluationFinished(w, worker[w].job, worker[w].attempt, status, score)
    BY <2>1 DEF WorkerFinish, queueVars
  <2>2. "completed" \in TerminalStatuses /\ "failed" \in TerminalStatuses /\ 0 \in Nat
    BY DEF TerminalStatuses
  <2>3. ASSUME WorkerCompletes(w)
        PROVE  /\ worker[w].pc = "executing"
               /\ \E score \in Nat : WorkerFinish(w, "completed", score)
    BY <2>3, ScoresAssumption DEF WorkerCompletes
  <2>4. ASSUME WorkerFails(w)
        PROVE  worker[w].pc \in {"started", "executing"} /\ WorkerFinish(w, "failed", 0)
    BY <2>4 DEF WorkerFails
  <2> QED
    BY <2>1, <2>2, <2>3, <2>4
<1>12. WorkerRequeues(w) => \/ UNCHANGED job
                            \/ /\ worker[w].pc = "executing"
                               /\ RequeueForCapacity(w, worker[w].job, worker[w].attempt)
  BY DEF WorkerRequeues, queueVars
<1> QED
  BY <1>1, <1>2, <1>3, <1>4, <1>5, <1>6, <1>7, <1>8, <1>9, <1>10, <1>11, <1>12 DEF WorkerStep

LEMMA StepIsTransaction == Inv /\ [Next]_vars => JobTransaction
<1> SUFFICES ASSUME Inv, [Next]_vars PROVE JobTransaction
  OBVIOUS
<1>1. CASE UNCHANGED vars
  BY <1>1 DEF vars, JobTransaction
<1>2. CASE \E s \in Submissions : ApiStep(s) \/ ApiStops(s) \/ AdminQueue(s)
  BY <1>2, ApiTransaction
<1>3. CASE \E w \in Workers : WorkerStep(w) \/ WorkerDies(w)
  BY <1>3, WorkerRunsTransaction DEF WorkerTransaction, JobTransaction
<1>4. CASE \E j \in Jobs : TimePasses(j)
  BY <1>4 DEF TimePasses, JobTransaction
<1> QED
  BY <1>1, <1>2, <1>3, <1>4 DEF Next

LEMMA NextSimulates == Inv /\ WaitingIsUnclaimed /\ [Next]_vars => Simulates
<1> SUFFICES ASSUME Inv, WaitingIsUnclaimed, JobTransaction PROVE Simulates
  BY StepIsTransaction
<1>1. QueueInv
  BY DEF Inv
<1> QED
  BY <1>1, UnchangedSimulates, CreateSimulates, ReadySimulates, ExpiresSimulates, ComesDueSimulates,
     DeleteSimulates, QueueJobSimulates, ClaimSimulates, RefreshSimulates, RequeueSimulates,
     FinishSimulates, ReapSimulates
     DEF JobTransaction

\* The lifecycle uses the queue as JobClaims promises: whatever handlers, workers,
\* clean-ups, rejudges and the reaper race, a job changes hands only through a
\* claim of its next attempt, and only its holder settles or gives it back.
THEOREM Refinement == Spec => ImplementsJobClaims
<1>1. Init => Claims!ClaimsInit /\ WaitingIsUnclaimed
  BY InitSimulates
<1>2. Inv /\ WaitingIsUnclaimed /\ [Next]_vars => WaitingIsUnclaimed' /\ [Claims!ClaimsNext]_ClaimView
  BY NextSimulates DEF Simulates
<1> QED
  BY <1>1, <1>2, Invariance, PTL DEF Spec, ImplementsJobClaims, Claims!ClaimsSpec

-----------------------------------------------------------------------------
(* The official capacity.                                                     *)

\* A job that is active after a transaction was active before, with its mode.
LoadFollows(j) ==
    job'[j].status \in ActiveStatuses
        => job[j].status \in ActiveStatuses /\ job'[j].mode = job[j].mode

LEMMA ReapKeepsLoad ==
  ASSUME QueueInv, ReapStuckJobs, NEW j \in Jobs
  PROVE  LoadFollows(j)
<1>1. job'[j] = ReapedJob(j)
  BY DEF ReapStuckJobs
<1>2. CASE j \in StaleStaged \cup StaleExhausted
  BY <1>1, <1>2, ReapedJobFacts DEF LoadFollows, ActiveStatuses
<1>3. CASE j \in StaleRetriable
  BY <1>1, <1>3, ReapedJobFacts DEF LoadFollows, ActiveStatuses, StaleRetriable
<1>4. CASE j \notin StaleStaged \cup StaleExhausted \cup StaleRetriable
  BY <1>1, <1>4, ReapedJobFacts DEF LoadFollows
<1> QED
  BY <1>2, <1>3, <1>4

\* Only the two transactions behind the capacity lock add a job.
LEMMA LoadIsAdmitted ==
  ASSUME QueueInv, JobTransaction
  PROVE  \/ \A j \in Jobs : LoadFollows(j)
         \/ /\ nextJob \in Jobs
            /\ \A j \in Jobs : j # nextJob => LoadFollows(j)
            /\ job'[nextJob].mode = "official"
                  => Cardinality(ActiveOfficialJobs) < MaxActiveOfficial
<1>0. job \in [Jobs -> JobRecord]
  BY DEF QueueInv, QueueTypeOK
<1>1. CASE UNCHANGED job
  BY <1>1 DEF LoadFollows
<1>2. CASE \E s \in Submissions, mode \in Modes : CreateSolutionSubmissionWithJob(s, mode)
  <2>1. PICK s \in Submissions, mode \in Modes : CreateSolutionSubmissionWithJob(s, mode)
    BY <1>2
  <2>2. /\ nextJob \in Jobs
        /\ \A j \in Jobs : j # nextJob => job'[j] = job[j]
        /\ job'[nextJob].mode = mode
    BY <1>0, <2>1 DEF CreateSolutionSubmissionWithJob, AbsentJob
  <2> QED
    BY <2>1, <2>2 DEF LoadFollows, CreateSolutionSubmissionWithJob
<1>3. CASE \E j \in Jobs : MarkEvaluationJobReady(j) \/ Expires(j) \/ ComesDue(j)
  <2>1. PICK j \in Jobs : MarkEvaluationJobReady(j) \/ Expires(j) \/ ComesDue(j)
    BY <1>3
  <2>2. /\ job[j].status \in ActiveStatuses /\ job'[j].mode = job[j].mode
        /\ \A k \in Jobs : k # j => job'[k] = job[k]
    BY ZenonT(40), <1>0, <2>1 DEF MarkEvaluationJobReady, Expires, ComesDue, JobRecord, ActiveStatuses
  <2> QED
    BY <2>2 DEF LoadFollows
<1>4. CASE \E s \in Submissions : DeleteSolutionSubmission(s)
  <2>1. \A j \in Jobs : job'[j].status = "deleted" \/ job'[j] = job[j]
    BY <1>4 DEF DeleteSolutionSubmission, AbsentJob
  <2> QED
    BY <2>1 DEF LoadFollows, ActiveStatuses
<1>5. CASE \E s \in Submissions : QueueEvaluationJob(s)
  <2>1. /\ nextJob \in Jobs
        /\ \A j \in Jobs : j # nextJob => job'[j] = job[j]
        /\ Cardinality(ActiveOfficialJobs) < MaxActiveOfficial
    BY <1>0, <1>5 DEF QueueEvaluationJob
  <2> QED
    BY <2>1 DEF LoadFollows
<1>6. CASE \E w \in Workers, j \in Jobs : ClaimNextEvaluationJob(w, j)
  <2>1. PICK w \in Workers, j \in Jobs : ClaimNextEvaluationJob(w, j)
    BY <1>6
  <2>2. /\ job[j].status = "queued" /\ job'[j].mode = job[j].mode
        /\ \A k \in Jobs : k # j => job'[k] = job[k]
    BY <1>0, <2>1 DEF ClaimNextEvaluationJob, Claimable, JobRecord
  <2> QED
    BY <2>2 DEF LoadFollows, ActiveStatuses
<1>7. CASE \E w \in Workers, j \in Jobs, attempt \in Nat :
              \/ RefreshEvaluationJobClaim(w, j, attempt)
              \/ RequeueForCapacity(w, j, attempt)
              \/ \E status \in TerminalStatuses, score \in Nat :
                    MarkEvaluationFinished(w, j, attempt, status, score)
  <2>1. PICK w \in Workers, j \in Jobs, attempt \in Nat :
              \/ RefreshEvaluationJobClaim(w, j, attempt)
              \/ RequeueForCapacity(w, j, attempt)
              \/ \E status \in TerminalStatuses, score \in Nat :
                    MarkEvaluationFinished(w, j, attempt, status, score)
    BY <1>7
  <2>2. /\ job[j].status = "running" /\ job'[j].mode = job[j].mode
        /\ \A k \in Jobs : k # j => job'[k] = job[k]
    <3>1. CASE RefreshEvaluationJobClaim(w, j, attempt)
      BY <1>0, <3>1 DEF RefreshEvaluationJobClaim, ClaimMatches, JobRecord
    <3>2. CASE RequeueForCapacity(w, j, attempt)
      BY <1>0, <3>2 DEF RequeueForCapacity, ClaimMatches, JobRecord
    <3>3. CASE \E status \in TerminalStatuses, score \in Nat :
                  MarkEvaluationFinished(w, j, attempt, status, score)
      BY <1>0, <3>3 DEF MarkEvaluationFinished, CanMarkFinished, ClaimMatches, JobRecord
    <3> QED
      BY <2>1, <3>1, <3>2, <3>3
  <2> QED
    BY <2>2 DEF LoadFollows, ActiveStatuses
<1>8. CASE ReapStuckJobs
  BY <1>8, ReapKeepsLoad
<1> QED
  BY <1>1, <1>2, <1>3, <1>4, <1>5, <1>6, <1>7, <1>8 DEF JobTransaction

LEMMA ActiveOfficialIsFinite == IsFiniteSet(ActiveOfficialJobs) /\ Cardinality(ActiveOfficialJobs) \in Nat
<1>1. IsFiniteSet(Jobs)
  BY FS_Interval, BoundsAssumption DEF Jobs
<1>2. ActiveOfficialJobs \in SUBSET Jobs
  BY DEF ActiveOfficialJobs
<1> QED
  BY <1>1, <1>2, FS_Subset, FS_CardinalityType

LEMMA CapacityStep == Inv /\ OfficialCapacity /\ [Next]_vars => OfficialCapacity'
<1> SUFFICES ASSUME Inv, OfficialCapacity, JobTransaction PROVE OfficialCapacity'
  BY StepIsTransaction
<1> DEFINE A == ActiveOfficialJobs
<1> DEFINE B == {j \in Jobs : job'[j].mode = "official" /\ job'[j].status \in ActiveStatuses}
<1>1. OfficialCapacity' <=> Cardinality(B) <= MaxActiveOfficial
  BY DEF OfficialCapacity, ActiveOfficialJobs
<1>2. IsFiniteSet(A) /\ Cardinality(A) \in Nat /\ Cardinality(A) <= MaxActiveOfficial
  BY ActiveOfficialIsFinite DEF OfficialCapacity
<1>3. CASE B \subseteq A
  <2>1. IsFiniteSet(B) /\ Cardinality(B) <= Cardinality(A)
    BY <1>2, <1>3, FS_Subset
  <2>2. Cardinality(B) \in Nat
    BY <2>1, FS_CardinalityType
  <2> HIDE DEF A, B
  <2> QED
    BY <1>1, <1>2, <2>1, <2>2, BoundsAssumption
<1>4. CASE B \subseteq A \cup {nextJob} /\ Cardinality(A) < MaxActiveOfficial
  <2>1. /\ IsFiniteSet(A \cup {nextJob})
        /\ Cardinality(A \cup {nextJob}) \in {Cardinality(A), Cardinality(A) + 1}
    BY <1>2, FS_AddElement
  <2>2. IsFiniteSet(B) /\ Cardinality(B) <= Cardinality(A \cup {nextJob})
    BY <1>4, <2>1, FS_Subset
  <2>3. Cardinality(B) \in Nat
    BY <2>2, FS_CardinalityType
  <2> HIDE DEF A, B
  <2> QED
    BY <1>1, <1>2, <1>4, <2>1, <2>2, <2>3, BoundsAssumption
<1>5. \/ B \subseteq A
      \/ B \subseteq A \cup {nextJob} /\ Cardinality(A) < MaxActiveOfficial
  <2>1. QueueInv
    BY DEF Inv
  <2>2. CASE \A j \in Jobs : LoadFollows(j)
    BY <2>2 DEF LoadFollows, ActiveOfficialJobs
  <2>3. CASE /\ nextJob \in Jobs
             /\ \A j \in Jobs : j # nextJob => LoadFollows(j)
             /\ job'[nextJob].mode = "official"
                   => Cardinality(ActiveOfficialJobs) < MaxActiveOfficial
    BY <2>3 DEF LoadFollows, ActiveOfficialJobs
  <2> QED
    BY <2>1, <2>2, <2>3, LoadIsAdmitted
<1> QED
  BY <1>3, <1>4, <1>5

\* The active official jobs never exceed the configured capacity: the count under
\* the capacity lock includes staged jobs, and every other transaction leaves a
\* job's mode and takes jobs out of the count only.
THEOREM CapacitySafety == Spec => []OfficialCapacity
<1>1. Init => OfficialCapacity
  <2> SUFFICES ASSUME Init PROVE OfficialCapacity
    OBVIOUS
  <2>1. ActiveOfficialJobs = {}
    BY DEF Init, QueueInit, ActiveOfficialJobs, AbsentJob, ActiveStatuses
  <2> QED
    BY <2>1, FS_EmptySet, BoundsAssumption DEF OfficialCapacity
<1> QED
  BY <1>1, CapacityStep, Invariance, PTL DEF Spec

-----------------------------------------------------------------------------
(* The artifact of a submission's first job.                                  *)

LiveStatuses == {"queued", "running"}

\* A job row stays with its submission or is deleted, and is not offered anew.
RowGoesOn(k) ==
    job[k].status # "absent" =>
        /\ job'[k].status # "absent"
        /\ job'[k].sub \in {job[k].sub, NoSubmission}
        /\ job'[k].status \in LiveStatuses => job[k].status \in LiveStatuses

\* What a handler knows of its job and its artifact: the job is claimable only
\* once the handler is through, and then the artifact is durable.
HandlerInv(s) ==
    /\ api[s].pc \in {"none", "staged"} => api[s].job = NoJob
    /\ api[s].pc = "promoted" => artifact[s] = "durable"
    /\ api[s].job # NoJob =>
          /\ job[api[s].job].status # "absent"
          /\ job[api[s].job].sub \in {s, NoSubmission}
          /\ job[api[s].job].status \in LiveStatuses => ~ApiInFlight(s) /\ artifact[s] = "durable"

HandlersInv == \A s \in Submissions : HandlerInv(s)

\* All transactions on the job table but mark_evaluation_job_ready.
OtherTransaction ==
    \/ UNCHANGED job
    \/ \E s \in Submissions, mode \in Modes : CreateSolutionSubmissionWithJob(s, mode)
    \/ \E s \in Submissions : DeleteSolutionSubmission(s) \/ QueueEvaluationJob(s)
    \/ \E j \in Jobs : Expires(j) \/ ComesDue(j)
    \/ \E w \in Workers : WorkerTransaction(w)

LEMMA RowsGoOn ==
  ASSUME QueueInv, OtherTransaction, NEW k \in Jobs
  PROVE  RowGoesOn(k)
<1>0. job \in [Jobs -> JobRecord] /\ (nextJob \in Jobs => job[nextJob].status = "absent")
  BY DEF QueueInv, QueueTypeOK, JobsAllocated, Jobs
<1>1. CASE job'[k] = job[k]
  BY <1>1 DEF RowGoesOn
<1>2. CASE \E s \in Submissions : \/ \E mode \in Modes : CreateSolutionSubmissionWithJob(s, mode)
                                  \/ QueueEvaluationJob(s)
  <2>1. nextJob \in Jobs /\ \A j \in Jobs : j # nextJob => job'[j] = job[j]
    BY <1>0, <1>2 DEF CreateSolutionSubmissionWithJob, QueueEvaluationJob
  <2> QED
    BY <1>0, <2>1 DEF RowGoesOn
<1>3. CASE \E s \in Submissions : DeleteSolutionSubmission(s)
  <2>1. job'[k] = job[k] \/ job'[k] = [AbsentJob EXCEPT !.status = "deleted"]
    BY <1>3 DEF DeleteSolutionSubmission
  <2>2. CASE job'[k] = [AbsentJob EXCEPT !.status = "deleted"]
    <3>1. job'[k].status = "deleted" /\ job'[k].sub = NoSubmission
      BY <2>2 DEF AbsentJob
    <3> QED
      BY <3>1 DEF RowGoesOn, LiveStatuses
  <2> QED
    BY <1>1, <2>1, <2>2
<1>4. CASE \E j \in Jobs : Expires(j) \/ ComesDue(j)
  <2>1. job'[k].status = job[k].status /\ job'[k].sub = job[k].sub
    BY <1>0, <1>4 DEF Expires, ComesDue, JobRecord
  <2> QED
    BY <2>1 DEF RowGoesOn
<1>5. CASE ReapStuckJobs
  <2>1. job'[k] = ReapedJob(k)
    BY <1>5 DEF ReapStuckJobs
  <2>2. /\ job'[k].sub = job[k].sub
        /\ \/ job'[k] = job[k]
           \/ job'[k].status = "failed"
           \/ job[k].status = "running" /\ job'[k].status = "queued"
    BY <2>1, ReapedJobFacts DEF StaleRetriable
  <2> QED
    BY <1>1, <2>2 DEF RowGoesOn, LiveStatuses
<1>6. CASE \E w \in Workers, j \in Jobs : ClaimNextEvaluationJob(w, j)
  <2>1. PICK w \in Workers, j \in Jobs : ClaimNextEvaluationJob(w, j)
    BY <1>6
  <2>2. job[j].status = "queued" /\ job'[j].status = "running" /\ job'[j].sub = job[j].sub
    BY <1>0, <2>1 DEF ClaimNextEvaluationJob, Claimable, JobRecord
  <2>3. j # k => job'[k] = job[k]
    BY <1>0, <2>1 DEF ClaimNextEvaluationJob
  <2> QED
    BY <1>1, <2>2, <2>3 DEF RowGoesOn, LiveStatuses
<1>7. CASE \E w \in Workers, j \in Jobs, attempt \in Nat :
              \/ RefreshEvaluationJobClaim(w, j, attempt)
              \/ RequeueForCapacity(w, j, attempt)
              \/ \E status \in TerminalStatuses, score \in Nat :
                    MarkEvaluationFinished(w, j, attempt, status, score)
  <2>1. PICK w \in Workers, j \in Jobs, attempt \in Nat :
              \/ RefreshEvaluationJobClaim(w, j, attempt)
              \/ RequeueForCapacity(w, j, attempt)
              \/ \E status \in TerminalStatuses, score \in Nat :
                    MarkEvaluationFinished(w, j, attempt, status, score)
    BY <1>7
  <2>2. /\ job[j].status = "running"
        /\ job'[j].status \in {"running", "queued"} \cup TerminalStatuses
        /\ job'[j].sub = job[j].sub
        /\ j # k => job'[k] = job[k]
    <3>1. CASE RefreshEvaluationJobClaim(w, j, attempt)
      BY <1>0, <3>1 DEF RefreshEvaluationJobClaim, ClaimMatches, JobRecord
    <3>2. CASE RequeueForCapacity(w, j, attempt)
      BY <1>0, <3>2 DEF RequeueForCapacity, ClaimMatches, JobRecord
    <3>3. CASE \E status \in TerminalStatuses, score \in Nat :
                  MarkEvaluationFinished(w, j, attempt, status, score)
      BY <1>0, <3>3 DEF MarkEvaluationFinished, CanMarkFinished, ClaimMatches, JobRecord
    <3> QED
      BY <2>1, <3>1, <3>2, <3>3
  <2> QED
    BY <1>1, <2>2 DEF RowGoesOn, LiveStatuses, TerminalStatuses
<1> QED
  BY <1>1, <1>2, <1>3, <1>4, <1>5, <1>6, <1>7 DEF OtherTransaction, WorkerTransaction

\* A handler that takes no step keeps what it knows.
LEMMA HandlerWaits ==
  ASSUME TypeOK, NEW s \in Submissions, HandlerInv(s),
         api'[s] = api[s], artifact'[s] = artifact[s],
         api[s].job # NoJob => RowGoesOn(api[s].job)
  PROVE  HandlerInv(s)'
<1>1. CASE api[s].job = NoJob
  BY <1>1 DEF HandlerInv
<1>2. CASE api[s].job # NoJob
  BY <1>2 DEF HandlerInv, RowGoesOn, ApiInFlight
<1> QED
  BY <1>1, <1>2

\* Two handlers never remember the same job.
LEMMA JobsAreOwned ==
  ASSUME QueueInv, NEW s \in Submissions, NEW t \in Submissions, HandlerInv(s), HandlerInv(t),
         api[s].job \in Jobs, api[s].job # NoJob, api[t].job = api[s].job, job[api[s].job].status = "staged"
  PROVE  s = t
<1>1. job[api[s].job].sub \in Submissions
  BY DEF QueueInv, RowsAreLinked
<1> QED
  BY <1>1, SubmissionsAssumption DEF HandlerInv

\* A step of the handler itself.
LEMMA HandlerStep ==
  ASSUME Inv, ~CleanupRaces, NEW s \in Submissions, HandlerInv(s), ApiStep(s) \/ ApiStops(s)
  PROVE  HandlerInv(s)'
<1>0. /\ api \in [Submissions -> ApiRecord] /\ artifact \in [Submissions -> ArtifactPlaces]
      /\ job \in [Jobs -> JobRecord]
      /\ api[s].job \in Jobs \cup {NoJob}
      /\ api[s].pc = "promoted" => api[s].job \in Jobs
  BY DEF Inv, TypeOK, QueueTypeOK, HoldersHaveJobs, ApiRecord
<1>1. NoJob \notin Jobs
  BY DEF NoJob, Jobs
<1>2. QueueInv
  BY DEF Inv
<1>3. ASSUME OtherTransaction, ApiInFlight(s), api'[s].job = api[s].job,
             api'[s].pc \notin {"none", "staged"},
             api'[s].pc = "promoted" => artifact'[s] = "durable"
      PROVE  HandlerInv(s)'
  <2>1. CASE api[s].job = NoJob
    BY <1>3, <2>1 DEF HandlerInv
  <2>2. CASE api[s].job \in Jobs
    <3>1. RowGoesOn(api[s].job)
      BY <1>2, <1>3, <2>2, RowsGoOn
    <3>2. /\ job'[api[s].job].status # "absent"
          /\ job'[api[s].job].sub \in {s, NoSubmission}
          /\ job'[api[s].job].status \notin LiveStatuses
      BY <1>1, <1>3, <2>2, <3>1 DEF HandlerInv, RowGoesOn
    <3> QED
      BY <1>3, <3>2 DEF HandlerInv
  <2> QED
    BY <1>0, <2>1, <2>2
<1>4. CASE ApiStageArtifact(s)
  <2>1. api[s].pc = "none" /\ api'[s].pc = "staged" /\ api'[s].job = api[s].job
    BY <1>0, <1>4 DEF ApiStageArtifact, ApiRecord
  <2> QED
    BY <2>1 DEF HandlerInv
<1>5. CASE \E mode \in Modes : ApiCreate(s, mode)
  <2>1. PICK mode \in Modes : ApiCreate(s, mode)
    BY <1>5
  <2>2. api'[s] = [pc |-> "created", job |-> nextJob]
    BY <1>0, <2>1 DEF ApiCreate
  <2>3. job'[nextJob] = [AbsentJob EXCEPT !.status = "staged", !.sub = s, !.mode = mode]
    BY <1>0, <2>1 DEF ApiCreate, CreateSolutionSubmissionWithJob
  <2>4. job'[nextJob].status = "staged" /\ job'[nextJob].sub = s
    BY <2>3 DEF AbsentJob
  <2> QED
    BY <2>2, <2>4 DEF HandlerInv, LiveStatuses
<1>6. CASE ApiReady(s)
  <2>1. /\ api'[s].pc = "done" /\ api'[s].job = api[s].job
        /\ artifact'[s] = artifact[s] /\ artifact[s] = "durable"
    BY <1>0, <1>6 DEF ApiReady, ApiRecord, HandlerInv
  <2>2. /\ api[s].job \in Jobs
        /\ job'[api[s].job].status = "queued"
        /\ job'[api[s].job].sub = job[api[s].job].sub
    BY <1>0, <1>6 DEF ApiReady, MarkEvaluationJobReady, JobRecord
  <2>3. job[api[s].job].sub \in {s, NoSubmission}
    BY <1>1, <2>2 DEF HandlerInv
  <2> QED
    BY <2>1, <2>2, <2>3 DEF HandlerInv, ApiInFlight
<1>7. CASE ApiDeleteRow(s)
  <2>1. /\ ApiInFlight(s) /\ api'[s].job = api[s].job /\ api'[s].pc = "delete_artifact"
    BY <1>0, <1>7 DEF ApiDeleteRow, ApiRecord, ApiInFlight
  <2>2. OtherTransaction
    BY <1>7 DEF ApiDeleteRow, OtherTransaction, queueVars
  <2> QED
    BY <1>3, <2>1, <2>2
<1>8. CASE \/ ApiCreateFails(s) \/ ApiPromote(s) \/ ApiPromoteFails(s) \/ ApiReadyFails(s)
           \/ ApiDeleteArtifact(s) \/ ApiStops(s)
  <2>1. OtherTransaction
    BY <1>8 DEF ApiCreateFails, ApiPromote, ApiPromoteFails, ApiReadyFails, ApiDeleteArtifact,
                ApiStops, OtherTransaction, queueVars
  <2>2. ApiInFlight(s) /\ api'[s].job = api[s].job /\ api'[s].pc \notin {"none", "staged"}
    BY <1>0, <1>8 DEF ApiCreateFails, ApiPromote, ApiPromoteFails, ApiReadyFails, ApiDeleteArtifact,
                      ApiStops, ApiRecord, ApiInFlight
  <2>3. api'[s].pc = "promoted" => artifact'[s] = "durable"
    BY <1>0, <1>8 DEF ApiCreateFails, ApiPromote, ApiPromoteFails, ApiReadyFails, ApiDeleteArtifact,
                      ApiStops, ApiRecord
  <2> QED
    BY <1>3, <2>1, <2>2, <2>3
<1> QED
  BY <1>4, <1>5, <1>6, <1>7, <1>8 DEF ApiStep, ApiCreateReplyLost, ApiReadyReplyLost

\* A step of the handler of another submission.
LEMMA OtherHandlerStep ==
  ASSUME Inv, ~CleanupRaces, HandlersInv, NEW s \in Submissions, NEW t \in Submissions, t # s,
         ApiStep(s) \/ ApiStops(s)
  PROVE  HandlerInv(t)'
<1>0. /\ api \in [Submissions -> ApiRecord] /\ artifact \in [Submissions -> ArtifactPlaces]
      /\ job \in [Jobs -> JobRecord]
      /\ api[t].job \in Jobs \cup {NoJob}
      /\ api[s].pc = "promoted" => api[s].job \in Jobs
  BY DEF Inv, TypeOK, QueueTypeOK, HoldersHaveJobs, ApiRecord
<1>1. NoJob \notin Jobs /\ QueueInv /\ TypeOK /\ HandlerInv(s) /\ HandlerInv(t)
  BY DEF NoJob, Jobs, Inv, HandlersInv
<1>2. api'[t] = api[t] /\ artifact'[t] = artifact[t]
  BY <1>0 DEF ApiStep, ApiStops, ApiStageArtifact, ApiCreate, ApiCreateReplyLost, ApiCreateFails, ApiPromote,
         ApiPromoteFails, ApiReady, ApiReadyFails, ApiReadyReplyLost, ApiDeleteRow, ApiDeleteArtifact
<1>3. OtherTransaction \/ (api[s].pc = "promoted" /\ MarkEvaluationJobReady(api[s].job))
  BY DEF ApiStep, ApiStops, ApiStageArtifact, ApiCreate, ApiCreateReplyLost, ApiCreateFails, ApiPromote,
         ApiPromoteFails, ApiReady, ApiReadyFails, ApiReadyReplyLost, ApiDeleteRow, ApiDeleteArtifact,
         OtherTransaction, queueVars
<1>4. ASSUME api[t].job # NoJob PROVE RowGoesOn(api[t].job)
  <2>1. api[t].job \in Jobs
    BY <1>0, <1>4
  <2>2. CASE OtherTransaction
    BY <1>1, <2>1, <2>2, RowsGoOn
  <2>3. CASE api[s].pc = "promoted" /\ MarkEvaluationJobReady(api[s].job)
    <3>1. api[s].job \in Jobs /\ job[api[s].job].status = "staged"
      BY <1>0, <2>3 DEF MarkEvaluationJobReady
    <3>2. api[t].job # api[s].job
      BY <1>1, <2>1, <3>1, JobsAreOwned
    <3>3. job'[api[t].job] = job[api[t].job]
      BY <1>0, <2>1, <2>3, <3>2 DEF MarkEvaluationJobReady
    <3> QED
      BY <3>3 DEF RowGoesOn
  <2> QED
    BY <1>3, <2>2, <2>3
<1> QED
  BY <1>1, <1>2, <1>4, HandlerWaits

LEMMA HandlersStep ==
  ASSUME Inv, ~CleanupRaces, HandlersInv, [Next]_vars
  PROVE  HandlersInv'
<1>0. QueueInv /\ TypeOK /\ \A t \in Submissions : HandlerInv(t) /\ api[t].job \in Jobs \cup {NoJob}
  BY DEF Inv, TypeOK, ApiRecord, HandlersInv
<1>1. ASSUME OtherTransaction, UNCHANGED <<api, artifact>> PROVE HandlersInv'
  <2>1. ASSUME NEW t \in Submissions PROVE HandlerInv(t)'
    BY <1>0, <1>1, RowsGoOn, HandlerWaits
  <2> QED
    BY <2>1 DEF HandlersInv
<1>2. CASE UNCHANGED vars
  BY <1>1, <1>2 DEF vars, OtherTransaction
<1>3. CASE \E s \in Submissions : ApiStep(s) \/ ApiStops(s)
  BY <1>0, <1>3, HandlerStep, OtherHandlerStep DEF HandlersInv
<1>4. CASE \E s \in Submissions : AdminQueue(s)
  BY <1>1, <1>4 DEF AdminQueue, OtherTransaction
<1>5. CASE \E w \in Workers : WorkerStep(w) \/ WorkerDies(w)
  <2>1. OtherTransaction
    BY <1>5, WorkerRunsTransaction DEF OtherTransaction
  <2>2. UNCHANGED <<api, artifact>>
    BY <1>5 DEF WorkerStep, WorkerDies, WorkerReap, WorkerClaim, WorkerFindsNothing, WorkerStart, WorkerExecute,
                WorkerRefresh, WorkerCompletes, WorkerFails, WorkerRequeues, WorkerErrs, WorkerFinish
  <2> QED
    BY <1>1, <2>1, <2>2
<1>6. CASE \E j \in Jobs : TimePasses(j)
  BY <1>1, <1>6 DEF TimePasses, OtherTransaction
<1> QED
  BY <1>2, <1>3, <1>4, <1>5, <1>6 DEF Next

\* While a submission's first job can be claimed or runs, its ZIP is stored under
\* the key the runner reads: the handler makes the job ready after the promotion
\* only, and no handler that may still remove the ZIP has a ready job. (This is
\* lost when the reply of mark_evaluation_job_ready is: hence the condition.)
THEOREM ArtifactSafety == ~CleanupRaces => (Spec => []FirstJobHasArtifact)
<1> SUFFICES ASSUME ~CleanupRaces PROVE Spec => []FirstJobHasArtifact
  OBVIOUS
<1>1. Init => HandlersInv
  <2> SUFFICES ASSUME Init, NEW s \in Submissions PROVE HandlerInv(s)
    BY DEF HandlersInv
  <2>1. api[s] = [pc |-> "none", job |-> NoJob]
    BY DEF Init
  <2> QED
    BY <2>1 DEF HandlerInv
<1>2. Inv /\ HandlersInv /\ [Next]_vars => HandlersInv'
  BY HandlersStep
<1>3. HandlersInv => FirstJobHasArtifact
  BY DEF HandlersInv, HandlerInv, FirstJobHasArtifact, LiveStatuses
<1> QED
  BY <1>1, <1>2, <1>3, Invariance, PTL DEF Spec

-----------------------------------------------------------------------------
(* The leaderboard.                                                           *)

\* Until a handler makes its job claimable or gives its rows up, the job waits
\* for it: no other process takes it from "staged", and it is not stale.
HandlerHolds(s) ==
    api[s].pc \in {"created", "promoted", "delete_row"} =>
        /\ api[s].job \in Jobs
        /\ job[api[s].job].status = "staged"
        /\ job[api[s].job].fresh
        /\ job[api[s].job].sub = s

HandlersHold == \A s \in Submissions : HandlerHolds(s)

\* A staged job that goes on waiting: nobody made it ready, deleted or reaped it.
GoesOnWaiting(k) ==
    /\ job'[k].status = job[k].status
    /\ job'[k].fresh = job[k].fresh
    /\ job'[k].sub = job[k].sub

\* The transactions that leave the staged job k to its handler.
OthersTransaction(k) ==
    \/ UNCHANGED job
    \/ \E s \in Submissions, mode \in Modes : CreateSolutionSubmissionWithJob(s, mode)
    \/ \E j \in Jobs \ {k} : MarkEvaluationJobReady(j) \/ Expires(j)
    \/ \E j \in Jobs : ComesDue(j)
    \/ \E s \in Submissions : QueueEvaluationJob(s)
    \/ \E s \in Submissions \ {job[k].sub} : DeleteSolutionSubmission(s)
    \/ \E w \in Workers : WorkerTransaction(w)

LEMMA StagedGoesOnWaiting ==
  ASSUME QueueInv, NEW k \in Jobs, job[k].status = "staged", job[k].fresh, OthersTransaction(k)
  PROVE  GoesOnWaiting(k)
<1>0. /\ job \in [Jobs -> JobRecord]
      /\ nextJob \in Jobs => job[nextJob].status = "absent"
  BY DEF QueueInv, QueueTypeOK, JobsAllocated, Jobs
<1>1. CASE job'[k] = job[k]
  BY <1>1 DEF GoesOnWaiting
<1>2. CASE \E s \in Submissions : \/ \E mode \in Modes : CreateSolutionSubmissionWithJob(s, mode)
                                  \/ QueueEvaluationJob(s)
  <2>1. nextJob \in Jobs /\ \A j \in Jobs : j # nextJob => job'[j] = job[j]
    BY <1>0, <1>2 DEF CreateSolutionSubmissionWithJob, QueueEvaluationJob
  <2> QED
    BY <1>0, <1>1, <2>1
<1>3. CASE \/ \E j \in Jobs \ {k} : MarkEvaluationJobReady(j) \/ Expires(j)
           \/ \E j \in Jobs : ComesDue(j)
  <2>1. job'[k] = job[k]
    BY <1>0, <1>3 DEF MarkEvaluationJobReady, Expires, ComesDue
  <2> QED
    BY <1>1, <2>1
<1>4. CASE \E s \in Submissions \ {job[k].sub} : DeleteSolutionSubmission(s)
  <2>1. PICK s \in Submissions \ {job[k].sub} : DeleteSolutionSubmission(s)
    BY <1>4
  <2>2. job[k].sub # s
    BY <2>1
  <2>3. job'[k] = job[k]
    BY <2>1, <2>2 DEF DeleteSolutionSubmission
  <2> QED
    BY <1>1, <2>3
<1>5. CASE ReapStuckJobs
  <2>1. k \notin StaleStaged \cup StaleExhausted \cup StaleRetriable
    BY DEF StaleStaged, StaleExhausted, StaleRetriable
  <2>2. job'[k] = job[k]
    BY <1>5, <2>1, ReapedJobFacts DEF ReapStuckJobs
  <2> QED
    BY <1>1, <2>2
<1>6. CASE \E w \in Workers, j \in Jobs : ClaimNextEvaluationJob(w, j)
  <2>1. PICK w \in Workers, j \in Jobs : ClaimNextEvaluationJob(w, j)
    BY <1>6
  <2>2. j # k /\ job'[k] = job[k]
    BY <1>0, <2>1 DEF ClaimNextEvaluationJob, Claimable
  <2> QED
    BY <1>1, <2>2
<1>7. CASE \E w \in Workers, j \in Jobs, attempt \in Nat :
              \/ RefreshEvaluationJobClaim(w, j, attempt)
              \/ RequeueForCapacity(w, j, attempt)
              \/ \E status \in TerminalStatuses, score \in Nat :
                    MarkEvaluationFinished(w, j, attempt, status, score)
  <2>1. PICK w \in Workers, j \in Jobs, attempt \in Nat :
              \/ RefreshEvaluationJobClaim(w, j, attempt)
              \/ RequeueForCapacity(w, j, attempt)
              \/ \E status \in TerminalStatuses, score \in Nat :
                    MarkEvaluationFinished(w, j, attempt, status, score)
    BY <1>7
  <2>2. job[j].status = "running"
    BY <2>1 DEF RefreshEvaluationJobClaim, RequeueForCapacity, MarkEvaluationFinished, CanMarkFinished,
                ClaimMatches
  <2>3. j # k /\ job'[k] = job[k]
    BY <1>0, <2>1, <2>2 DEF RefreshEvaluationJobClaim, RequeueForCapacity, MarkEvaluationFinished
  <2> QED
    BY <1>1, <2>3
<1> QED
  BY <1>1, <1>2, <1>3, <1>4, <1>5, <1>6, <1>7 DEF OthersTransaction, WorkerTransaction

LEMMA HandlersHoldStep ==
  ASSUME Inv, ~CleanupRaces, HandlersHold, [Next]_vars
  PROVE  HandlersHold'
<1>0. /\ api \in [Submissions -> ApiRecord] /\ job \in [Jobs -> JobRecord] /\ QueueInv
      /\ nextJob \in Jobs => job[nextJob].status = "absent"
  BY DEF Inv, TypeOK, QueueTypeOK, QueueInv, JobsAllocated, Jobs
<1>1. ASSUME NEW t \in Submissions, api'[t].job = api[t].job,
             api'[t].pc \in {"created", "promoted", "delete_row"}
                => /\ api[t].pc \in {"created", "promoted", "delete_row"}
                   /\ OthersTransaction(api[t].job)
      PROVE  HandlerHolds(t)'
  <2> SUFFICES ASSUME api'[t].pc \in {"created", "promoted", "delete_row"}
               PROVE  /\ api[t].job \in Jobs
                      /\ job'[api[t].job].status = "staged"
                      /\ job'[api[t].job].fresh
                      /\ job'[api[t].job].sub = t
    BY <1>1 DEF HandlerHolds
  <2>1. /\ api[t].job \in Jobs
        /\ job[api[t].job].status = "staged"
        /\ job[api[t].job].fresh
        /\ job[api[t].job].sub = t
    BY <1>1 DEF HandlersHold, HandlerHolds
  <2>2. GoesOnWaiting(api[t].job)
    BY <1>0, <1>1, <2>1, StagedGoesOnWaiting
  <2> QED
    BY <2>1, <2>2 DEF GoesOnWaiting
<1>2. CASE UNCHANGED vars
  BY <1>1, <1>2 DEF vars, OthersTransaction, HandlersHold
<1>3. ASSUME NEW s \in Submissions, ApiStep(s) \/ ApiStops(s) PROVE HandlersHold'
  <2>1. HandlerHolds(s)'
    <3>1. CASE \E mode \in Modes : ApiCreate(s, mode)
      <4>1. PICK mode \in Modes : ApiCreate(s, mode)
        BY <3>1
      <4>2. api'[s] = [pc |-> "created", job |-> nextJob] /\ nextJob \in Jobs
        BY <1>0, <4>1 DEF ApiCreate, CreateSolutionSubmissionWithJob
      <4>3. job'[nextJob] = [AbsentJob EXCEPT !.status = "staged", !.sub = s, !.mode = mode]
        BY <1>0, <4>1, <4>2 DEF ApiCreate, CreateSolutionSubmissionWithJob
      <4>4. /\ api'[s].job = nextJob
            /\ job'[nextJob].status = "staged" /\ job'[nextJob].fresh /\ job'[nextJob].sub = s
        BY <4>2, <4>3 DEF AbsentJob
      <4> QED
        BY <4>2, <4>4 DEF HandlerHolds
    <3>2. CASE ApiPromote(s) \/ ApiPromoteFails(s) \/ ApiReadyFails(s)
      <4>1. /\ api'[s].job = api[s].job /\ UNCHANGED job
            /\ api[s].pc \in {"created", "promoted"}
        BY <1>0, <3>2 DEF ApiPromote, ApiPromoteFails, ApiReadyFails, queueVars, ApiRecord
      <4> QED
        BY <1>1, <4>1 DEF OthersTransaction
    <3>3. CASE \/ ApiStageArtifact(s) \/ ApiCreateFails(s) \/ ApiReady(s) \/ ApiDeleteRow(s)
               \/ ApiDeleteArtifact(s) \/ ApiStops(s)
      <4>1. api'[s].pc \notin {"created", "promoted", "delete_row"}
        BY <1>0, <3>3 DEF ApiStageArtifact, ApiCreateFails, ApiReady, ApiDeleteRow, ApiDeleteArtifact,
                          ApiStops, ApiRecord
      <4> QED
        BY <4>1 DEF HandlerHolds
    <3> QED
      BY <1>3, <3>1, <3>2, <3>3 DEF ApiStep, ApiCreateReplyLost, ApiReadyReplyLost
  <2>2. ASSUME NEW t \in Submissions, t # s PROVE HandlerHolds(t)'
    <3>1. api'[t] = api[t]
      BY <1>0, <1>3, <2>2 DEF ApiStep, ApiStops, ApiStageArtifact, ApiCreate, ApiCreateReplyLost, ApiCreateFails,
             ApiPromote, ApiPromoteFails, ApiReady, ApiReadyFails, ApiReadyReplyLost, ApiDeleteRow,
             ApiDeleteArtifact
    <3>2. CASE ~(api[t].pc \in {"created", "promoted", "delete_row"})
      BY <3>1, <3>2 DEF HandlerHolds
    <3>3. CASE api[t].pc \in {"created", "promoted", "delete_row"}
      <4>1. api[t].job \in Jobs /\ job[api[t].job].sub = t
        BY <3>3 DEF HandlersHold, HandlerHolds
      <4>2. api[s].pc = "promoted" => api[s].job \in Jobs /\ job[api[s].job].sub = s
        BY DEF HandlersHold, HandlerHolds
      <4>3. api[s].pc = "promoted" => api[s].job \in Jobs \ {api[t].job}
        BY <2>2, <4>1, <4>2
      <4>4. \/ UNCHANGED job
            \/ \E mode \in Modes : CreateSolutionSubmissionWithJob(s, mode)
            \/ api[s].pc = "promoted" /\ MarkEvaluationJobReady(api[s].job)
            \/ DeleteSolutionSubmission(s)
        BY <1>3 DEF ApiStep, ApiStops, ApiStageArtifact, ApiCreate, ApiCreateReplyLost, ApiCreateFails,
             ApiPromote, ApiPromoteFails, ApiReady, ApiReadyFails, ApiReadyReplyLost, ApiDeleteRow,
             ApiDeleteArtifact, queueVars
      <4>5. OthersTransaction(api[t].job)
        BY <2>2, <4>1, <4>3, <4>4 DEF OthersTransaction
      <4> QED
        BY <1>1, <3>1, <3>3, <4>5
    <3> QED
      BY <3>2, <3>3
  <2> QED
    BY <2>1, <2>2 DEF HandlersHold
<1>4. CASE \E s \in Submissions : AdminQueue(s)
  BY <1>1, <1>4 DEF AdminQueue, OthersTransaction, HandlersHold
<1>5. CASE \E w \in Workers : WorkerStep(w) \/ WorkerDies(w)
  <2>1. \E w \in Workers : WorkerTransaction(w)
    BY <1>5, WorkerRunsTransaction
  <2>2. UNCHANGED api
    BY <1>5 DEF WorkerStep, WorkerDies, WorkerReap, WorkerClaim, WorkerFindsNothing, WorkerStart, WorkerExecute,
                WorkerRefresh, WorkerCompletes, WorkerFails, WorkerRequeues, WorkerErrs, WorkerFinish
  <2> QED
    BY <1>1, <2>1, <2>2 DEF OthersTransaction, HandlersHold
<1>6. CASE \E j \in Jobs : TimePasses(j)
  <2>1. PICK j \in Jobs : TimePasses(j)
    BY <1>6
  <2>2. UNCHANGED api /\ (ComesDue(j) \/ Expires(j))
    BY <2>1 DEF TimePasses
  <2>3. ASSUME NEW t \in Submissions, api[t].pc \in {"created", "promoted", "delete_row"}
        PROVE  OthersTransaction(api[t].job)
    <3>1. /\ api[t].job \in Jobs /\ job[api[t].job].sub = t
          /\ job[api[t].job].status = "staged" /\ ApiInFlight(t)
      BY <2>3 DEF HandlersHold, HandlerHolds, ApiInFlight
    <3>2. Expires(j) => j \in Jobs \ {api[t].job}
      BY <2>1, <3>1 DEF TimePasses
    <3> QED
      BY <2>2, <3>2 DEF OthersTransaction
  <2> QED
    BY <1>1, <2>2, <2>3 DEF HandlersHold
<1> QED
  BY <1>2, <1>3, <1>4, <1>5, <1>6 DEF Next

\* The results of official runs that are published after a transaction were there
\* before, with their scores, and the leaderboard is as it was.
ResultStays(j) ==
    job'[j].mode = "official" /\ evaluation'[j].status = "completed"
        => /\ job[j].mode = "official"
           /\ job'[j].sub = job[j].sub
           /\ evaluation'[j] = evaluation[j]

ResultsStay ==
    /\ \A j \in Jobs : ResultStays(j)
    /\ \A c \in Scopes : leaderboard'[c] = leaderboard[c]

LEMMA ResultsStayBest ==
  ASSUME LeaderboardIsBest, ResultsStay
  PROVE  LeaderboardIsBest'
<1> SUFFICES ASSUME NEW s \in Submissions, NEW j \in Jobs,
                    job'[j].sub = s, job'[j].mode = "official", evaluation'[j].status = "completed"
             PROVE  /\ leaderboard'[ScopeOf[s]].sub # NoSubmission
                    /\ leaderboard'[ScopeOf[s]].score >= evaluation'[j].score
  BY DEF LeaderboardIsBest, OfficialResults
<1>1. /\ ScopeOf[s] \in Scopes
      /\ evaluation'[j] = evaluation[j]
      /\ leaderboard'[ScopeOf[s]] = leaderboard[ScopeOf[s]]
  BY ScopeAssumption DEF ResultsStay, ResultStays
<1>2. j \in OfficialResults(evaluation, s)
  BY <1>1 DEF ResultsStay, ResultStays, OfficialResults
<1> QED
  BY <1>1, <1>2 DEF LeaderboardIsBest

\* A submission that is not public is not on the board.
LEMMA HiddenHasNoEntry ==
  ASSUME QueueInv, NEW s \in Submissions, ~submission[s].visible, NEW c \in Scopes
  PROVE  leaderboard[c].sub # s
  BY SubmissionsAssumption DEF QueueInv, EntryShowsOfficialResult

LEMMA CreateStays ==
  ASSUME QueueInv, NEW s, NEW mode, CreateSolutionSubmissionWithJob(s, mode)
  PROVE  ResultsStay
<1>1. /\ nextJob \in Jobs /\ evaluation[nextJob].status = "absent"
      /\ evaluation' = evaluation /\ leaderboard' = leaderboard
      /\ \A j \in Jobs : j # nextJob => job'[j] = job[j]
  BY DEF CreateSolutionSubmissionWithJob, QueueInv, QueueTypeOK, JobsAllocated, RowsAreLinked, Jobs
<1> QED
  BY <1>1 DEF ResultsStay, ResultStays

LEMMA QueueStays ==
  ASSUME QueueInv, NEW s \in Submissions, QueueEvaluationJob(s)
  PROVE  ResultsStay
<1>1. /\ nextJob \in Jobs /\ evaluation[nextJob].status = "absent"
      /\ evaluation' = evaluation
      /\ \A j \in Jobs : j # nextJob => job'[j] = job[j]
  BY DEF QueueEvaluationJob, QueueInv, QueueTypeOK, JobsAllocated, RowsAreLinked, Jobs
<1>2. \A c \in Scopes : leaderboard'[c] = leaderboard[c]
  BY HiddenHasNoEntry DEF QueueEvaluationJob, RepairedLeaderboard
<1> QED
  BY <1>1, <1>2 DEF ResultsStay, ResultStays

\* The transactions that move or touch a job's row and no result.
LEMMA RowStepStays ==
  ASSUME QueueInv, NEW j \in Jobs,
         \/ MarkEvaluationJobReady(j) \/ Expires(j) \/ ComesDue(j)
         \/ \E w \in Workers : ClaimNextEvaluationJob(w, j)
         \/ \E w \in Workers, attempt \in Nat : RefreshEvaluationJobClaim(w, j, attempt)
  PROVE  ResultsStay
<1>1. /\ evaluation' = evaluation /\ leaderboard' = leaderboard
      /\ job'[j].mode = job[j].mode /\ job'[j].sub = job[j].sub
      /\ \A k \in Jobs : k # j => job'[k] = job[k]
  <2>0. job \in [Jobs -> JobRecord]
    BY DEF QueueInv, QueueTypeOK
  <2>1. CASE MarkEvaluationJobReady(j) \/ Expires(j) \/ ComesDue(j)
    BY ZenonT(40), <2>0, <2>1 DEF MarkEvaluationJobReady, Expires, ComesDue, JobRecord
  <2>2. CASE \E w \in Workers : ClaimNextEvaluationJob(w, j)
    <3>1. PICK w \in Workers : ClaimNextEvaluationJob(w, j)
      BY <2>2
    <3>2. evaluation' = evaluation /\ leaderboard' = leaderboard
      BY <3>1 DEF ClaimNextEvaluationJob
    <3> QED
      BY <2>0, <3>1, <3>2 DEF ClaimNextEvaluationJob, Claimable, JobRecord
  <2>3. CASE \E w \in Workers, attempt \in Nat : RefreshEvaluationJobClaim(w, j, attempt)
    BY <2>0, <2>3 DEF RefreshEvaluationJobClaim, JobRecord
  <2> QED
    BY <2>1, <2>2, <2>3
<1> QED
  BY <1>1 DEF ResultsStay, ResultStays

LEMMA StartStays ==
  ASSUME QueueInv, NEW w, NEW j \in Jobs, NEW attempt, MarkEvaluationStarted(w, j, attempt)
  PROVE  ResultsStay
<1>1. /\ job' = job /\ leaderboard' = leaderboard
      /\ evaluation'[j].status = "running"
      /\ \A k \in Jobs : k # j => evaluation'[k] = evaluation[k]
  BY DEF MarkEvaluationStarted, QueueInv, QueueTypeOK
<1> QED
  BY <1>1 DEF ResultsStay, ResultStays

LEMMA RequeueStays ==
  ASSUME QueueInv, NEW w, NEW j \in Jobs, NEW attempt, RequeueForCapacity(w, j, attempt)
  PROVE  ResultsStay
<1>1. /\ leaderboard' = leaderboard
      /\ job'[j].mode = job[j].mode /\ job'[j].sub = job[j].sub
      /\ \A k \in Jobs : k # j => job'[k] = job[k]
  BY DEF RequeueForCapacity, QueueInv, QueueTypeOK, JobRecord
<1>2. /\ evaluation'[j] = evaluation[j] \/ evaluation'[j].status = "absent"
      /\ \A k \in Jobs : k # j => evaluation'[k] = evaluation[k]
  BY DEF RequeueForCapacity, AbsentEvaluation, QueueInv, QueueTypeOK
<1> QED
  BY <1>1, <1>2 DEF ResultsStay, ResultStays

\* The reaper hides nothing: the official result of a visible submission is not
\* the job it reaps.
LEMMA ReapStays ==
  ASSUME QueueInv, ReapStuckJobs
  PROVE  ResultsStay
<1>1. \A j \in Jobs : /\ job'[j].mode = job[j].mode /\ job'[j].sub = job[j].sub
                      /\ \/ evaluation'[j] = evaluation[j]
                         \/ evaluation'[j].status \in {"absent", "failed"}
  BY ReapedJobFacts, ReapedEvaluationFacts DEF ReapStuckJobs
<1>2. HiddenByReaper = {}
  BY ReaperPreserves DEF HiddenByReaper, StaleRetriable, StaleExhausted
<1>3. \A c \in Scopes : leaderboard'[c] = leaderboard[c]
  BY <1>2 DEF ReapStuckJobs, RepairedLeaderboard
<1> QED
  BY <1>1, <1>3 DEF ResultsStay, ResultStays

\* A submission whose job is still staged has nothing on the board to lose.
LEMMA DeleteStays ==
  ASSUME QueueInv, NEW s \in Submissions, NEW k \in Jobs, job[k].status = "staged", job[k].sub = s,
         DeleteSolutionSubmission(s)
  PROVE  ResultsStay
<1>1. \A c \in Scopes : leaderboard'[c] = leaderboard[c]
  BY StagedIsPending, HiddenHasNoEntry DEF DeleteSolutionSubmission
<1>2. \A j \in Jobs : IF job[j].sub = s
                      THEN evaluation'[j].status = "absent"
                      ELSE job'[j] = job[j] /\ evaluation'[j] = evaluation[j]
  BY DEF DeleteSolutionSubmission, AbsentEvaluation
<1> QED
  BY <1>1, <1>2 DEF ResultsStay, ResultStays

\* A finished official run enters its score, or leaves a row at least as good.
LEMMA FinishKeepsBest ==
  ASSUME QueueInv, LeaderboardIsBest, NEW w, NEW j \in Jobs, NEW attempt,
         NEW status \in TerminalStatuses, NEW score \in Nat,
         MarkEvaluationFinished(w, j, attempt, status, score)
  PROVE  LeaderboardIsBest'
<1>0. /\ job \in [Jobs -> JobRecord] /\ evaluation \in [Jobs -> EvaluationRecord]
      /\ leaderboard \in [Scopes -> EntryRecord]
  BY DEF QueueInv, QueueTypeOK
<1>1. /\ job[j].status = "running"
      /\ job'[j].mode = job[j].mode /\ job'[j].sub = job[j].sub
      /\ \A k \in Jobs : k # j => job'[k] = job[k]
      /\ evaluation'[j] = [status |-> status, score |-> score]
      /\ \A k \in Jobs : k # j => evaluation'[k] = evaluation[k]
  BY <1>0 DEF MarkEvaluationFinished, CanMarkFinished, ClaimMatches, JobRecord
<1>2. PICK s \in Submissions : s = job[j].sub
  BY <1>1 DEF QueueInv, RowsAreLinked
<1>3. CASE job[j].mode = "validation" \/ status # "completed"
  <2>1. leaderboard' = leaderboard
    BY <1>3 DEF MarkEvaluationFinished
  <2>2. ResultsStay
    BY <1>1, <1>3, <2>1 DEF ResultsStay, ResultStays
  <2> QED
    BY <2>2, ResultsStayBest
<1>4. CASE job[j].mode # "validation" /\ status = "completed"
  <2> DEFINE c == ScopeOf[s]
  <2>1. c \in Scopes
    BY ScopeAssumption
  <2>2. leaderboard' = [leaderboard EXCEPT ![c] = UpsertEntry(leaderboard[c], s, score)]
    BY <1>2, <1>4 DEF MarkEvaluationFinished
  <2>3. /\ leaderboard'[c] = UpsertEntry(leaderboard[c], s, score)
        /\ \A d \in Scopes : d # c => leaderboard'[d] = leaderboard[d]
    BY <1>0, <2>1, <2>2
  <2>4. leaderboard[c].score \in Nat
    BY <1>0, <2>1 DEF EntryRecord
  <2>5. /\ leaderboard'[c].sub # NoSubmission
        /\ leaderboard'[c].score >= score
        /\ leaderboard[c].sub # NoSubmission => leaderboard'[c].score >= leaderboard[c].score
    BY <2>3, <2>4, SubmissionsAssumption DEF UpsertEntry
  <2>6. leaderboard'[c].score \in Nat
    BY <2>3, <2>4 DEF UpsertEntry
  <2> SUFFICES ASSUME NEW t \in Submissions, NEW k \in Jobs,
                      job'[k].sub = t, job'[k].mode = "official", evaluation'[k].status = "completed"
               PROVE  /\ leaderboard'[ScopeOf[t]].sub # NoSubmission
                      /\ leaderboard'[ScopeOf[t]].score >= evaluation'[k].score
    BY DEF LeaderboardIsBest, OfficialResults
  <2>7. CASE k = j
    BY <1>1, <1>2, <2>5, <2>7
  <2>8. CASE k # j
    <3>1. /\ leaderboard[ScopeOf[t]].sub # NoSubmission
          /\ leaderboard[ScopeOf[t]].score >= evaluation[k].score
      BY <1>1, <2>8 DEF LeaderboardIsBest, OfficialResults
    <3>2. /\ evaluation'[k] = evaluation[k] /\ evaluation[k].score \in Nat
          /\ ScopeOf[t] \in Scopes
      BY <1>0, <1>1, <2>8, ScopeAssumption DEF EvaluationRecord
    <3>3. CASE ScopeOf[t] # c
      BY <2>3, <3>1, <3>2, <3>3
    <3>4. CASE ScopeOf[t] = c
      BY <2>4, <2>5, <2>6, <3>1, <3>2, <3>4
    <3> QED
      BY <3>3, <3>4
  <2> QED
    BY <2>7, <2>8
<1> QED
  BY <1>3, <1>4

LEMMA BestStep ==
  ASSUME Inv, ~CleanupRaces, HandlersHold, LeaderboardIsBest, [Next]_vars
  PROVE  LeaderboardIsBest'
<1>0. QueueInv
  BY DEF Inv
<1>1. CASE UNCHANGED <<job, evaluation, leaderboard>>
  <2>1. ResultsStay
    BY <1>1 DEF ResultsStay, ResultStays
  <2> QED
    BY <2>1, ResultsStayBest
<1>2. CASE \E s \in Submissions : ApiStep(s) \/ ApiStops(s) \/ AdminQueue(s)
  <2>1. PICK s \in Submissions : ApiStep(s) \/ ApiStops(s) \/ AdminQueue(s)
    BY <1>2
  <2>2. CASE \E mode \in Modes : CreateSolutionSubmissionWithJob(s, mode)
    BY <1>0, <2>2, CreateStays, ResultsStayBest
  <2>3. CASE api[s].pc = "promoted" /\ MarkEvaluationJobReady(api[s].job)
    <3>1. api[s].job \in Jobs
      BY <2>3 DEF HandlersHold, HandlerHolds
    <3> QED
      BY <1>0, <2>3, <3>1, RowStepStays, ResultsStayBest
  <2>4. CASE api[s].pc = "delete_row" /\ DeleteSolutionSubmission(s)
    <3>1. api[s].job \in Jobs /\ job[api[s].job].status = "staged" /\ job[api[s].job].sub = s
      BY <2>4 DEF HandlersHold, HandlerHolds
    <3> QED
      BY <1>0, <2>4, <3>1, DeleteStays, ResultsStayBest
  <2>5. CASE QueueEvaluationJob(s)
    BY <1>0, <2>5, QueueStays, ResultsStayBest
  <2>6. CASE UNCHANGED queueVars
    BY <1>1, <2>6 DEF queueVars
  <2> QED
    BY <2>1, <2>2, <2>3, <2>4, <2>5, <2>6
       DEF ApiStep, ApiStops, AdminQueue, ApiStageArtifact, ApiCreate, ApiCreateReplyLost, ApiCreateFails,
           ApiPromote, ApiPromoteFails, ApiReady, ApiReadyFails, ApiReadyReplyLost, ApiDeleteRow,
           ApiDeleteArtifact
<1>3. CASE \E w \in Workers : WorkerStep(w) \/ WorkerDies(w)
  <2>1. PICK w \in Workers : WorkerStep(w) \/ WorkerDies(w)
    BY <1>3
  <2>2. /\ worker[w].pc \in {"claimed", "started", "executing"} => worker[w].job \in Jobs
        /\ worker[w].attempt \in Nat
    BY DEF Inv, HoldersHaveJobs, TypeOK, WorkerRecord
  <2>3. CASE WorkerReap(w)
    BY <1>0, <2>3, ReapStays, ResultsStayBest DEF WorkerReap
  <2>4. CASE WorkerClaim(w)
    <3>1. PICK j \in Jobs : ClaimNextEvaluationJob(w, j)
      BY <2>4 DEF WorkerClaim
    <3> QED
      BY <1>0, <3>1, RowStepStays, ResultsStayBest
  <2>5. CASE WorkerStart(w)
    <3>1. \/ UNCHANGED queueVars
          \/ /\ worker[w].job \in Jobs
             /\ MarkEvaluationStarted(w, worker[w].job, worker[w].attempt)
      BY <2>2, <2>5 DEF WorkerStart
    <3> QED
      BY <1>0, <1>1, <3>1, StartStays, ResultsStayBest DEF queueVars
  <2>6. CASE WorkerRefresh(w)
    <3>1. \/ UNCHANGED queueVars
          \/ /\ worker[w].job \in Jobs
             /\ RefreshEvaluationJobClaim(w, worker[w].job, worker[w].attempt)
      BY <2>2, <2>6 DEF WorkerRefresh
    <3> QED
      BY <1>0, <1>1, <2>2, <3>1, RowStepStays, ResultsStayBest DEF queueVars
  <2>7. CASE WorkerRequeues(w)
    <3>1. \/ UNCHANGED queueVars
          \/ /\ worker[w].job \in Jobs
             /\ RequeueForCapacity(w, worker[w].job, worker[w].attempt)
      BY <2>2, <2>7 DEF WorkerRequeues
    <3> QED
      BY <1>0, <1>1, <3>1, RequeueStays, ResultsStayBest DEF queueVars
  <2>8. CASE WorkerCompletes(w) \/ WorkerFails(w)
    <3>1. PICK status \in TerminalStatuses, score \in Nat : WorkerFinish(w, status, score)
      BY <2>8, ScoresAssumption DEF WorkerCompletes, WorkerFails, TerminalStatuses
    <3>2. worker[w].job \in Jobs
      BY <2>2, <2>8 DEF WorkerCompletes, WorkerFails
    <3>3. \/ UNCHANGED queueVars
          \/ MarkEvaluationFinished(w, worker[w].job, worker[w].attempt, status, score)
      BY <3>1 DEF WorkerFinish
    <3> QED
      BY <1>0, <1>1, <3>2, <3>3, FinishKeepsBest DEF queueVars
  <2>9. CASE WorkerFindsNothing(w) \/ WorkerExecute(w) \/ WorkerErrs(w) \/ WorkerDies(w)
    BY <1>1, <2>9 DEF WorkerFindsNothing, WorkerExecute, WorkerErrs, WorkerDies, queueVars
  <2> QED
    BY <2>1, <2>3, <2>4, <2>5, <2>6, <2>7, <2>8, <2>9 DEF WorkerStep
<1>4. CASE \E j \in Jobs : TimePasses(j)
  <2>1. PICK j \in Jobs : ComesDue(j) \/ Expires(j)
    BY <1>4 DEF TimePasses
  <2> QED
    BY <1>0, <2>1, RowStepStays, ResultsStayBest
<1>5. CASE UNCHANGED vars
  BY <1>1, <1>5 DEF vars
<1> QED
  BY <1>2, <1>3, <1>4, <1>5 DEF Next

\* The leaderboard row of a scope is at least as good as every completed official
\* run of the scope, whatever reruns are queued, lost, requeued or reaped over
\* it: only mark_evaluation_finished adds a result, the reaper and the rejudge
\* repair no row, and the clean-up of a failed creation deletes a submission
\* whose only job is still staged. (A handler whose reply was lost may delete a
\* submission that has results by then: hence the condition.)
THEOREM BestSafety == ~CleanupRaces => (Spec => []LeaderboardIsBest)
<1> SUFFICES ASSUME ~CleanupRaces PROVE Spec => []LeaderboardIsBest
  OBVIOUS
<1>1. Init => HandlersHold /\ LeaderboardIsBest
  <2> SUFFICES ASSUME Init PROVE HandlersHold /\ LeaderboardIsBest
    OBVIOUS
  <2>1. \A s \in Submissions : api[s].pc = "none"
    BY DEF Init
  <2>2. \A j \in Jobs : evaluation[j].status = "absent"
    BY DEF Init, QueueInit, AbsentEvaluation
  <2> QED
    BY <2>1, <2>2 DEF HandlersHold, HandlerHolds, LeaderboardIsBest, OfficialResults
<1>2. Inv /\ HandlersHold /\ LeaderboardIsBest /\ [Next]_vars => HandlersHold' /\ LeaderboardIsBest'
  BY HandlersHoldStep, BestStep
<1> QED
  BY <1>1, <1>2, Invariance, PTL DEF Spec

=============================================================================
