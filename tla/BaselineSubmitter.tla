------------------------- MODULE BaselineSubmitter -------------------------
(***************************************************************************)
(* The command that submits the checked-in baseline solutions              *)
(* (ops/src/baseline_submitter.rs).  It goes through the challenges and    *)
(* targets of a deployment in order, submits each baseline over HTTP,      *)
(* waits for its evaluation and appends what happened to a JSON-lines      *)
(* state file.  A later run loads that file to skip what is completed and  *)
(* to resume what was submitted.  Replies may be lost, the state file may  *)
(* fail to take a line, and the command may die between any two steps.     *)
(***************************************************************************)
EXTENDS Integers, Sequences, FiniteSets

CONSTANTS
  Baselines,   \* the (challenge, target) pairs, in the order of the run
  Deferred,    \* the baselines an audit or a solution note defers
  NoSolution,     \* the baselines with no checked-in solution
  MaxRuns,     \* bound on the number of runs
  MaxCreated   \* bound on the submissions the platform takes

Keys == {Baselines[i] : i \in DOMAIN Baselines}

ASSUME BaselinesAssumption ==
  /\ Baselines \in Seq(Keys)
  /\ \A i, j \in DOMAIN Baselines : Baselines[i] = Baselines[j] => i = j
  /\ Deferred \cup NoSolution \subseteq Keys
  /\ MaxRuns \in Nat /\ MaxCreated \in Nat

VARIABLES
  created,    \* the submissions the platform holds, in order of creation
  stateFile,  \* the last line of each baseline in the state file
  torn,       \* whether the last line of the state file is incomplete
  loaded,     \* the records the running command works with
  submitter,  \* the running command
  runs,       \* the number of runs so far
  unrecorded, \* per baseline, creations whose id never reached the file
  resubmits   \* per baseline, attempts made under --resubmit

baselineVars == <<created, stateFile, torn, loaded, submitter, runs,
                  unrecorded, resubmits>>

-----------------------------------------------------------------------------
(* Records and the command's arguments.                                    *)

\* A line of the state file: the status and the submission id, 0 for none.
NoRecord == [status |-> "none", id |-> 0]

\* The running command: where it is, the position in the list, the arguments,
\* the work counted against --limit, and the submission it waits for.
Idle == [at |-> "idle", next |-> 1, resubmit |-> FALSE, dryRun |-> FALSE,
         limit |-> 0, includeDeferred |-> FALSE, counted |-> 0, id |-> 0]

Key == Baselines[submitter.next]

\* The list_challenges and select_targets loop is over.
Exhausted == submitter.next > Len(Baselines)

\* deferlist, the solution directory and solution_defer_marker.
Skipped(k) ==
  k \in NoSolution \/ (k \in Deferred /\ ~submitter.includeDeferred)

\* A baseline the file says is completed is not submitted again.
AlreadyDone(k) == ~submitter.resubmit /\ loaded[k].status = "completed"

\* A variant that forgets a submission it once failed to wait for.
ResumableSubmissionId_Forgets(k) ==
  IF submitter.resubmit \/ loaded[k].status \in {"completed", "failed_to_wait"}
  THEN 0 ELSE loaded[k].id

\* resumable_submission_id: 0 when there is nothing to resume.
ResumableSubmissionId(k) ==
  IF submitter.resubmit \/ loaded[k].status = "completed"
  THEN 0 ELSE loaded[k].id

LimitReached == submitter.limit # 0 /\ submitter.counted >= submitter.limit

-----------------------------------------------------------------------------
(* The state file.                                                         *)

\* append_state: a complete line, or a failure that leaves none or a part.
AppendState(k, record) ==
  /\ ~torn
  /\ stateFile' = [stateFile EXCEPT ![k] = record]
  /\ UNCHANGED torn

AppendFails ==
  /\ torn' \in {torn, TRUE}
  /\ UNCHANGED stateFile

\* After a record: count it against the limit, go on with the next target.
Counted(s) ==
  [s EXCEPT !.at = "loop", !.next = @ + 1, !.counted = @ + 1, !.id = 0]

-----------------------------------------------------------------------------
(* The run.                                                                *)

\* run: load_state refuses a file with an incomplete line.
StartRun(resubmit, dryRun, limit, includeDeferred) ==
  /\ submitter.at = "idle" /\ runs < MaxRuns
  /\ runs' = runs + 1
  /\ IF torn
     THEN UNCHANGED <<loaded, submitter>>
     ELSE /\ loaded' = stateFile
          /\ submitter' = [Idle EXCEPT !.at = "loop", !.resubmit = resubmit,
                                       !.dryRun = dryRun, !.limit = limit,
                                       !.includeDeferred = includeDeferred]
  /\ UNCHANGED <<created, stateFile, torn, unrecorded, resubmits>>

\* A read the loop makes (get_challenge, packaging, an undeclared target)
\* fails and ends the run.
ReadFails ==
  /\ submitter.at = "loop" /\ ~Exhausted
  /\ ~Skipped(Key)
  /\ submitter' = Idle
  /\ UNCHANGED <<created, stateFile, torn, loaded, runs, unrecorded,
                 resubmits>>

\* The end of the list, or the limit before the next target.
FinishRun ==
  /\ submitter.at = "loop"
  /\ \/ Exhausted
     \/ ~Exhausted /\ ~Skipped(Key) /\ LimitReached
  /\ submitter' = Idle
  /\ UNCHANGED <<created, stateFile, torn, loaded, runs, unrecorded,
                 resubmits>>

\* The branches of the loop that submit nothing: skipped and completed
\* baselines, and the two dry-run answers, which count against the limit.
PassOver ==
  /\ submitter.at = "loop" /\ ~Exhausted
  /\ \/ /\ Skipped(Key) \/ (~LimitReached /\ AlreadyDone(Key))
        /\ submitter' = [submitter EXCEPT !.next = @ + 1]
     \/ /\ ~Skipped(Key) /\ ~LimitReached /\ ~AlreadyDone(Key)
        /\ submitter.dryRun
        /\ submitter' = Counted(submitter)
  /\ UNCHANGED <<created, stateFile, torn, loaded, runs, unrecorded,
                 resubmits>>

Working ==
  /\ submitter.at = "loop" /\ ~Exhausted
  /\ ~Skipped(Key) /\ ~LimitReached /\ ~AlreadyDone(Key) /\ ~submitter.dryRun

\* Resume a submission the file names: wait for it again.
Resume ==
  /\ Working
  /\ ResumableSubmissionId(Key) # 0
  /\ submitter' = [submitter EXCEPT !.at = "wait",
                                    !.id = ResumableSubmissionId(Key)]
  /\ UNCHANGED <<created, stateFile, torn, loaded, runs, unrecorded,
                 resubmits>>

\* create_submission: the platform takes the baseline or refuses it, and the
\* reply of one it took may be lost.
CreateSubmission(taken, reply) ==
  /\ Working
  /\ ResumableSubmissionId(Key) = 0
  /\ IF taken
     THEN /\ Len(created) < MaxCreated
          /\ created' = Append(created, [key |-> Key, status |-> "queued"])
          /\ unrecorded' = [unrecorded EXCEPT ![Key] = @ + 1]
     ELSE UNCHANGED <<created, unrecorded>>
  /\ resubmits' = IF submitter.resubmit
                  THEN [resubmits EXCEPT ![Key] = @ + 1] ELSE resubmits
  /\ submitter' = IF taken /\ reply
                  THEN [submitter EXCEPT !.at = "submitted",
                                         !.id = Len(created) + 1]
                  ELSE [submitter EXCEPT !.at = "refused"]
  /\ UNCHANGED <<stateFile, torn, loaded, runs>>

\* The record of a creation that failed: no id.
RecordRefused ==
  LET record == [status |-> "failed_to_submit", id |-> 0] IN
  /\ submitter.at = "refused"
  /\ AppendState(Key, record)
  /\ loaded' = [loaded EXCEPT ![Key] = record]
  /\ submitter' = Counted(submitter)
  /\ UNCHANGED <<created, runs, unrecorded, resubmits>>

\* The record of a creation that was answered, before the wait.
RecordSubmitted ==
  /\ submitter.at = "submitted"
  /\ AppendState(Key, [status |-> "queued", id |-> submitter.id])
  /\ unrecorded' = [unrecorded EXCEPT ![Key] = @ - 1]
  /\ submitter' = [submitter EXCEPT !.at = "wait"]
  /\ UNCHANGED <<created, loaded, runs, resubmits>>

\* wait_submission ends: a final status, or a timeout or a failed poll, which
\* keeps the id.  The record follows.
RecordWaited(timedOut) ==
  LET status == created[submitter.id].status
      record == [status |-> IF timedOut THEN "failed_to_wait" ELSE status,
                 id |-> submitter.id]
  IN  /\ submitter.at = "wait"
      /\ timedOut \/ status \in {"completed", "failed"}
      /\ AppendState(Key, record)
      /\ loaded' = [loaded EXCEPT ![Key] = record]
      /\ submitter' = Counted(submitter)
      /\ UNCHANGED <<created, runs, unrecorded, resubmits>>

\* append_state fails and ends the run.
RecordFails ==
  /\ submitter.at \in {"refused", "submitted", "wait"}
  /\ AppendFails
  /\ submitter' = Idle
  /\ UNCHANGED <<created, loaded, runs, unrecorded, resubmits>>

\* The command dies (Ctrl-C, a crash) between two of its steps.
Killed ==
  /\ submitter.at # "idle"
  /\ submitter' = Idle
  /\ UNCHANGED <<created, stateFile, torn, loaded, runs, unrecorded,
                 resubmits>>

\* The platform evaluates what it holds, in its own time.
Evaluate(i) ==
  /\ created[i].status = "queued"
  /\ \E status \in {"completed", "failed"} :
       created' = [created EXCEPT ![i].status = status]
  /\ UNCHANGED <<stateFile, torn, loaded, submitter, runs, unrecorded,
                 resubmits>>

BaselineInit ==
  /\ created = <<>>
  /\ stateFile = [k \in Keys |-> NoRecord]
  /\ torn = FALSE
  /\ loaded = [k \in Keys |-> NoRecord]
  /\ submitter = Idle
  /\ runs = 0
  /\ unrecorded = [k \in Keys |-> 0]
  /\ resubmits = [k \in Keys |-> 0]

BaselineNext ==
  \/ \E resubmit, dryRun, include \in BOOLEAN, limit \in {0, 1} :
       StartRun(resubmit, dryRun, limit, include)
  \/ ReadFails
  \/ FinishRun
  \/ PassOver
  \/ Resume
  \/ \E taken, reply \in BOOLEAN : CreateSubmission(taken, reply)
  \/ RecordRefused
  \/ RecordSubmitted
  \/ \E timedOut \in BOOLEAN : RecordWaited(timedOut)
  \/ RecordFails
  \/ Killed
  \/ \E i \in DOMAIN created : Evaluate(i)

BaselineSpec == BaselineInit /\ [][BaselineNext]_baselineVars

-----------------------------------------------------------------------------
(* Properties.                                                             *)

\* A baseline takes one submission, plus one for each earlier creation whose
\* id never reached the state file (a lost reply, a failed append or a crash
\* in between) and one for each attempt the operator forced with --resubmit:
\* timed-out waits, failed evaluations and interrupted runs are resumed and
\* never pay the platform a second evaluation.
OneSubmissionPerBaseline ==
  \A k \in Keys :
    Cardinality({i \in DOMAIN created : created[i].key = k})
      <= 1 + unrecorded[k] + resubmits[k]
=============================================================================
