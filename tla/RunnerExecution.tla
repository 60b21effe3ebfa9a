--------------------------- MODULE RunnerExecution ---------------------------
(* The worker's cycle over Docker: container reconciliation, then one claimed  *)
(* attempt run phase by phase in containers that write to bounded slots        *)
(* (crates/runner, reconcile_worker_containers of crates/services and          *)
(* backend/worker/src/cycle.rs). Claims are those JobClaims promises. Docker   *)
(* outlives the workers: a worker that dies frees its file locks, nothing else.*)
EXTENDS JobClaims, Sequences, FiniteSets

CONSTANTS
    Topology,     \* of a job's challenge: separated, piped or coexecuted
    Phases,       \* the optional phases a job has: setup, build, evaluator_setup
    RunCount,     \* runs of a job's manifest (separated)
    Redacted,     \* jobs run under RedactedOfficialPrivateBenchmark
    SlotsOf,      \* the slot directories of a writable phase, sorted
    MaxBoxes,     \* bound: containers at a time
    NoBox, NoJob, NoAttempt,
    MaxFaults,    \* bound: Docker, storage and file system calls that fail
    MaxCrashes    \* bound: workers that die

ASSUME BoundsAssumption == MaxBoxes \in Nat /\ MaxFaults \in Nat /\ MaxCrashes \in Nat

Boxes == 1..MaxBoxes   \* container ids

WritablePhases == {"solution-setup", "solution-build", "solution-run", "evaluator-setup",
                   "evaluator-score"}
Slots == UNION {{SlotsOf[p][i] : i \in DOMAIN SlotsOf[p]} : p \in WritablePhases}

ASSUME SlotsAssumption == \A p \in WritablePhases : SlotsOf[p] \in Seq(Slots)
ASSUME PlanAssumption == /\ Topology \in [Jobs -> {"separated", "piped", "coexecuted"}]
                         /\ RunCount \in [Jobs -> Nat]
ASSUME NamesAssumption == NoBox \notin Boxes /\ NoJob \notin Jobs

VARIABLES
    lock,     \* the worker process that holds a slot's file lock
    tree,     \* the attempt whose files are in a slot's work path
    rooted,   \* slots with files the host cannot remove
    box,      \* the Docker daemon's containers with their labels
    log,      \* runner logs in storage, by job and attempt
    proc,     \* the worker processes
    faults,   \* failed calls so far
    forfeited \* history: the attempts whose claim has lapsed, or went with its job

vars == <<claim, lock, tree, rooted, box, log, proc, faults, forfeited>>

-----------------------------------------------------------------------------
\* One execution of a claimed job, which containers and log keys are named for.
Attempts == [worker : Workers, job : Jobs, number : 1..MaxAttempts]
BoxType == [state : {"none", "created", "running", "exited"},
            attempt : Attempts \cup {NoAttempt},
            slot : Slots \cup {NoBox},
            old : BOOLEAN]                  \* created ten minutes ago or more
AbsentBox == [state |-> "none", attempt |-> NoAttempt, slot |-> NoBox, old |-> FALSE]

Results == {"ok", "capacity", "error"}
ProcType ==
    [pc : {"off", "dead", "idle", "list", "sweep", "kill", "claim", "prepare", "acquire", "check",
           "reset", "create", "start", "wait", "repair", "repairing", "remove", "judge", "unwind",
           "log", "clean", "report"},
     booted : BOOLEAN,
     seen : SUBSET [box : Boxes, state : {"created", "running", "exited"},
                    attempt : Attempts, old : BOOLEAN],
     target : Boxes \cup {NoBox},
     job : Jobs \cup {NoJob}, number : 0..MaxAttempts,
     phase : Nat, want : Seq(WritablePhases), scan : Nat,
     leases : Seq(Slots), mine : Seq(Boxes), outcome : {"ok", "bad", "docker"},
     met : Results, result : Results]

IdleProc == [pc |-> "idle", booted |-> TRUE, seen |-> {}, target |-> NoBox, job |-> NoJob,
             number |-> 0, phase |-> 0, want |-> <<>>, scan |-> 1, leases |-> <<>>, mine |-> <<>>,
             outcome |-> "ok", met |-> "ok", result |-> "ok"]

Init ==
    /\ claim = [j \in Jobs |-> Unclaimed("queued", 0)]
    /\ lock = [s \in Slots |-> NoWorker]
    /\ tree = [s \in Slots |-> NoAttempt]
    /\ rooted = {}
    /\ box = [b \in Boxes |-> AbsentBox]
    /\ log = {}
    /\ proc = [w \in Workers |-> [IdleProc EXCEPT !.pc = "off", !.booted = FALSE]]
    /\ faults = 0
    /\ forfeited = {}

-----------------------------------------------------------------------------
(* The phases of an attempt and what each one mounts.                          *)

\* Phase p, when the manifest or the contract of the job declares the command.
Optional(j, command, p) == IF command \in Phases[j] THEN <<p>> ELSE <<>>

\* run_setup_and_build: the manifest's phases other than run.
SolutionPhases(j) == Optional(j, "setup", "setup") \o Optional(j, "build", "build")

\* The three topologies after setup and build, each with the evaluator's setup.
SeparatedPhases(j) ==
    Optional(j, "evaluator_setup", "evaluator_setup") \o [i \in 1..RunCount[j] |-> "run"]
    \o <<"evaluator">>
PipedPhases(j) == Optional(j, "evaluator_setup", "session_setup") \o <<"session">>
CoexecutedPhases(j) == Optional(j, "evaluator_setup", "benchmark_setup") \o <<"benchmark">>

PhasesOf(j) ==
    SolutionPhases(j) \o CASE Topology[j] = "separated" -> SeparatedPhases(j)
                           [] Topology[j] = "piped" -> PipedPhases(j)
                           [] Topology[j] = "coexecuted" -> CoexecutedPhases(j)

\* The writable mounts of each phase; each mount gets a lease and a container.
SolutionMounts == [setup |-> <<"solution-setup">>, build |-> <<"solution-build">>]
RunMounts == [run |-> <<"solution-run">>]
EvaluatorSetupMounts == [evaluator_setup |-> <<"evaluator-setup">>]
SessionSetupMounts == [session_setup |-> <<"evaluator-setup">>]
BenchmarkSetupMounts == [benchmark_setup |-> <<"evaluator-setup">>]
EvaluatorMounts == [evaluator |-> <<"evaluator-score">>]
SessionMounts == [session |-> <<"solution-run", "evaluator-score">>]
BenchmarkMounts == [benchmark |-> <<"evaluator-score">>]

MountsOf(p) ==
    CASE p \in {"setup", "build"} -> SolutionMounts[p]
      [] p = "run" -> RunMounts[p]
      [] p = "evaluator_setup" -> EvaluatorSetupMounts[p]
      [] p = "session_setup" -> SessionSetupMounts[p]
      [] p = "benchmark_setup" -> BenchmarkSetupMounts[p]
      [] p = "evaluator" -> EvaluatorMounts[p]
      [] p = "session" -> SessionMounts[p]
      [] p = "benchmark" -> BenchmarkMounts[p]

Me(w) == [worker |-> w, job |-> proc[w].job, number |-> proc[w].number]
Phase(w) == PhasesOf(proc[w].job)[proc[w].phase]

\* The leases of the current phase are the last ones taken.
PhaseSlots(w) ==
    LET n == Len(proc[w].leases) IN
    SubSeq(proc[w].leases, n - Len(MountsOf(Phase(w))) + 1, n)

MineSet(w) == {proc[w].mine[i] : i \in DOMAIN proc[w].mine}
LeaseSet(w) == {proc[w].leases[i] : i \in DOMAIN proc[w].leases}
Executing(w) == proc[w].job # NoJob

\* A container id not in use and in nobody's list: Docker never reuses one.
FreeBoxes == {b \in Boxes : /\ box[b].state = "none"
                            /\ \A w \in Workers : /\ b \notin MineSet(w) \cup {proc[w].target}
                                                  /\ \A x \in proc[w].seen : x.box # b}

\* The id of the next container: the first free one, as it makes no difference
\* which id Docker picks.
NewBoxes == {b \in FreeBoxes : \A c \in FreeBoxes : b <= c}

\* container_labels: the identity and the slot of the container's writable mount.
NewBox(w, s, state) == [state |-> state, attempt |-> Me(w), slot |-> s, old |-> FALSE]

\* The daemon's containers after those of bs are removed, running or not.
Without(bs) == [b \in Boxes |-> IF b \in bs THEN AbsentBox ELSE box[b]]

Go(w, r) == proc' = [proc EXCEPT ![w] = r]
To(w, pc) == Go(w, [proc[w] EXCEPT !.pc = pc])
Fault == faults < MaxFaults /\ faults' = faults + 1
NoFault == UNCHANGED faults

-----------------------------------------------------------------------------
(* Starting, and reconcile_worker_containers.                                  *)

\* Worker::new: containers are reconciled before the first cycle.
StartWorker(w) ==
    /\ proc[w].pc = "off"
    /\ To(w, "list")
    /\ UNCHANGED <<claim, lock, tree, rooted, box, log, faults>>

ReapClaims(w) ==
    /\ proc[w].pc = "idle"
    /\ Reap({})
    /\ To(w, "list")
    /\ UNCHANGED <<lock, tree, rooted, box, log, faults>>

ListContainers(w) ==
    /\ proc[w].pc = "list"
    /\ Go(w, [proc[w] EXCEPT !.pc = "sweep",
                !.seen = {[box |-> b, state |-> box[b].state, attempt |-> box[b].attempt,
                           old |-> box[b].old] : b \in {c \in Boxes : box[c].state # "none"}}])
    /\ UNCHANGED <<claim, lock, tree, rooted, box, log, faults>>

\* Mutant: attempts are counted from zero.
ClaimIsStale_OffByOne(a) ==
    ~ (Holds(a.worker, a.job, a.number - 1) /\ claim[a.job].fresh)

\* Mutant: a container without a running claim is not stale.
ClaimIsStale_Lapsed(a) == claim[a.job].status = "running" /\ ~claim[a.job].fresh

\* runner_container_claim_is_stale.
ClaimIsStale(a) == ~ (Holds(a.worker, a.job, a.number) /\ claim[a.job].fresh)

\* One container of the list: a stopped one goes when it is old, a running one
\* when the claim read now is not a fresh claim of its attempt.
SweepContainer(w, x) ==
    /\ proc[w].pc = "sweep"
    /\ x \in proc[w].seen
    /\ LET rest == [proc[w] EXCEPT !.seen = @ \ {x}] IN
       IF x.state = "running"
       THEN /\ Go(w, IF ClaimIsStale(x.attempt)
                     THEN [rest EXCEPT !.pc = "kill", !.target = x.box] ELSE rest)
            /\ UNCHANGED box
       ELSE /\ Go(w, rest)
            /\ box' = IF x.old THEN Without({x.box}) ELSE box
    /\ UNCHANGED <<claim, lock, tree, rooted, log, faults>>

\* kill_and_remove_container.
KillContainer(w) ==
    /\ proc[w].pc = "kill"
    /\ box' = Without({proc[w].target})
    /\ Go(w, [proc[w] EXCEPT !.pc = "sweep", !.target = NoBox])
    /\ UNCHANGED <<claim, lock, tree, rooted, log, faults>>

\* A Docker or database error ends the cycle, or the start.
MaintenanceFails(w) ==
    /\ proc[w].pc \in {"list", "sweep", "kill"}
    /\ proc[w].booted
    /\ Fault
    /\ Go(w, IdleProc)
    /\ UNCHANGED <<claim, lock, tree, rooted, box, log>>

SweepEnds(w) ==
    /\ proc[w].pc = "sweep"
    /\ proc[w].seen = {}
    /\ Go(w, IF proc[w].booted THEN [proc[w] EXCEPT !.pc = "claim"] ELSE IdleProc)
    /\ UNCHANGED <<claim, lock, tree, rooted, box, log, faults>>

ClaimJob(w, j) ==
    /\ proc[w].pc = "claim"
    /\ Claim(w, j)
    /\ Go(w, [IdleProc EXCEPT !.pc = "prepare", !.job = j, !.number = claim[j].attempt + 1])
    /\ UNCHANGED <<lock, tree, rooted, box, log, faults>>

FindNothing(w) ==
    /\ proc[w].pc = "claim"
    /\ \A j \in Jobs : ~ (claim[j].status = "queued" /\ claim[j].attempt < MaxAttempts)
    /\ Go(w, IdleProc)
    /\ UNCHANGED <<claim, lock, tree, rooted, box, log, faults>>

-----------------------------------------------------------------------------
(* execute_evaluation_job.                                                     *)

\* The inner execution ends with r; what follows is the same for every r.
Ends(w, r) == [proc[w] EXCEPT !.pc = "unwind", !.met = r, !.result = r]

\* Phase n begins by leasing its mounts; after the last one the result is read.
Enters(w, n) ==
    IF n > Len(PhasesOf(proc[w].job))
    THEN Ends(w, "ok")
    ELSE [proc[w] EXCEPT !.pc = "acquire", !.phase = n, !.scan = 1, !.mine = <<>>, !.outcome = "ok",
                         !.want = MountsOf(PhasesOf(proc[w].job)[n])]

\* Bundle, contract, images, artifact and manifest are read, or one is refused.
Prepare(w) ==
    /\ proc[w].pc = "prepare"
    /\ Go(w, Enters(w, 1)) \/ Go(w, Ends(w, "error"))
    /\ UNCHANGED <<claim, lock, tree, rooted, box, log, faults>>

ScanSlots(w) == SlotsOf[Head(proc[w].want)]
ScanSlot(w) == ScanSlots(w)[proc[w].scan]

\* lock_slot: a slot whose lock another process holds is passed over.
TrySlot(w) ==
    /\ proc[w].pc = "acquire"
    /\ proc[w].scan <= Len(ScanSlots(w))
    /\ IF lock[ScanSlot(w)] = NoWorker
       THEN /\ lock' = [lock EXCEPT ![ScanSlot(w)] = w]
            /\ To(w, "check")
       ELSE /\ Go(w, [proc[w] EXCEPT !.scan = @ + 1])
            /\ UNCHANGED lock
    /\ UNCHANGED <<claim, tree, rooted, box, log, faults>>

\* acquire_slot does not wait: no slot, no capacity.
NoSlotLeft(w) ==
    /\ proc[w].pc = "acquire"
    /\ proc[w].scan > Len(ScanSlots(w))
    /\ Go(w, Ends(w, "capacity"))
    /\ UNCHANGED <<claim, lock, tree, rooted, box, log, faults>>

\* Mutant: the lock is taken for proof that nobody uses the slot.
SlotHasLiveContainer_Never(s) == FALSE

\* slot_has_live_runner_container: docker ps, running containers only.
SlotHasLiveContainer(s) == \E b \in Boxes : box[b].state = "running" /\ box[b].slot = s

PassSlot(w) ==
    /\ lock' = [lock EXCEPT ![ScanSlot(w)] = NoWorker]
    /\ Go(w, [proc[w] EXCEPT !.pc = "acquire", !.scan = @ + 1])

CheckSlot(w) ==
    /\ proc[w].pc = "check"
    /\ IF SlotHasLiveContainer(ScanSlot(w))
       THEN PassSlot(w)
       ELSE To(w, "reset") /\ UNCHANGED lock
    /\ UNCHANGED <<claim, tree, rooted, box, log, faults>>

\* reset_slot_work_path; a work path that cannot be removed leaves the slot
\* locked by nobody and used by nobody.
ResetSlot(w) ==
    /\ proc[w].pc = "reset"
    /\ IF ScanSlot(w) \in rooted
       THEN PassSlot(w) /\ UNCHANGED tree
       ELSE /\ tree' = [tree EXCEPT ![ScanSlot(w)] = Me(w)]
            /\ Go(w, [proc[w] EXCEPT !.leases = Append(@, ScanSlot(w)), !.scan = 1,
                                     !.want = Tail(@),
                                     !.pc = IF Len(proc[w].want) = 1 THEN "create" ELSE "acquire"])
            /\ UNCHANGED lock
    /\ UNCHANGED <<claim, rooted, box, log, faults>>

\* run_container and run_interactive_stdio_session: one container per mount,
\* created one after the other.
CreateContainer(w) ==
    /\ proc[w].pc = "create"
    /\ LET n == Len(proc[w].mine) + 1 IN
       \E b \in NewBoxes :
       /\ box' = [box EXCEPT ![b] = NewBox(w, PhaseSlots(w)[n], "created")]
       /\ Go(w, [proc[w] EXCEPT !.pc = IF n = Len(PhaseSlots(w)) THEN "start" ELSE "create",
                                !.mine = Append(@, b)])
    /\ UNCHANGED <<claim, lock, tree, rooted, log, faults>>

\* The containers created before the one that failed are removed.
CreateFails(w) ==
    /\ proc[w].pc = "create"
    /\ Fault
    /\ Go(w, IF proc[w].mine = <<>> THEN Ends(w, "error")
             ELSE [proc[w] EXCEPT !.pc = "remove", !.outcome = "docker"])
    /\ UNCHANGED <<claim, lock, tree, rooted, box, log>>

\* The containers are started in the same order; scan counts them. A started
\* image may leave files of other owners in its writable mount. The call fails
\* when the container is gone or Docker refuses, and those before it still run.
StartContainer(w) ==
    /\ proc[w].pc = "start"
    /\ LET n == proc[w].scan
           b == proc[w].mine[n] IN
       \/ /\ box[b].state = "created"
          /\ box' = [box EXCEPT ![b].state = "running"]
          /\ rooted' = rooted \/ rooted' = rooted \cup {box[b].slot}
          /\ Go(w, IF n = Len(proc[w].mine) THEN [proc[w] EXCEPT !.pc = "wait", !.scan = 1]
                                           ELSE [proc[w] EXCEPT !.scan = n + 1])
          /\ NoFault
       \/ /\ IF box[b].state = "none" THEN NoFault ELSE Fault
          /\ Go(w, [proc[w] EXCEPT !.pc = "repair", !.scan = 1, !.outcome = "docker"])
          /\ UNCHANGED <<box, rooted>>
    /\ UNCHANGED <<claim, lock, tree, log>>

Stop(bs) == [b \in Boxes |-> IF b \in bs /\ box[b].state = "running"
                             THEN [box[b] EXCEPT !.state = "exited"] ELSE box[b]]

\* Every container of the phase has ended; the logs of one that was removed
\* meanwhile can no longer be read.
WaitEnds(w) ==
    /\ proc[w].pc = "wait"
    /\ \A b \in MineSet(w) : box[b].state # "running"
    /\ \E o \in IF \E b \in MineSet(w) : box[b].state = "none" THEN {"docker"} ELSE {"ok", "bad"} :
          Go(w, [proc[w] EXCEPT !.pc = "repair", !.outcome = o])
    /\ UNCHANGED <<claim, lock, tree, rooted, box, log, faults>>

\* Mutant: a phase that timed out is not repaired.
WaitTimesOut_NoRepair(w) ==
    /\ proc[w].pc = "wait"
    /\ \E b \in MineSet(w) : box[b].state = "running"
    /\ box' = Stop(MineSet(w))
    /\ Go(w, [proc[w] EXCEPT !.pc = "remove", !.outcome = "bad"])
    /\ UNCHANGED <<claim, lock, tree, rooted, log, faults>>

\* The phase's timeout kills what still runs.
WaitTimesOut(w) ==
    /\ proc[w].pc = "wait"
    /\ \E b \in MineSet(w) : box[b].state = "running"
    /\ box' = Stop(MineSet(w))
    /\ Go(w, [proc[w] EXCEPT !.pc = "repair", !.outcome = "bad"])
    /\ UNCHANGED <<claim, lock, tree, rooted, log, faults>>

\* A failed wait returns while the containers run.
WaitFails(w) ==
    /\ proc[w].pc = "wait"
    /\ Fault
    /\ Go(w, [proc[w] EXCEPT !.pc = "repair", !.outcome = "docker"])
    /\ UNCHANGED <<claim, lock, tree, rooted, box, log>>

\* repair_bind_mount_permissions of the phase's mounts, one sidecar at a time
\* under the labels of the container it follows; scan counts them.
StartRepair(w) ==
    /\ proc[w].pc = "repair"
    /\ \/ /\ proc[w].scan > Len(PhaseSlots(w))
          /\ Go(w, [proc[w] EXCEPT !.pc = "remove", !.scan = 1])
          /\ UNCHANGED <<box, faults>>
       \/ /\ proc[w].scan <= Len(PhaseSlots(w))
          /\ \E b \in NewBoxes :
             /\ box' = [box EXCEPT ![b] = NewBox(w, PhaseSlots(w)[proc[w].scan], "running")]
             /\ Go(w, [proc[w] EXCEPT !.pc = "repairing", !.target = b])
          /\ NoFault
       \/ /\ proc[w].scan <= Len(PhaseSlots(w))
          /\ Fault
          /\ Go(w, [proc[w] EXCEPT !.scan = @ + 1, !.outcome = "docker"])
          /\ UNCHANGED box
    /\ UNCHANGED <<claim, lock, tree, rooted, log>>

\* The sidecar has done its work, or failed, or was removed by another worker.
EndRepair(w) ==
    /\ proc[w].pc = "repairing"
    /\ LET b == proc[w].target
           s == PhaseSlots(w)[proc[w].scan]
           next == [proc[w] EXCEPT !.pc = "repair", !.scan = @ + 1, !.target = NoBox] IN
       /\ box' = Without({b})
       /\ \/ /\ box[b].state # "none"
             /\ rooted' = rooted \ {s}
             /\ Go(w, next)
             /\ NoFault
          \/ /\ IF box[b].state = "none" THEN NoFault ELSE Fault
             /\ Go(w, [next EXCEPT !.outcome = "docker"])
             /\ UNCHANGED rooted
    /\ UNCHANGED <<claim, lock, tree, log>>

\* remove_container with force, running or not, one container after the other;
\* one that cannot be removed does not keep the next from being tried.
RemoveContainer(w) ==
    /\ proc[w].pc = "remove"
    /\ LET n == proc[w].scan
           next == [proc[w] EXCEPT !.pc = IF n = Len(proc[w].mine) THEN "judge" ELSE "remove",
                                   !.scan = n + 1] IN
       \/ box' = Without({proc[w].mine[n]}) /\ Go(w, next) /\ NoFault
       \/ /\ Fault
          /\ Go(w, [next EXCEPT !.outcome = "docker"])
          /\ UNCHANGED box
    /\ UNCHANGED <<claim, lock, tree, rooted, log>>

\* Drop for BoundedSlotLease: the work path goes if it can, the lock always.
Dropped(ss) ==
    /\ lock' = [s \in Slots |-> IF s \in ss THEN NoWorker ELSE lock[s]]
    /\ tree' = [s \in Slots |-> IF s \in ss \ rooted THEN NoAttempt ELSE tree[s]]

\* The workspace of setup, once build has copied and replaced it.
ReplacesSetup(w) == Phase(w) = "build" /\ proc[w].phase > 1
ReplacedLeases(w) == IF ReplacesSetup(w) THEN {Head(proc[w].leases)} ELSE {}

\* A failed run of the participant is left to the evaluator; any other failure,
\* and a disk or output limit after any phase, ends the execution.
JudgePhase(w) ==
    /\ proc[w].pc = "judge"
    /\ \/ /\ proc[w].outcome = "ok" \/ (proc[w].outcome = "bad" /\ Phase(w) = "run")
          /\ Dropped(ReplacedLeases(w))
          /\ Go(w, [Enters(w, proc[w].phase + 1) EXCEPT
                       !.leases = IF ReplacesSetup(w) THEN Tail(@) ELSE @])
       \/ /\ Go(w, Ends(w, "error"))
          /\ UNCHANGED <<lock, tree>>
    /\ UNCHANGED <<claim, rooted, box, log, faults>>

\* The leases of the attempt are dropped when the execution returns.
Unwind(w) ==
    /\ proc[w].pc = "unwind"
    /\ Dropped(LeaseSet(w))
    /\ Go(w, [proc[w] EXCEPT !.pc = "log", !.leases = <<>>, !.mine = <<>>, !.want = <<>>, !.scan = 1])
    /\ UNCHANGED <<claim, rooted, box, log, faults>>

LogKey(w) == <<proc[w].job, proc[w].number>>

ShouldPersist(w) == proc[w].met # "capacity"

\* persist_runner_log: put refuses a key that exists.
PersistLog(w) ==
    /\ proc[w].pc = "log"
    /\ LET kept == [proc[w] EXCEPT !.pc = "clean"]
           lost == [proc[w] EXCEPT !.pc = "clean", !.result = IF @ = "ok" THEN "error" ELSE @] IN
       \/ ~ShouldPersist(w) /\ Go(w, kept) /\ UNCHANGED log /\ NoFault
       \/ /\ ShouldPersist(w) /\ LogKey(w) \notin log
          /\ log' = log \cup {LogKey(w)} /\ Go(w, kept) /\ NoFault
       \/ /\ ShouldPersist(w)
          /\ IF LogKey(w) \in log THEN NoFault ELSE Fault
          /\ Go(w, lost) /\ UNCHANGED log
    /\ UNCHANGED <<claim, lock, tree, rooted, box>>

\* sanitize_runner_error: a redacted attempt keeps no kind of error.
Sanitized(w, r) == IF proc[w].job \in Redacted /\ r # "ok" THEN "error" ELSE r

\* cleanup_paths of the working root; a failure is reported as a runner error.
CleanWorkspace(w) ==
    /\ proc[w].pc = "clean"
    /\ \/ Go(w, [proc[w] EXCEPT !.pc = "report", !.result = Sanitized(w, @)]) /\ NoFault
       \/ Go(w, [proc[w] EXCEPT !.pc = "report", !.result = "error"]) /\ Fault
    /\ UNCHANGED <<claim, lock, tree, rooted, box, log>>

\* run_one_cycle after the runner: only RunnerCapacity goes back to the queue.
Report(w) ==
    /\ proc[w].pc = "report"
    /\ IF ~Holds(w, proc[w].job, proc[w].number) THEN UNCHANGED claim
       ELSE IF proc[w].result = "capacity" THEN GiveBack(w, proc[w].job, proc[w].number)
       ELSE Settle(w, proc[w].job, proc[w].number)
    /\ Go(w, IdleProc)
    /\ UNCHANGED <<lock, tree, rooted, box, log, faults>>

-----------------------------------------------------------------------------
(* Everything else that happens.                                               *)

\* One tick of the lease task.
RefreshClaim(w) ==
    /\ Executing(w)
    /\ ~claim[proc[w].job].fresh
    /\ Refresh(w, proc[w].job, proc[w].number)
    /\ UNCHANGED <<lock, tree, rooted, box, log, proc, faults>>

\* The attempt that holds the claim of job j.
Holder(j) == [worker |-> claim[j].worker, job |-> j, number |-> claim[j].attempt]

ClaimLapses(j) ==
    /\ claim[j].fresh
    /\ Lapse(j)
    /\ forfeited' = forfeited \cup {Holder(j)}
    /\ UNCHANGED <<lock, tree, rooted, box, log, proc, faults>>

\* The API clean-up of a submission whose hand-over it takes for failed deletes
\* its job with it, also one that is claimed by now.
JobGoes(j) ==
    /\ claim[j].status \in {"queued", "running"}
    /\ Withdraw({j})
    /\ forfeited' = IF claim[j].status = "running" THEN forfeited \cup {Holder(j)} ELSE forfeited
    /\ UNCHANGED <<lock, tree, rooted, box, log, proc, faults>>

ContainerExits(b) ==
    /\ box[b].state = "running"
    /\ box' = Stop({b})
    /\ UNCHANGED <<claim, lock, tree, rooted, log, proc, faults>>

\* Ten minutes after its creation; the age of a running container tells nothing
\* until it stops. A container that a live worker created is started, and a repair
\* sidecar is over, within ten minutes.
ContainerAges(b) ==
    /\ box[b].state \in {"created", "exited"}
    /\ ~box[b].old
    /\ \A w \in Workers : proc[w].pc \in {"create", "start"} => b \notin MineSet(w)
    /\ \A w \in Workers : proc[w].pc = "repairing" => b # proc[w].target
    /\ box' = [box EXCEPT ![b].old = TRUE]
    /\ UNCHANGED <<claim, lock, tree, rooted, log, proc, faults>>

Dead == {w \in Workers : proc[w].pc = "dead"}

\* The process dies: its locks are free, its files and containers stay. Its
\* replacement has a worker id of its own.
WorkerDies(w) ==
    /\ Cardinality(Dead) < MaxCrashes
    /\ proc[w].pc \notin {"off", "dead"}
    /\ lock' = [s \in Slots |-> IF lock[s] = w THEN NoWorker ELSE lock[s]]
    /\ Go(w, [IdleProc EXCEPT !.pc = "dead"])
    /\ UNCHANGED <<claim, tree, rooted, box, log, faults>>

WorkerStep(w) ==
    \/ StartWorker(w)
    \/ ReapClaims(w)
    \/ ListContainers(w)
    \/ \E x \in proc[w].seen : SweepContainer(w, x)
    \/ KillContainer(w)
    \/ MaintenanceFails(w)
    \/ SweepEnds(w)
    \/ \E j \in Jobs : ClaimJob(w, j)
    \/ FindNothing(w)
    \/ Prepare(w)
    \/ TrySlot(w)
    \/ NoSlotLeft(w)
    \/ CheckSlot(w)
    \/ ResetSlot(w)
    \/ CreateContainer(w)
    \/ CreateFails(w)
    \/ StartContainer(w)
    \/ WaitEnds(w)
    \/ WaitTimesOut(w)
    \/ WaitFails(w)
    \/ StartRepair(w)
    \/ EndRepair(w)
    \/ RemoveContainer(w)
    \/ JudgePhase(w)
    \/ Unwind(w)
    \/ PersistLog(w)
    \/ CleanWorkspace(w)
    \/ Report(w)

Next ==
    \/ \E w \in Workers : (WorkerStep(w) \/ RefreshClaim(w) \/ WorkerDies(w)) /\ UNCHANGED forfeited
    \/ \E j \in Jobs : ClaimLapses(j) \/ JobGoes(j)
    \/ \E b \in Boxes : (ContainerExits(b) \/ ContainerAges(b)) /\ UNCHANGED forfeited

Spec == Init /\ [][Next]_vars

\* A live worker takes its next step (each phase has a timeout, the daemon and
\* the database answer), Compose starts the workers, and time passes.
FairSpec ==
    /\ Spec
    /\ \A w \in Workers : WF_vars(WorkerStep(w) /\ UNCHANGED forfeited)
    /\ \A b \in Boxes : WF_vars(ContainerAges(b) /\ UNCHANGED forfeited)
    /\ \A j \in Jobs : WF_vars(ClaimLapses(j) /\ \A w \in Workers : ~Holds(w, j, proc[w].number))

-----------------------------------------------------------------------------
(* Properties.                                                                *)

\* Every lock, slot, container, log and process has its type.
TypeOK ==
    /\ claim \in [Jobs -> ClaimType]
    /\ lock \in [Slots -> Workers \cup {NoWorker}]
    /\ tree \in [Slots -> Attempts \cup {NoAttempt}]
    /\ rooted \subseteq Slots
    /\ box \in [Boxes -> BoxType]
    /\ log \subseteq Jobs \X (1..MaxAttempts)
    /\ proc \in [Workers -> ProcType]
    /\ faults \in 0..MaxFaults
    /\ forfeited \subseteq Attempts

\* Two running containers that write to one slot belong to one attempt, also
\* after the worker that started the first one died and freed the slot's lock.
ExclusiveWriter ==
    \A b, c \in Boxes :
        /\ box[b].state = "running" /\ box[c].state = "running"
        /\ box[b].slot = box[c].slot
        => box[b].attempt = box[c].attempt

\* A slot whose files cannot be removed is in use, or was lost to a dead worker,
\* a failed call, or a claim that lapsed or went with its job: never to a timeout
\* or a failing submission.
SlotsAreReturned ==
    \A s \in rooted :
        \/ lock[s] # NoWorker
        \/ faults > 0
        \/ Dead # {}
        \/ tree[s] \in forfeited

\* The running containers of a live attempt are removed by that attempt itself, not
\* by another worker's reconciliation that listed containers at one time and read
\* claims at another, unless the attempt's claim has lapsed or its job is gone.
PromptAttemptKeepsContainers ==
    [][\A w \in Workers : \A b \in MineSet(w) \cup ({proc[w].target} \ {NoBox}) :
          /\ proc[w].pc \in {"start", "wait", "repairing"}
          /\ Me(w) \notin forfeited
          /\ box[b].state = "running"
          /\ box'[b].state = "none"
          => proc'[w] # proc[w]]_vars

\* Every container whose attempt is over goes away as long as a worker lives.
OrphansGo ==
    \A b \in Boxes :
        (box[b].state # "none" /\ ~ \E w \in Workers : Executing(w) /\ box[b].attempt = Me(w))
            ~> (box[b].state = "none" \/ Dead = Workers)

=============================================================================
