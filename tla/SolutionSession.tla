--------------------------- MODULE SolutionSession ---------------------------
(***************************************************************************)
(* The participant's part of one evaluation attempt, below the phases of   *)
(* RunnerExecution: either the runs of a separated evaluation, whose       *)
(* output trees are bounded and handed to the evaluator, or the single     *)
(* interactive session of a piped evaluation, in which two containers talk *)
(* through two stdio pumps that the worker drives together with their      *)
(* exits, a shutdown grace and a session timeout in one select loop.  Both *)
(* write to the attempt's bounded log.  Containers are adversarial: they   *)
(* write, exit or hang as they please, and any Docker call may fail.       *)
(***************************************************************************)
EXTENDS Naturals, Sequences, FiniteSets

CONSTANTS
    ByteLimit,      \* max_interaction_bytes_per_direction, in chunks
    MaxWrites,      \* bound: chunks the two containers write
    StderrCap,      \* PLATFORM_CONTAINER_LOG_LIMIT_BYTES, in chunks
    MaxSessionRuns, \* runner.max_runs
    LogPerRun,      \* EVALUATION_LOG_BYTES_PER_RUN, in units
    NoticeSize,     \* length of the truncation notice, in units
    MaxFiles, MaxDirs, MaxDepth, DiskLimit,  \* limits of a run's output tree
    OutputTrees,    \* what a run may leave behind: see OutputTreeType
    LogSizes        \* log lengths a container may produce

ASSUME LimitsAssumption ==
    /\ {ByteLimit, MaxWrites, StderrCap, MaxSessionRuns, LogPerRun, NoticeSize} \subseteq Nat
    /\ {MaxFiles, MaxDirs, MaxDepth, DiskLimit} \subseteq Nat
    /\ LogSizes \subseteq Nat

VARIABLES
    plan,       \* the evaluation: topology, number of runs, log policy, storage
    step,       \* where the attempt is
    captured,   \* EvaluationLogs: length, limit, truncated, holds container output
    visible,    \* the output trees handed to the evaluator, by run
    pair,       \* the two containers of a session
    out,        \* per container, chunks written and not yet pumped
    written,    \* per container, chunks written
    pump,       \* per container, its stdio pump: state, chunks relayed, stderr kept
    loop,       \* what the select loop has seen: exits, grace, terminal
    result      \* InteractiveSessionOutcome, or the error

executionVars == <<plan, step, captured, visible, pair, out, written, pump, loop, result>>
sessionVars == <<pair, out, written, pump, loop, result>>

Sides == {"participant", "evaluator"}
Peer(s) == IF s = "participant" THEN "evaluator" ELSE "participant"

Unknown == 999          \* no exit code yet
Killed == 137
TimedOutCode == 124
ExitCodes == {0, 1}

-----------------------------------------------------------------------------
(* EvaluationLogs.                                                          *)

EmptyLog == [len |-> 0, limit |-> LogPerRun * MaxSessionRuns, truncated |-> FALSE, output |-> FALSE]

Smaller(m, n) == IF m <= n THEN m ELSE n

\* The notice replaces the end of the content when both do not fit.
MarkTruncated_Appends(l) ==
    IF l.truncated THEN l
    ELSE [l EXCEPT !.truncated = TRUE, !.len = l.len + NoticeSize]

MarkTruncated(l) ==
    IF l.truncated THEN l
    ELSE [l EXCEPT !.truncated = TRUE,
                   !.len = IF NoticeSize >= l.limit
                           THEN Smaller(l.len, l.limit)
                           ELSE Smaller(l.len, l.limit - NoticeSize) + NoticeSize]

SetLimit(l, limit) ==
    LET s == [l EXCEPT !.limit = limit]
    IN IF s.len > limit THEN MarkTruncated([s EXCEPT !.len = limit]) ELSE s

AppendBytes(l, n, output) ==
    LET room == IF l.limit > l.len THEN l.limit - l.len ELSE 0
        o == l.output \/ (output /\ n > 0 /\ room > 0)
    IN IF l.truncated \/ n = 0 THEN l
       ELSE IF n <= room THEN [l EXCEPT !.len = @ + n, !.output = o]
       ELSE MarkTruncated([l EXCEPT !.len = @ + room, !.output = o])

\* append_named_logs: a header of one unit, then the content.
AppendNamedLogs(l, n, output) == AppendBytes(AppendBytes(l, 1, FALSE), n, output)

\* visible_log_content: under redaction a fixed notice replaces the content.
AppendVisible(l, n) ==
    IF plan.redacted THEN AppendNamedLogs(l, 1, FALSE) ELSE AppendNamedLogs(l, n, TRUE)

\* EvaluationLogPolicy::for_challenge_contract.
LogPolicyRedacts(official, always, exposes) == official /\ (always \/ exposes)

-----------------------------------------------------------------------------
(* Output trees: what a run leaves under its /io root.                      *)

OutputTreeType == [odd : SUBSET {"link", "special"}, files : Nat, dirs : Nat,
                   depth : Nat, bytes : Nat, reserved : BOOLEAN]

ASSUME TreesAssumption == OutputTrees \subseteq OutputTreeType

\* The worker's own entries: the root with input, output and tmp, and stdin,
\* stdout and stderr.
BaseDirs == 4
BaseFiles == 3

DirectorySize(t) == t.bytes

\* ensure_disk_limit, over the whole /io root.
WithinDiskLimit(t) == DirectorySize(t) <= DiskLimit

\* write_run_metadata creates its file and never replaces one.
MetadataIsWritten(t) == ~t.reserved

\* inspect_tree with limits; files counts the metadata file when it is there.
OutputTreeFits(t, metadata) ==
    /\ t.odd = {}
    /\ t.depth <= MaxDepth
    /\ BaseDirs + t.dirs <= MaxDirs
    /\ BaseFiles + t.files + metadata <= MaxFiles

-----------------------------------------------------------------------------
(* The attempt up to the participant's part.                                *)

NoContainers == [s \in Sides |-> [state |-> "none", code |-> Unknown, own |-> FALSE]]
NoLoop == [exits |-> [s \in Sides |-> Unknown], grace |-> FALSE, terminal |-> "none"]
NoResult == [ok |-> FALSE, timedOut |-> FALSE, codes |-> [s \in Sides |-> Unknown]]

SessionInit ==
    /\ \E official \in BOOLEAN, always \in BOOLEAN, exposes \in BOOLEAN :
          plan \in {[topology |-> t.topology, runs |-> t.runs,
                     redacted |-> LogPolicyRedacts(official, always, exposes)] :
                       t \in [topology : {"separated"}, runs : 0..(MaxSessionRuns + 1)]
                             \cup {[topology |-> "piped", runs |-> 1]}}
    /\ step = "setup"
    /\ captured = EmptyLog
    /\ visible = [r \in {} |-> {}]
    /\ pair = NoContainers
    /\ out = [s \in Sides |-> <<>>]
    /\ written = [s \in Sides |-> 0]
    /\ pump = [s \in Sides |-> [state |-> "pending", relayed |-> 0, logs |-> 0, cut |-> FALSE]]
    /\ loop = NoLoop
    /\ result = NoResult

\* Setup phases log before the number of runs is known; the limit then
\* shrinks to the runs there are.
ConfigureLimits ==
    /\ step = "setup"
    /\ \E n \in LogSizes :
          LET l == AppendVisible(captured, n)
          IN \/ /\ plan.topology = "piped"
                /\ captured' = SetLimit(l, LogPerRun)
                /\ step' = "create"
             \/ /\ plan.topology = "separated"
                /\ plan.runs \in 1..MaxSessionRuns
                /\ captured' = SetLimit(l, plan.runs * LogPerRun)
                /\ step' = "run"
             \/ /\ plan.topology = "separated"
                /\ plan.runs \notin 1..MaxSessionRuns
                /\ captured' = l
                /\ step' = "failed"
    /\ UNCHANGED <<plan, visible, sessionVars>>

-----------------------------------------------------------------------------
(* The runs of a separated evaluation.                                      *)

NextRun == Cardinality(DOMAIN visible) + 1

\* The run's inputs cannot be written: a missing source or a taken path.
MaterializeFails ==
    /\ step = "run"
    /\ step' = "failed"
    /\ UNCHANGED <<plan, captured, visible, sessionVars>>

\* The copied or retained tree, with the worker's entries.
VisibleRunTree(t) == [t EXCEPT !.files = BaseFiles + @ + 1, !.dirs = BaseDirs + @]

\* One whole run: the container leaves a tree and a log, the worker adds its
\* metadata file, then checks the tree and makes it visible.
SolutionRun ==
    /\ step = "run"
    /\ \E t \in OutputTrees, n \in LogSizes, failed \in BOOLEAN :
          /\ captured' = LET l == AppendVisible(captured, n)
                    IN IF failed /\ MetadataIsWritten(t) THEN AppendNamedLogs(l, 1, FALSE) ELSE l
          /\ \/ /\ ~(MetadataIsWritten(t) /\ WithinDiskLimit(t) /\ OutputTreeFits(t, 1))
                /\ step' = "failed"
                /\ UNCHANGED visible
             \/ /\ MetadataIsWritten(t) /\ WithinDiskLimit(t) /\ OutputTreeFits(t, 1)
                /\ visible' = [r \in DOMAIN visible \cup {NextRun} |->
                                  IF r = NextRun THEN VisibleRunTree(t) ELSE visible[r]]
                /\ step' = IF NextRun = plan.runs THEN "evaluate" ELSE "run"
    /\ UNCHANGED <<plan, sessionVars>>

\* The evaluator's run and result.json are ChallengeContract's; here it logs.
EvaluateRuns ==
    /\ step = "evaluate"
    /\ \E n \in LogSizes : captured' = AppendVisible(captured, n)
    /\ step' = "done"
    /\ UNCHANGED <<plan, visible, sessionVars>>

-----------------------------------------------------------------------------
(* The containers of an interactive session.                                *)

Running(s) == pair[s].state = "running"
Exited(s) == pair[s].state = "exited"

ContainerWrites(s) ==
    /\ Running(s) /\ step \in {"loop", "finish"}
    /\ written[s] + written[Peer(s)] < MaxWrites
    /\ \E c \in {"stdout", "stderr"} : out' = [out EXCEPT ![s] = Append(@, c)]
    /\ written' = [written EXCEPT ![s] = @ + 1]
    /\ UNCHANGED <<plan, step, captured, visible, pair, pump, loop, result>>

SideExits(s) ==
    /\ Running(s)
    /\ \E c \in ExitCodes :
          pair' = [pair EXCEPT ![s] = [state |-> "exited", code |-> c, own |-> TRUE]]
    /\ UNCHANGED <<plan, step, captured, visible, out, written, pump, loop, result>>

\* kill_container_if_running over the containers Docker reaches.
AfterKill(reached) ==
    [s \in Sides |-> IF s \in reached /\ Running(s)
                     THEN [state |-> "exited", code |-> Killed, own |-> FALSE]
                     ELSE pair[s]]

Started(ss) == [s \in Sides |-> [pair[s] EXCEPT !.state = IF s \in ss THEN "running" ELSE "created"]]

\* run_interactive_stdio_session: create both, attach both, start both.  A
\* participant whose evaluator cannot be created is removed.
CreatePair ==
    /\ step = "create"
    /\ \/ /\ pair' = NoContainers
          /\ step' = "failed"
       \/ /\ pair' \in {Started({}), Started({"participant"})}
          /\ step' = "cleanup"
       \/ /\ pair' = Started(Sides)
          /\ step' = "loop"
    /\ UNCHANGED <<plan, captured, visible, out, written, pump, loop, result>>

-----------------------------------------------------------------------------
(* The stdio pumps.  A pump is polled by the select loop and, after it, by  *)
(* the bounded wait for both pumps.                                         *)

LoopGoesOn ==
    /\ step = "loop"
    /\ loop.terminal = "none"
    /\ \E s \in Sides : loop.exits[s] = Unknown

Polled(s, state) == pump[s].state = state /\ (LoopGoesOn \/ step = "finish")

\* A pump that fails inside the loop ends the session.
PumpResolves(s, state) ==
    /\ pump' = [pump EXCEPT ![s].state = state]
    /\ loop' = IF state = "failed" /\ LoopGoesOn THEN [loop EXCEPT !.terminal = "error"]
               ELSE loop

\* append_bounded_log_bytes, for a chunk of one unit.
AppendBounded(p) ==
    IF p.logs >= StderrCap THEN [p EXCEPT !.cut = TRUE] ELSE [p EXCEPT !.logs = @ + 1]

\* One chunk: stderr goes to the container's log; stdout counts against the
\* limit and goes to the peer's stdin, which may be gone with the peer.
PumpChunk(s) ==
    /\ Polled(s, "pending") /\ out[s] # <<>>
    /\ out' = [out EXCEPT ![s] = Tail(@)]
    /\ LET stdout == Head(out[s]) = "stdout"
           relayed == [pump[s] EXCEPT !.relayed = @ + 1]
       IN \/ /\ ~stdout
             /\ pump' = [pump EXCEPT ![s] = AppendBounded(@)]
             /\ UNCHANGED loop
          \/ /\ stdout /\ relayed.relayed > ByteLimit
             /\ pump' = [pump EXCEPT ![s] = [relayed EXCEPT !.state = "stopping"]]
             /\ UNCHANGED loop
          \/ /\ stdout /\ relayed.relayed <= ByteLimit
             /\ pump' = [pump EXCEPT ![s] = relayed]
             /\ UNCHANGED loop
          \/ /\ stdout /\ relayed.relayed <= ByteLimit /\ ~Running(Peer(s))
             /\ PumpResolves(s, "failed")
    /\ UNCHANGED <<plan, step, captured, visible, pair, written, result>>

\* InteractiveKillSwitch::kill_both, then the pump reports the exceeded limit.
KillSwitch(s) ==
    /\ Polled(s, "stopping")
    /\ \E reached \in SUBSET Sides : pair' = AfterKill(reached)
    /\ pump' = [pump EXCEPT ![s].state = "stopped"]
    /\ UNCHANGED <<plan, step, captured, visible, out, written, loop, result>>

LimitExceeded(s) ==
    /\ Polled(s, "stopped")
    /\ PumpResolves(s, "failed")
    /\ UNCHANGED <<plan, step, captured, visible, pair, out, written, result>>

\* The stream ends with its container, or breaks.
PumpEnds(s) ==
    /\ Polled(s, "pending")
    /\ \/ Exited(s) /\ out[s] = <<>> /\ PumpResolves(s, "completed")
       \/ PumpResolves(s, "failed")
    /\ UNCHANGED <<plan, step, captured, visible, pair, out, written, result>>

-----------------------------------------------------------------------------
(* The select loop of run_attached_interactive_pair.                        *)

\* A container's exit arrives; an evaluator that accepts while the
\* participant lives gives it the shutdown grace.
ExitArrives(s) ==
    /\ LoopGoesOn /\ loop.exits[s] = Unknown /\ Exited(s)
    /\ loop' = [loop EXCEPT !.exits[s] = pair[s].code,
                            !.grace = @ \/ (s = "evaluator" /\ pair[s].code = 0
                                            /\ loop.exits["participant"] = Unknown)]
    /\ UNCHANGED <<plan, step, captured, visible, pair, out, written, pump, result>>

WaitBreaks(s) ==
    /\ LoopGoesOn /\ loop.exits[s] = Unknown
    /\ loop' = [loop EXCEPT !.terminal = "error"]
    /\ UNCHANGED <<plan, step, captured, visible, pair, out, written, pump, result>>

\* The grace is over: the participant is killed and counts as exited with 0;
\* a kill Docker refuses ends the session at once.
GraceEnds ==
    /\ LoopGoesOn /\ loop.grace /\ loop.exits["participant"] = Unknown
    /\ \/ /\ pair' = AfterKill({"participant"})
          /\ loop' = [loop EXCEPT !.exits["participant"] = 0]
          /\ UNCHANGED step
       \/ /\ step' = "cleanup"
          /\ UNCHANGED <<pair, loop>>
    /\ UNCHANGED <<plan, captured, visible, out, written, pump, result>>

SessionTimeout_UntilExit ==
    /\ LoopGoesOn /\ \A s \in Sides : loop.exits[s] = Unknown
    /\ loop' = [loop EXCEPT !.terminal = "timeout"]
    /\ UNCHANGED <<plan, step, captured, visible, pair, out, written, pump, result>>

SessionTimeout ==
    /\ LoopGoesOn
    /\ loop' = [loop EXCEPT !.terminal = "timeout"]
    /\ UNCHANGED <<plan, step, captured, visible, pair, out, written, pump, result>>

\* The loop is over.  After a timeout or an error both containers are killed;
\* a timed-out pair that cannot be killed is an error at once.
LeaveLoop ==
    /\ step = "loop" /\ ~LoopGoesOn
    /\ \/ /\ loop.terminal = "none"
          /\ step' = "finish"
          /\ UNCHANGED pair
       \/ /\ loop.terminal # "none"
          /\ \E reached \in SUBSET Sides :
                /\ pair' = AfterKill(reached)
                /\ step' = IF reached # Sides /\ loop.terminal = "timeout" THEN "cleanup"
                           ELSE "finish"
    /\ UNCHANGED <<plan, captured, visible, out, written, pump, loop, result>>

\* A pump that has not stopped within the grace is an error.
PumpTimesOut(s) ==
    /\ step = "finish" /\ pump[s].state \notin {"completed", "failed"}
    /\ pump' = [pump EXCEPT ![s].state = "failed"]
    /\ UNCHANGED <<plan, step, captured, visible, pair, out, written, loop, result>>

\* finish_attached_pump_pair: both pumps must have completed.
PumpsFinish_Pending == \A s \in Sides : pump[s].state # "failed"

PumpsFinish == \A s \in Sides : pump[s].state = "completed"

\* The outcome: a timeout is 124 on both sides, an accepted session hides the
\* participant's exit.
Outcome ==
    LET verdict == loop.exits["evaluator"]
    IN [ok |-> TRUE, timedOut |-> loop.terminal = "timeout",
        codes |-> [s \in Sides |-> IF loop.terminal = "timeout" THEN TimedOutCode
                                   ELSE IF verdict = 0 THEN 0 ELSE loop.exits[s]]]

FinishSession ==
    /\ step = "finish"
    /\ \/ /\ PumpsFinish /\ loop.terminal # "error"
          /\ result' = Outcome
       \/ /\ \A s \in Sides : pump[s].state \in {"completed", "failed"}
          /\ ~PumpsFinish \/ loop.terminal = "error"
          /\ UNCHANGED result
    /\ step' = "cleanup"
    /\ UNCHANGED <<plan, captured, visible, pair, out, written, pump, loop>>

\* Both mounts are repaired and both containers removed whatever happened;
\* any failure of these makes the session an error.
CleanUpPair ==
    /\ step = "cleanup"
    /\ \E removed \in SUBSET Sides, repaired \in BOOLEAN :
          /\ pair' = [s \in Sides |-> IF s \in removed THEN NoContainers[s] ELSE pair[s]]
          /\ result' = [result EXCEPT !.ok = @ /\ removed = Sides /\ repaired]
    /\ step' = "judge"
    /\ UNCHANGED <<plan, captured, visible, out, written, pump, loop>>

\* run_piped_stdio_session after the pair: log both sides, then require both
\* to have succeeded.
JudgeSession ==
    /\ step = "judge"
    /\ captured' = IF result.ok
              THEN AppendVisible(AppendVisible(captured, pump["participant"].logs),
                                 pump["evaluator"].logs)
              ELSE captured
    /\ step' = IF /\ result.ok
                  /\ ~result.timedOut
                  /\ \A s \in Sides : result.codes[s] = 0
               THEN "done" ELSE "failed"
    /\ UNCHANGED <<plan, visible, sessionVars>>

-----------------------------------------------------------------------------
Finished == step \in {"done", "failed"} /\ UNCHANGED executionVars

Session ==
    \/ CreatePair \/ GraceEnds \/ SessionTimeout \/ LeaveLoop \/ FinishSession
    \/ CleanUpPair \/ JudgeSession
    \/ \E s \in Sides :
          \/ ContainerWrites(s) \/ SideExits(s) \/ PumpChunk(s) \/ KillSwitch(s)
          \/ LimitExceeded(s) \/ PumpEnds(s) \/ ExitArrives(s) \/ WaitBreaks(s)
          \/ PumpTimesOut(s)

SessionNext ==
    \/ ConfigureLimits \/ MaterializeFails \/ SolutionRun \/ EvaluateRuns
    \/ Session
    \/ Finished

\* What the worker does by itself: its next step, or the timer of what it awaits.
WorkerGoesOn ==
    \/ ConfigureLimits \/ SolutionRun \/ EvaluateRuns \/ CreatePair \/ SessionTimeout \/ LeaveLoop
    \/ FinishSession \/ CleanUpPair \/ JudgeSession
    \/ \E s \in Sides : PumpTimesOut(s)

\* The worker's task is scheduled, its timers fire and Docker answers. Nothing
\* is assumed of the containers.
Fairness == WF_executionVars(WorkerGoesOn)

SessionSpec == SessionInit /\ [][SessionNext]_executionVars /\ Fairness

-----------------------------------------------------------------------------
(* A session the worker accepts was accepted by the evaluator itself: it    *)
(* exited 0 of its own accord, neither direction ever passed its byte       *)
(* limit, both pumps ran to the end of their streams and neither container  *)
(* is left, however the pumps, the exits, the grace and the timeout of      *)
(* run_attached_interactive_pair interleave and whatever Docker refuses.    *)
AcceptedSession ==
    step = "done" /\ plan.topology = "piped" =>
        /\ loop.exits["evaluator"] = 0 /\ loop.terminal = "none"
        /\ \A s \in Sides : /\ pump[s].relayed <= ByteLimit
                            /\ pump[s].state = "completed"
                            /\ out[s] = <<>>
                            /\ pair[s].state = "none"

(* What an attempt lets out is bounded and redacted: every tree an          *)
(* evaluator sees holds only plain files and directories within the output  *)
(* limits, the worker's metadata file included, and the persisted log never *)
(* passes its limit, nor holds container output under redaction, whatever   *)
(* order set_limit and the appends come in.                                 *)
OutputsAreContained ==
    /\ \A r \in DOMAIN visible :
          /\ visible[r].odd = {}
          /\ visible[r].files <= MaxFiles
          /\ visible[r].dirs <= MaxDirs
    /\ captured.len <= captured.limit
    /\ plan.redacted => ~captured.output

(* Every evaluation that started gets past the participant: containers that *)
(* never exit, never read or keep writing cannot hold the session of        *)
(* run_attached_interactive_pair open.                                      *)
SessionEnds == step # "setup" ~> step \in {"done", "failed"}
=============================================================================
