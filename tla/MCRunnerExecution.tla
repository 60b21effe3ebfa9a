-------------------------- MODULE MCRunnerExecution --------------------------
(* Small instances of RunnerExecution for TLC.                                 *)
EXTENDS RunnerExecution, TLC

CONSTANTS w1, w2

\* One slot for each writable phase, named for it.
OneSlotEach == [p \in WritablePhases |-> <<p>>]

\* The topologies and optional phases of the instances: job 1 has one container
\* at a time, job 2 is a session of two containers.
JobTopology == [j \in Jobs |-> IF j = 1 THEN "coexecuted" ELSE "piped"]
FirstJobBuilds == [j \in Jobs |-> IF j = 1 THEN {"build"} ELSE {}]
NoPhases == [j \in Jobs |-> {}]
OneRun == [j \in Jobs |-> 1]

WorkerSymmetry == Permutations(Workers)

=============================================================================
