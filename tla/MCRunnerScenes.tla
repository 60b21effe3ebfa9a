--------------------------- MODULE MCRunnerScenes ----------------------------
(* An instance of RunnerExecution in which every behaviour is about one job.   *)
EXTENDS MCRunnerExecution

VARIABLE scene  \* the job a behaviour is about

mcvars == <<vars, scene>>

MCInit == Init /\ scene = 0

\* The other job goes before anything else happens.
SceneBegins ==
    /\ scene = 0
    /\ \E j \in Jobs : JobGoes(j) /\ scene' \in Jobs \ {j}

\* Job 1 meets no failed call and has all its attempts, job 2 has one attempt.
SceneGoesOn ==
    /\ scene # 0
    /\ Next
    /\ scene = 1 => UNCHANGED faults
    /\ scene = 2 => claim'[2].attempt <= 1
    /\ UNCHANGED scene

MCSpec == MCInit /\ [][SceneBegins \/ SceneGoesOn]_mcvars

=============================================================================
