------------------------ MODULE MCEvaluationContract ------------------------
(* Small instances, for TLC, of what an evaluation is held to: the challenge   *)
(* contract (ChallengeContract) and the limits and logs of one execution       *)
(* (SolutionSession: one chunk per direction, two runs, output trees one entry *)
(* inside, at and past each limit). One of them runs in each behaviour and the *)
(* other stays as it starts.                                                   *)
EXTENDS MCChallengeContract, SolutionSession

VARIABLE part

mcVars == <<part, vars, executionVars>>

MCTrees ==
    {[odd |-> {}, files |-> f, dirs |-> 0, depth |-> 1, bytes |-> 1, reserved |-> FALSE] : f \in 0..2}
    \cup {[odd |-> {}, files |-> 1, dirs |-> d, depth |-> 1 + d, bytes |-> b, reserved |-> r] :
              d \in 0..2, b \in 1..2, r \in BOOLEAN}
    \cup {[odd |-> {o}, files |-> 0, dirs |-> 0, depth |-> 1, bytes |-> 1, reserved |-> FALSE] :
              o \in {"link", "special"}}

\* A session's interleavings do not depend on the log policy: piped plans redact.
MCInit ==
    /\ part \in {"contract", "session"}
    /\ Init
    /\ SessionInit
    /\ plan.topology = "piped" => plan.redacted
    /\ part = "contract" => plan.topology = "piped"

MCNext ==
    \/ part = "contract" /\ Next /\ UNCHANGED <<part, executionVars>>
    \/ part = "session" /\ SessionNext /\ UNCHANGED <<part, vars>>

\* The fairness of SessionSpec, for its part.
MCFairness == WF_executionVars(part = "session" /\ WorkerGoesOn)

MCSpec == MCInit /\ [][MCNext]_mcVars /\ MCFairness

=============================================================================
