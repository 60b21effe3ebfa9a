----------------------- MODULE MCEvaluationLifecycle -----------------------
(* Small instances of EvaluationLifecycle for TLC.                            *)
EXTENDS EvaluationLifecycle, TLC

CONSTANTS w1, w2

OneScope == [s \in Submissions |-> "scope"]

\* Submission 1 runs on a GPU target, which only w1 serves.
NeedsGpuFirst == [s \in Submissions |-> s = 1]
NoGpu == [s \in Submissions |-> FALSE]
GpuOnW1 == [w \in Workers |-> w = w1]
NoWorkerGpu == [w \in Workers |-> FALSE]

\* Workers are interchangeable when none has the accelerator.
WorkerSymmetry == Permutations(Workers)

=============================================================================
