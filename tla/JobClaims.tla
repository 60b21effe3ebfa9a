------------------------------ MODULE JobClaims ------------------------------
(* What the job queue promises the workers: a job is offered, claimed by one   *)
(* worker for one numbered attempt, refreshed by its holder only, and given    *)
(* back or settled by its holder, or by the reaper once the claim has lapsed.  *)
(* EvaluationLifecycle implements this specification and RunnerExecution is    *)
(* built on it.                                                                *)
EXTENDS Integers

CONSTANTS
    Jobs,         \* evaluation_jobs
    Workers,      \* worker ids
    MaxAttempts,  \* the attempts a job has
    NoWorker      \* no claim

ASSUME JobClaimsAssumption == MaxAttempts \in Nat /\ NoWorker \notin Workers

VARIABLE claim    \* the claim columns of evaluation_jobs

\* "idle" jobs are not offered yet, "done" ones never again.
ClaimType == [status : {"idle", "queued", "running", "done"},
              worker : Workers \cup {NoWorker},
              attempt : 0..MaxAttempts,
              fresh : BOOLEAN]

Unclaimed(status, attempt) ==
    [status |-> status, worker |-> NoWorker, attempt |-> attempt, fresh |-> TRUE]

Holds(w, j, attempt) ==
    /\ claim[j].status = "running"
    /\ claim[j].worker = w
    /\ claim[j].attempt = attempt

Offer(j) ==
    /\ claim[j].status = "idle"
    /\ claim' = [claim EXCEPT ![j] = Unclaimed("queued", 0)]

Claim(w, j) ==
    /\ claim[j].status = "queued"
    /\ claim[j].attempt < MaxAttempts
    /\ claim' = [claim EXCEPT ![j] = [status |-> "running", worker |-> w,
                                      attempt |-> claim[j].attempt + 1, fresh |-> TRUE]]

Refresh(w, j, attempt) ==
    /\ Holds(w, j, attempt)
    /\ claim' = [claim EXCEPT ![j].fresh = TRUE]

Lapse(j) ==
    /\ claim[j].status = "running"
    /\ claim' = [claim EXCEPT ![j].fresh = FALSE]

\* An attempt that met no capacity is given back with its number.
GiveBack(w, j, attempt) ==
    /\ Holds(w, j, attempt)
    /\ claim' = [claim EXCEPT ![j] = Unclaimed("queued", attempt - 1)]

Settle(w, j, attempt) ==
    /\ Holds(w, j, attempt)
    /\ claim' = [claim EXCEPT ![j] = Unclaimed("done", 0)]

\* Every lapsed claim is taken away at once: the job is offered again while it
\* has attempts and is done otherwise. Jobs nobody offered may be given up.
Reap(abandoned) ==
    /\ \A j \in abandoned : claim[j].status = "idle"
    /\ claim' = [j \in Jobs |->
                    IF j \in abandoned \/ (claim[j].status = "running" /\ ~claim[j].fresh)
                    THEN IF j \notin abandoned /\ claim[j].attempt < MaxAttempts
                         THEN Unclaimed("queued", claim[j].attempt)
                         ELSE Unclaimed("done", 0)
                    ELSE claim[j]]

\* Jobs go away with their submission.
Withdraw(js) ==
    claim' = [j \in Jobs |-> IF j \in js THEN Unclaimed("done", 0) ELSE claim[j]]

ClaimsInit == claim = [j \in Jobs |-> Unclaimed("idle", 0)]

ClaimsNext ==
    \/ \E j \in Jobs : Offer(j) \/ Lapse(j)
    \/ \E w \in Workers, j \in Jobs : Claim(w, j)
    \/ \E w \in Workers, j \in Jobs, attempt \in 1..MaxAttempts :
          Refresh(w, j, attempt) \/ GiveBack(w, j, attempt) \/ Settle(w, j, attempt)
    \/ \E js \in SUBSET Jobs : Reap(js) \/ Withdraw(js)

ClaimsSpec == ClaimsInit /\ [][ClaimsNext]_claim

=============================================================================
