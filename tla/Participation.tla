---------------------------- MODULE Participation ----------------------------
(* Who may submit to a published challenge, how often, and what of the results *)
(* leaves the server: the admission transaction with its row and quota locks,  *)
(* the owner's shortlist revisions, and the public, owner and creator reads    *)
(* that check a submission, a policy and the stored rows one after another.    *)
(* Evaluation itself is EvaluationLifecycle's; here a job only ends.           *)
EXTENDS Integers, FiniteSets

CONSTANTS
    Challenges,         \* published challenges, of one target each
    AgentIds,
    Submissions,        \* bound: submission ids
    CreateCalls,           \* concurrent API requests that create a submission
    Revisions,          \* bound: shortlist revision ids
    Deltas,             \* bound: the sets of agents an owner adds
    Policies,           \* the policies the challenges may have been published with
    DailyLimit,         \* config.quotas: runs per agent, challenge and day, by mode
    MaxActiveOfficial,  \* config.quotas.max_active_official_jobs
    RedactAlways,       \* config.runner.official_log_redaction = always
    None                \* NULL

Modes == {"validation", "official"}
Aggregate == {"public_live", "public_after_close", "hidden"}
NoLimit == 0

\* The policy part of ChallengeBundleSpec; closes: a closing time is declared.
Policy == [shortlisted : BOOLEAN, closes : BOOLEAN, limit : [Modes -> Nat],
           validation : BOOLEAN, private : BOOLEAN, distinctBundle : BOOLEAN,
           leaderboard : Aggregate, distribution : Aggregate, primaryPublic : BOOLEAN,
           detail : {"public_live", "public_after_close", "submitter_only"},
           publication : {"public", "public_after_close", "private"}]

ASSUME LimitsAssumption == DailyLimit \in [Modes -> Nat] /\ MaxActiveOfficial \in Nat
ASSUME NoneAssumption == None \notin Modes
ASSUME PolicyAssumption == Policies \subseteq [Challenges -> Policy]

VARIABLES
    time,        \* "before", "open", "closed": the wall clock against the window
    policy,      \* spec_json, by challenge
    archived,    \* the challenges with status = 'archived'
    shortlist,   \* challenge_shortlisted_agents, by challenge
    revision,    \* challenge_shortlist_revisions and the requests that make them
    sub,         \* solution_submissions with their jobs and evaluations
    creation,     \* API requests that create a submission
    reader       \* an API request that reads in several steps

participationVars == <<time, policy, archived, shortlist, revision, sub, creation, reader>>
admission == <<sub, creation>>
lists == <<shortlist, revision>>

\* recent: created within the quota window; late: created_at is past the close;
\* active: eval_type of the active job; official: status of the latest official
\* evaluation; validated: a validation evaluation exists; visible: visible_after_eval.
AbsentSub == [status |-> "absent", agent |-> None, challenge |-> None, mode |-> "official", parent |-> None,
              late |-> FALSE, recent |-> FALSE, active |-> None,
              official |-> "none", validated |-> FALSE, visible |-> FALSE]
IdleRequest == [pc |-> "idle", agent |-> None, challenge |-> None, mode |-> "official", parent |-> None,
                late |-> FALSE]
IdleReader == [pc |-> "idle", surface |-> "none", challenge |-> None, sub |-> None]
\* "stored": the JSON object is written, the transaction is not. The object is
\* never read again: what becomes of it after a refusal is left out.
AbsentRevision == [pc |-> "absent", challenge |-> None, agents |-> {}]

ParticipationInit ==
    /\ time \in {"before", "open"}
    /\ policy \in Policies
    /\ archived = {}
    /\ shortlist = [c \in Challenges |-> {}]
    /\ revision = [v \in Revisions |-> AbsentRevision]
    /\ sub = [s \in Submissions |-> AbsentSub]
    /\ creation = [r \in CreateCalls |-> IdleRequest]
    /\ reader = IdleReader

-----------------------------------------------------------------------------
(* Queries and policy checks.                                                 *)

Exists(s) == sub[s].status # "absent"
Rows(c) == {s \in Submissions : Exists(s) /\ sub[s].challenge = c}

\* get_published_challenge takes active rows, get_public_challenge archived ones too.
Published(c) == c \notin archived
Public(c) == c \in Challenges

\* ensure_challenge_accepts_submissions.
AcceptsSubmissions(c) == time # "before" /\ ~(policy[c].closes /\ time = "closed")
HasClosed(c) == policy[c].closes /\ time = "closed"

HasShortlist(c) == shortlist[c] # {}
IsShortlisted(c, a) == a \in shortlist[c]
EffectiveShortlist(c) == shortlist[c]
Eligible(c, a) == policy[c].shortlisted => HasShortlist(c) /\ IsShortlisted(c, a)

\* ensure_target_supports_eval_type: every admitted challenge has an official path.
TargetSupports(c, mode) == mode = "validation" => policy[c].validation
\* Validation never runs on a bundle that holds the private benchmark.
ValidationUsesPublicBundle(c, mode) ==
    mode = "validation" /\ policy[c].private => policy[c].distinctBundle
SupportsEvalType(c, mode, a) ==
    AcceptsSubmissions(c) /\ Eligible(c, a) /\ TargetSupports(c, mode) /\ ValidationUsesPublicBundle(c, mode)

\* A submission counts for the mode of its first job, whatever became of it.
LifetimeRuns(a, c, mode) == {s \in Rows(c) : sub[s].agent = a /\ sub[s].mode = mode}
RecentRuns(a, c, mode) == {s \in LifetimeRuns(a, c, mode) : sub[s].recent}
ActiveOfficial == {s \in Submissions : Exists(s) /\ sub[s].active = "official"}

ParentMatchesScope(p, a, c) ==
    p # None => /\ Exists(p)
                /\ sub[p].agent = a /\ sub[p].challenge = c
                /\ sub[p].status = "completed" /\ sub[p].visible

\* The counts the preflight reads outside of any transaction, and its verdict.
QuotaUsed(a, c, mode) ==
    [recent |-> Cardinality(RecentRuns(a, c, mode)), lifetime |-> Cardinality(LifetimeRuns(a, c, mode))]
QuotaPreflight(a, c, mode) ==
    /\ QuotaUsed(a, c, mode).recent < DailyLimit[mode]
    /\ policy[c].limit[mode] # NoLimit => QuotaUsed(a, c, mode).lifetime < policy[c].limit[mode]
    /\ mode = "official" => Cardinality(ActiveOfficial) < MaxActiveOfficial

\* enforce_quota_admission, under the locks.
QuotaAvailable(a, c, mode) ==
    /\ Cardinality(RecentRuns(a, c, mode)) < DailyLimit[mode]
    /\ policy[c].limit[mode] # NoLimit => Cardinality(LifetimeRuns(a, c, mode)) < policy[c].limit[mode]
    /\ mode = "official" => Cardinality(ActiveOfficial) < MaxActiveOfficial

-----------------------------------------------------------------------------
(* Admission: preflight, artifact staging, then one transaction that takes the *)
(* challenge row and the quota scopes, counts, and inserts.                    *)

\* The rows a transaction holds to its end.
CreateLocks(pc, c, mode, a) ==
    IF pc # "counted" THEN {}
    ELSE {<<"challenge", c>>, <<"daily", a, c, mode>>}
         \cup (IF mode = "official" THEN {<<"global", "official-active">>} ELSE {})
         \cup (IF policy[c].limit[mode] # NoLimit THEN {<<"lifetime", a, c, mode>>} ELSE {})

Held == UNION {CreateLocks(creation[r].pc, creation[r].challenge, creation[r].mode, creation[r].agent) :
                   r \in {q \in CreateCalls : creation[q].pc = "counted"}}
Free(locks) == locks \cap Held = {}

Answer(r) == creation' = [creation EXCEPT ![r] = IdleRequest]

\* create_solution_submission up to the transaction: the published challenge,
\* the quotas and the parent, read without a lock and read again under it; then
\* the artifact is staged (a refusal answers the request and changes nothing).
Preflight(r, a, c, mode, p) ==
    /\ creation[r].pc = "idle"
    /\ Published(c) /\ SupportsEvalType(c, mode, a)
    /\ QuotaPreflight(a, c, mode)
    /\ ParentMatchesScope(p, a, c)
    /\ creation' = [creation EXCEPT ![r] = [pc |-> "staged", agent |-> a, challenge |-> c, mode |-> mode,
                                          parent |-> p, late |-> FALSE]]
    /\ UNCHANGED <<time, policy, archived, lists, sub, reader>>

\* BEGIN: NOW() of the transaction, and created_at with it, is this instant;
\* the locks may be granted much later.
BeginCreate(r) ==
    /\ creation[r].pc = "staged"
    /\ creation' = [creation EXCEPT ![r].pc = "begun", ![r].late = HasClosed(creation[r].challenge)]
    /\ UNCHANGED <<time, policy, archived, lists, sub, reader>>

\* Mutant: the transaction trusts the preflight and only counts again.
Admitted_QuotaOnly(r) == QuotaAvailable(creation[r].agent, creation[r].challenge, creation[r].mode)

\* lock_active_challenge_for_admission_tx, the policy again, the quotas, and the
\* parent again; the order decides only which refusal is reported.
Admitted(r) ==
    LET q == creation[r]
    IN  /\ Published(q.challenge)
        /\ SupportsEvalType(q.challenge, q.mode, q.agent)
        /\ ParentMatchesScope(q.parent, q.agent, q.challenge)
        /\ QuotaAvailable(q.agent, q.challenge, q.mode)

EnforceAdmission_Unlocked(r) ==
    /\ creation[r].pc = "begun"
    /\ creation' = [creation EXCEPT ![r] = IF Admitted(r) THEN [@ EXCEPT !.pc = "counted"] ELSE IdleRequest]
    /\ UNCHANGED <<time, policy, archived, lists, sub, reader>>

EnforceAdmission(r) ==
    LET q == creation[r]
    IN  /\ q.pc = "begun"
        /\ Free(CreateLocks("counted", q.challenge, q.mode, q.agent))
        /\ IF Admitted(r)
           THEN creation' = [creation EXCEPT ![r].pc = "counted"]
           ELSE Answer(r)
        /\ UNCHANGED <<time, policy, archived, lists, sub, reader>>

InsertSubmission(r, s) ==
    LET q == creation[r]
    IN  /\ q.pc = "counted"
        /\ ~Exists(s)
        /\ sub' = [sub EXCEPT ![s] = [AbsentSub EXCEPT
                       !.status = "pending", !.agent = q.agent, !.challenge = q.challenge, !.mode = q.mode,
                       !.parent = q.parent, !.late = q.late, !.recent = TRUE, !.active = q.mode]]
        /\ Answer(r)
        /\ UNCHANGED <<time, policy, archived, lists, reader>>

\* After the commit: the artifact is promoted and the job made ready, or the
\* row is deleted again, which gives the quota back.
FinishStaging(s, promoted) ==
    /\ sub[s].status = "pending"
    /\ sub' = [sub EXCEPT ![s] = IF promoted THEN [@ EXCEPT !.status = "queued"] ELSE AbsentSub]
    /\ UNCHANGED <<time, policy, archived, lists, creation, reader>>

-----------------------------------------------------------------------------
(* Evaluation, as far as reads and quotas see it.                             *)

\* A job ends: only a completed official evaluation makes the row visible, and
\* a failed one keeps a result of record that is already public.
JobEnds(s, ok) ==
    /\ sub[s].active # None /\ sub[s].status = "queued"
    /\ LET official == sub[s].active = "official"
           visible == sub[s].visible \/ (official /\ ok)
       IN  sub' = [sub EXCEPT ![s] = [@ EXCEPT
                      !.status = IF ok \/ sub[s].visible THEN "completed" ELSE "failed",
                      !.active = None,
                      !.official = IF official THEN (IF ok THEN "completed" ELSE "failed")
                                  ELSE sub[s].official,
                      !.validated = sub[s].validated \/ ~official,
                      !.visible = visible]]
    /\ UNCHANGED <<time, policy, archived, lists, creation, reader>>

\* queue_evaluation_job for a rejudge or an official run of a validated
\* submission: it takes the submission, the challenge and the official scope.
Rejudge(s) ==
    LET c == sub[s].challenge
    IN  /\ Exists(s) /\ sub[s].active = None
        /\ Free({<<"challenge", c>>, <<"global", "official-active">>})
        /\ Published(c)
        /\ AcceptsSubmissions(c) /\ Eligible(c, sub[s].agent) /\ TargetSupports(c, "official")
        /\ Cardinality(ActiveOfficial) < MaxActiveOfficial
        /\ sub' = [sub EXCEPT ![s].status = "queued", ![s].active = "official"]
        /\ UNCHANGED <<time, policy, archived, lists, creation, reader>>

-----------------------------------------------------------------------------
(* Challenge administration and the owner's shortlist.                        *)

\* Mutant: the status is changed without waiting for the row.
Archive_Unlocked(c) ==
    /\ Published(c)
    /\ archived' = archived \cup {c}
    /\ UNCHANGED <<time, policy, lists, admission, reader>>

Archive(c) ==
    /\ Published(c) /\ Free({<<"challenge", c>>})
    /\ archived' = archived \cup {c}
    /\ UNCHANGED <<time, policy, lists, admission, reader>>

\* create_challenge_shortlist_revision of the service: the challenge is published
\* and the human owns it (resolve_creator_challenge_scope); the raw JSON is
\* stored under a key of its own, before the transaction.
StoreRevision(v, c, add) ==
    /\ revision[v].pc = "absent"
    /\ Published(c)
    /\ add # {}
    /\ revision' = [revision EXCEPT ![v] = [pc |-> "stored", challenge |-> c, agents |-> add]]
    /\ UNCHANGED <<time, policy, archived, shortlist, admission, reader>>

\* lock_active_challenge_shortlist and ensure_shortlist_uploader_allowed_tx; the
\* account may have been disabled, or lost its role, since the request began.
UploaderAllowed(c, eligible) == Published(c) /\ eligible

\* Persisted, whether or not the uploader hears of it, or refused.
CommitRevision(v, eligible) ==
    LET x == revision[v]
    IN  /\ x.pc = "stored"
        /\ Free({<<"challenge", x.challenge>>})
        /\ shortlist' = IF UploaderAllowed(x.challenge, eligible)
                        THEN [shortlist EXCEPT ![x.challenge] = @ \cup x.agents]
                        ELSE shortlist
        /\ revision' = [revision EXCEPT ![v] = [AbsentRevision EXCEPT !.pc = "ended"]]
        /\ UNCHANGED <<time, policy, archived, admission, reader>>

Tick ==
    /\ time # "closed"
    /\ time' = IF time = "before" THEN "open" ELSE "closed"
    /\ UNCHANGED <<policy, archived, lists, admission, reader>>

\* A day passes since the submission was created.
LeaveWindow(s) ==
    /\ sub[s].recent
    /\ sub' = [sub EXCEPT ![s].recent = FALSE]
    /\ UNCHANGED <<time, policy, archived, lists, creation, reader>>

-----------------------------------------------------------------------------
(* Reads. An item of a reply is one field of one submission.                  *)

Item(s, f) == [sub |-> s, field |-> f]
Items(S, f) == {Item(s, f) : s \in S}

\* official_primary_metric of the evaluation the record carries.
PrimaryMetric(s, result) == IF result = "completed" THEN {Item(s, "primary_metric")} ELSE {}

\* present_evaluation and redact_private_benchmark_details.
PresentEvaluation(s, evalType, audience) ==
    IF evalType = "validation"
    THEN IF audience = "owner" THEN {Item(s, "validation")} ELSE {}
    ELSE {Item(s, "result")} \cup (IF audience = "owner" THEN {Item(s, "aggregates")} ELSE {})

\* present_solution_submission of a record whose official evaluation is the
\* latest one: of any status for the owner, a completed one for the public.
PresentSubmission(s, audience) ==
    LET official == IF audience = "owner" \/ ~sub[s].visible THEN sub[s].official ELSE "completed"
    IN  PrimaryMetric(s, official)
        \cup (IF official # "none" THEN PresentEvaluation(s, "official", audience) ELSE {})
        \cup (IF sub[s].validated THEN PresentEvaluation(s, "validation", audience) ELSE {})
        \cup (IF audience = "owner" THEN {Item(s, "artifact_key"), Item(s, "job")} ELSE {})

\* The policy gates of visibility.rs.
DetailVisible(c) ==
    \/ policy[c].detail = "public_live"
    \/ policy[c].detail = "public_after_close" /\ HasClosed(c)
ArtifactVisible(c) ==
    /\ DetailVisible(c)
    /\ \/ policy[c].publication = "public"
       \/ policy[c].publication = "public_after_close" /\ HasClosed(c)
VisibilityAllows(level, c) ==
    \/ level = "public_live"
    \/ level = "public_after_close" /\ HasClosed(c)

\* Queries over the rows.
LeaderboardRows(c) == {s \in Rows(c) : sub[s].visible /\ sub[s].status = "completed"}
MetricRows(c) == LeaderboardRows(c)
PublicRows(c) == {s \in Rows(c) : sub[s].visible}
\* public_observer_stats: active challenges, and the policy once more in SQL.
\* Mutant: the count forgets that the details open at the close.
ObserverRows_Early ==
    {s \in Submissions : /\ Exists(s) /\ Published(sub[s].challenge)
                         /\ sub[s].visible /\ sub[s].status = "completed"
                         /\ policy[sub[s].challenge].detail # "submitter_only"}

ObserverRows ==
    {s \in Submissions :
        LET c == sub[s].challenge
        IN  /\ Exists(s) /\ Published(c)
            /\ sub[s].visible /\ sub[s].status = "completed"
            /\ \/ policy[c].detail = "public_live"
               \/ policy[c].detail = "public_after_close" /\ HasClosed(c)}

\* Its count of all attempts: pending, failed, hidden and validation ones too.
AttemptRows == {s \in Submissions : Exists(s) /\ Published(sub[s].challenge)}

\* public_visible_solution_submission: what the details show is what this read
\* saw, whatever happens before the policy is read.
PublicVisible(s) == Exists(s) /\ sub[s].visible

LoadSubmission(f, s) ==
    /\ reader.pc = "idle" /\ PublicVisible(s)
    /\ reader' = [pc |-> "loaded", surface |-> f, challenge |-> sub[s].challenge, sub |-> s]
    /\ UNCHANGED <<time, policy, archived, lists, admission>>

\* The gate each surface reads the policy for; the details are then answered.
Gate(surface, c) ==
    CASE surface \in {"detail", "list"} -> DetailVisible(c)
      [] surface = "artifact" -> ArtifactVisible(c)
      [] surface \in {"leaderboard", "ranking"} -> VisibilityAllows(policy[c].leaderboard, c)
      [] surface = "distribution" -> VisibilityAllows(policy[c].distribution, c)

LoadPolicy(f, c) ==
    /\ IF reader.pc = "loaded" THEN reader.surface = f /\ reader.challenge = c
                               ELSE reader.pc = "idle" /\ f \in {"list", "leaderboard", "distribution"}
    /\ Public(c) /\ Gate(f, c)
    /\ reader' = [reader EXCEPT !.pc = "allowed", !.surface = f, !.challenge = c]
    /\ UNCHANGED <<time, policy, archived, lists, admission>>

\* The read is answered, refused or given up.
EndRead ==
    /\ reader.pc # "idle"
    /\ reader' = IdleReader
    /\ UNCHANGED <<time, policy, archived, lists, admission>>

\* submitter_visible_runner_log_storage_key: a completed or failed evaluation
\* may have a log; an official evaluation hides the validation log behind it.
VisibleLog(s) ==
    IF sub[s].official # "none"
    THEN IF RedactAlways \/ policy[sub[s].challenge].private THEN {} ELSE {Item(s, "official_log")}
    ELSE IF sub[s].validated THEN {Item(s, "validation_log")} ELSE {}

\* get_creator_challenge_stats: the rows each count is taken over.
CreatorStats(c) ==
    [submissions |-> Rows(c),
     completed |-> {s \in Rows(c) : sub[s].status = "completed"},
     failed |-> {s \in Rows(c) : sub[s].status = "failed"},
     queued_or_running |-> {s \in Rows(c) : sub[s].status \in {"pending", "queued"}},
     visible |-> {s \in Rows(c) : sub[s].visible}]
\* list_creator_challenge_participants: one row per agent that ever submitted.
Participants(c) == {sub[s].agent : s \in Rows(c)}

\* What a reader whose policy check has passed is sent if the rows are read now.
\* Details were read before the policy, the rest after it.
ArtifactAnswer(s) == {Item(s, "artifact")}
ListAnswer(c) == Items(PublicRows(c), "primary_metric")
LeaderboardAnswer(c) == Items(LeaderboardRows(c), "primary_metric")
DistributionAnswer(c) == IF policy[c].primaryPublic THEN Items(MetricRows(c), "value") ELSE {}
RowsOf(f, c, s) ==
    CASE f = "detail" -> PresentSubmission(s, "public")
      [] f = "artifact" -> ArtifactAnswer(s)
      [] f = "list" -> ListAnswer(c)
      [] f \in {"leaderboard", "ranking"} -> LeaderboardAnswer(c)
      [] f = "distribution" -> DistributionAnswer(c)

\* The public may be sent: the answer of the reader under way, and the counts of
\* get_public_stats, a row's part in a count being one item.
PublicAnswer ==
    Items(ObserverRows, "count") \cup Items(AttemptRows, "attempt")
    \cup (IF reader.pc = "allowed" THEN RowsOf(reader.surface, reader.challenge, reader.sub) ELSE {})

\* An agent is sent the record and the log of a submission it made.
OwnerAnswer(s) == PresentSubmission(s, "owner") \cup VisibleLog(s)

-----------------------------------------------------------------------------
Submit ==
    \/ \E r \in CreateCalls, a \in AgentIds, c \in Challenges, m \in Modes, p \in Submissions \cup {None} :
           Preflight(r, a, c, m, p)
    \/ \E r \in CreateCalls : BeginCreate(r) \/ EnforceAdmission(r)
    \/ \E r \in CreateCalls, s \in Submissions : InsertSubmission(r, s)
    \/ \E s \in Submissions, promoted \in BOOLEAN : FinishStaging(s, promoted)

Evaluate ==
    \/ \E s \in Submissions, ok \in BOOLEAN : JobEnds(s, ok)
    \/ \E s \in Submissions : Rejudge(s) \/ LeaveWindow(s)

Administer ==
    \/ Tick
    \/ \E c \in Challenges : Archive(c)
    \/ \E v \in Revisions, c \in Challenges, add \in Deltas : StoreRevision(v, c, add)
    \/ \E v \in Revisions, eligible \in BOOLEAN : CommitRevision(v, eligible)

Read ==
    \/ \E f \in {"detail", "artifact", "ranking"}, s \in Submissions : LoadSubmission(f, s)
    \/ \E f \in {"detail", "artifact", "ranking", "list", "leaderboard", "distribution"}, c \in Challenges :
           LoadPolicy(f, c)
    \/ EndRead

ParticipationNext == Submit \/ Evaluate \/ Administer \/ Read
ParticipationSpec == ParticipationInit /\ [][ParticipationNext]_participationVars

-----------------------------------------------------------------------------
(* Properties.                                                                *)

\* However requests interleave, no agent has more accepted runs of a mode than
\* the day or the challenge allows, and no more official jobs are active than
\* the configured capacity (enforce_quota_admission under its locks).
WithinSubmissionQuota ==
    /\ \A a \in AgentIds, c \in Challenges, m \in Modes :
           /\ Cardinality(RecentRuns(a, c, m)) <= DailyLimit[m]
           /\ policy[c].limit[m] # NoLimit => Cardinality(LifetimeRuns(a, c, m)) <= policy[c].limit[m]
    /\ Cardinality(ActiveOfficial) <= MaxActiveOfficial

\* What the policy said when a submission was accepted still holds of the row:
\* its agent is on the shortlist of a restricted challenge, it was not created
\* after the close, and its parent is public work of the same agent in the same
\* challenge, rejudged or not.
AdmittedUnderPolicy ==
    \A s \in Submissions : Exists(s) =>
        LET c == sub[s].challenge
            p == sub[s].parent
        IN  /\ policy[c].shortlisted => sub[s].agent \in EffectiveShortlist(c)
            /\ ~sub[s].late
            /\ p # None => /\ sub[p].visible
                           /\ sub[p].agent = sub[s].agent
                           /\ sub[p].challenge = c

\* Everything the public may be sent is part of the result of record of a
\* visible submission, on a surface its challenge has opened, though submission,
\* policy and rows are read one after another. The one thing it learns of any
\* other submission is that the number of attempts counts it, while its
\* challenge is active, and no completed submission is counted that is not an
\* attempt. A submitter is never sent an official log that may show private
\* material, and the creator's figures agree with what the public sees.
DisclosureIsWarranted ==
    LET Open(level, c) == level \in {"public", "public_live"} \/ (level = "public_after_close" /\ HasClosed(c))
    IN  /\ \A i \in PublicAnswer :
               LET p == policy[sub[i.sub].challenge]
                   c == sub[i.sub].challenge
               IN  \/ i.field = "attempt" /\ c \notin archived
                   \/ /\ sub[i.sub].visible
                      /\ i.field \in {"result", "primary_metric", "artifact", "value", "count"}
                      /\ i.field \in {"result", "artifact", "count"} => Open(p.detail, c)
                      /\ i.field = "artifact" => Open(p.publication, c)
                      /\ i.field = "primary_metric" => Open(p.detail, c) \/ Open(p.leaderboard, c)
                      /\ i.field = "value" => p.primaryPublic /\ Open(p.distribution, c)
        /\ ObserverRows \subseteq AttemptRows
        /\ \A s \in Submissions : Item(s, "official_log") \in OwnerAnswer(s) =>
               ~policy[sub[s].challenge].private /\ ~RedactAlways
        /\ \A c \in Challenges :
               /\ LeaderboardRows(c) \subseteq CreatorStats(c).completed \cap CreatorStats(c).visible
               /\ {sub[s].agent : s \in PublicRows(c)} \subseteq Participants(c)

\* An archived challenge gets no new work: neither a submission whose admission
\* was under way when it was archived nor a rejudge (the admission holds the
\* challenge row from its checks to its commit).
ArchivedAcceptsNothing ==
    [][\A s \in Submissions :
          sub[s].active = None /\ sub'[s].active # None => sub'[s].challenge \notin archived]_participationVars

=============================================================================
