-------------------------- MODULE OperationsProofs --------------------------
(***************************************************************************)
(* Proofs about the storage library, the service start-up, the preparation *)
(* of the runner's quota storage and the operator's tools.  The components *)
(* share no state; each part below states the inductive invariant of one   *)
(* of them, shows that it is one, and derives the property the tools run   *)
(* checks.                                                                 *)
(***************************************************************************)
EXTENDS ObjectStorage, ServiceStartup, StoragePreparation, ComposeOperations,
        BaselineSubmitter, ProductionRehearsal, FiniteSetTheorems,
        SequenceTheorems, WellFoundedInduction, NaturalsInduction, TLAPS

-----------------------------------------------------------------------------
(* The release rehearsal.                                                  *)

RehearsalPhases ==
  {"idle", "preflight", "createCode", "register", "fixtures", "happyPath",
   "adversarial", "browser", "revoke", "archive", "report", "passed",
   "failed", "error", "interrupted"}

Checks ==
  {"preflight", "create pioneer code", "register rehearsal agent",
   "write challenge fixtures", "seed challenge fixtures", "agent token",
   "validation create", "official create", "separated fixture",
   "oversized manifest note", "archive traversal entry",
   "run-stage network probe", "participant private-data probe",
   "revoke pioneer code", "fixture archival"}

Runs ==
  [at : RehearsalPhases, confirmed : BOOLEAN, keep : BOOLEAN,
   codeId : BOOLEAN, token : BOOLEAN, listed : BOOLEAN,
   failed : SUBSET Checks]

\* The phases before the request for a code has gone out, and those after the
\* one for its revocation has.
BeforeCode == {"idle", "preflight", "createCode"}

AfterRevocation == {"archive", "report", "passed", "failed"}

\* Only a registered code's agent is active.
AgentNeedsCode == agent = "active" => code = "active"

NothingYet ==
  rehearsal.at \in BeforeCode =>
    code = "none" /\ late = {} /\ ~rehearsal.codeId

\* A code the run does not know of, and one that may still come to be, are in
\* the report as a failed creation; the code a run knows of exists once.
UnknownIsReported ==
  /\ code = "active" /\ ~rehearsal.codeId =>
       "create pioneer code" \in rehearsal.failed
  /\ "create" \in late =>
       ~rehearsal.codeId /\ "create pioneer code" \in rehearsal.failed

\* A code the run knows of is revoked, or its failed revocation is reported.
KnownIsRevoked ==
  rehearsal.at \in AfterRevocation /\ rehearsal.codeId /\ ~rehearsal.keep =>
    code # "active" \/ "revoke pioneer code" \in rehearsal.failed

RehearsalInv ==
  /\ rehearsal \in Runs
  /\ AgentNeedsCode /\ NothingYet /\ UnknownIsReported /\ KnownIsRevoked

\* What a step to a phase, with some failed checks, leaves of the run.
LEMMA StepIsRun ==
  ASSUME rehearsal \in Runs, NEW phase \in RehearsalPhases,
         NEW names \in SUBSET Checks,
         NEW next, next = Checked(Move(phase), names)
  PROVE  /\ next \in Runs /\ next.at = phase
         /\ next.keep = rehearsal.keep /\ next.codeId = rehearsal.codeId
         /\ next.failed = rehearsal.failed \cup names
<1>1. /\ Move(phase) \in Runs /\ Move(phase).at = phase
      /\ Move(phase).keep = rehearsal.keep
      /\ Move(phase).codeId = rehearsal.codeId
      /\ Move(phase).failed = rehearsal.failed
  BY DEF Move, Runs
<1> QED
  BY <1>1 DEF Checked, Runs

\* The same without a check.
LEMMA MoveIsRun ==
  ASSUME rehearsal \in Runs, NEW phase \in RehearsalPhases,
         NEW next, next = Move(phase)
  PROVE  /\ next \in Runs /\ next.at = phase
         /\ next.keep = rehearsal.keep /\ next.codeId = rehearsal.codeId
         /\ next.failed = rehearsal.failed
  BY DEF Move, Runs

\* The check of a request.
LEMMA CheckNames ==
  ASSUME NEW name \in Checks, NEW reply
  PROVE  /\ CheckOf(name, reply) \in SUBSET Checks
         /\ reply # "answered" => name \in CheckOf(name, reply)
  BY DEF CheckOf

\* A step that leaves the platform alone and goes from one phase to another,
\* neither of which says anything of the code.
LEMMA QuietRehearsalStep ==
  ASSUME RehearsalInv, UNCHANGED platformVars, rehearsal' \in Runs,
         rehearsal'.at \in BeforeCode => rehearsal.at \in BeforeCode,
         rehearsal'.at \in AfterRevocation =>
           \/ rehearsal.at \in AfterRevocation
           \/ rehearsal'.keep \/ ~rehearsal'.codeId,
         rehearsal'.keep = rehearsal.keep,
         rehearsal'.codeId = rehearsal.codeId,
         rehearsal.failed \subseteq rehearsal'.failed
  PROVE  RehearsalInv'
  BY DEF RehearsalInv, AgentNeedsCode, NothingYet, UnknownIsReported,
         KnownIsRevoked, platformVars

\* The phases between, which check and submit.
LEMMA QuietPhase ==
  ASSUME RehearsalInv, UNCHANGED platformVars,
         NEW phase \in RehearsalPhases \ (BeforeCode \cup AfterRevocation),
         NEW names \in SUBSET Checks,
         rehearsal' = Checked(Move(phase), names)
  PROVE  RehearsalInv'
<1>1. rehearsal \in Runs
  BY DEF RehearsalInv
<1>2. /\ rehearsal' \in Runs /\ rehearsal'.at = phase
      /\ rehearsal'.keep = rehearsal.keep
      /\ rehearsal'.codeId = rehearsal.codeId
      /\ rehearsal.failed \subseteq rehearsal'.failed
  BY <1>1, StepIsRun
<1> QED
  BY <1>2, QuietRehearsalStep

\* A rehearsal starts with its invariant.
LEMMA RehearsalStarts == RehearsalInit => RehearsalInv
  BY DEF RehearsalInit, RehearsalInv, NotStarted, Runs, RehearsalPhases,
         AgentNeedsCode, NothingYet, UnknownIsReported, KnownIsRevoked,
         AfterRevocation

\* No step of a rehearsal leaves its invariant.
LEMMA RehearsalKeeps ==
  RehearsalInv /\ [RehearsalNext]_rehearsalVars => RehearsalInv'
<1> SUFFICES ASSUME RehearsalInv, [RehearsalNext]_rehearsalVars
             PROVE  RehearsalInv'
  OBVIOUS
<1>0. rehearsal \in Runs
  BY DEF RehearsalInv
<1> USE DEF BeforeCode, AfterRevocation
<1>1. ASSUME NEW confirmed \in BOOLEAN, NEW keep \in BOOLEAN,
             Start(confirmed, keep)
      PROVE  RehearsalInv'
  <2>1. rehearsal' = [at |-> "preflight", confirmed |-> confirmed,
                      keep |-> keep, codeId |-> FALSE, token |-> FALSE,
                      listed |-> FALSE, failed |-> {}]
    BY <1>1 DEF Start, NotStarted
  <2>2. /\ rehearsal' \in Runs /\ rehearsal'.at = "preflight"
        /\ ~rehearsal'.codeId
    BY <2>1 DEF Runs, RehearsalPhases
  <2>3. code = "none" /\ late = {} /\ UNCHANGED platformVars
    BY <1>1 DEF Start, RehearsalInv, NothingYet
  <2> QED
    BY <2>2, <2>3 DEF RehearsalInv, AgentNeedsCode, NothingYet,
       UnknownIsReported, KnownIsRevoked, platformVars
<1>2. ASSUME NEW passed \in BOOLEAN, Preflight(passed)
      PROVE  RehearsalInv'
  <2>1. PICK phase \in {"createCode", "report"},
             names \in SUBSET Checks :
          rehearsal' = Checked(Move(phase), names)
    <3>1. {} \in SUBSET Checks /\ {"preflight"} \in SUBSET Checks
      BY DEF Checks
    <3> QED
      BY <1>2, <3>1 DEF Preflight
  <2>2. phase \in RehearsalPhases
    BY DEF RehearsalPhases
  <2>3. rehearsal.at = "preflight" /\ UNCHANGED platformVars
    BY <1>2 DEF Preflight
  <2>4. ~rehearsal.codeId
    BY <2>3 DEF RehearsalInv, NothingYet
  <2> QED
    BY <1>0, <2>1, <2>2, <2>3, <2>4, StepIsRun, QuietRehearsalStep
<1>3. ASSUME NEW reply \in Replies, CreateCode(reply)
      PROVE  RehearsalInv'
  <2>0. PICK names \in SUBSET Checks :
          names = CheckOf("create pioneer code", reply)
    BY CheckNames DEF Checks
  <2> DEFINE step == Checked(Move("register"), names)
  <2>1. /\ step \in Runs /\ step.at = "register"
        /\ step.failed = rehearsal.failed \cup names
    BY <1>0, StepIsRun DEF RehearsalPhases
  <2>2. rehearsal' = [step EXCEPT !.codeId = (reply = "answered")]
    BY <1>3, <2>0 DEF CreateCode
  <2> HIDE DEF step
  <2>3. /\ rehearsal' \in Runs /\ rehearsal'.at = "register"
        /\ rehearsal'.codeId = (reply = "answered")
        /\ rehearsal'.failed = step.failed
    BY <2>1, <2>2 DEF Runs
  <2>4. reply # "answered" =>
          "create pioneer code" \in rehearsal'.failed
    BY <2>0, <2>1, <2>3, CheckNames DEF Checks
  <2>5. code = "none" /\ late = {} /\ agent # "active"
    BY <1>3 DEF CreateCode, RehearsalInv, NothingYet, AgentNeedsCode
  <2>6. /\ reply = "answered" => late' = {} /\ code' = "active"
        /\ reply # "answered" => code' = "none"
        /\ agent' = agent
    BY <1>3, <2>5 DEF CreateCode, Sends, Takes
  <2> QED
    BY <2>3, <2>4, <2>5, <2>6 DEF RehearsalInv, AgentNeedsCode, NothingYet,
       UnknownIsReported, KnownIsRevoked
<1>4. ASSUME NEW reply \in Replies, RegisterAgent(reply)
      PROVE  RehearsalInv'
  <2>0. PICK names \in SUBSET Checks :
          names = CheckOf("register rehearsal agent", reply)
    BY CheckNames DEF Checks
  <2> DEFINE step == Checked(Move("fixtures"), names)
  <2>1. /\ step \in Runs /\ step.at = "fixtures"
        /\ step.codeId = rehearsal.codeId
        /\ rehearsal.failed \subseteq step.failed
    BY <1>0, StepIsRun DEF RehearsalPhases
  <2>2. rehearsal' = [step EXCEPT !.token = (reply = "answered")]
    BY <1>4, <2>0 DEF RegisterAgent
  <2> HIDE DEF step
  <2>3. /\ rehearsal' \in Runs /\ rehearsal'.at = "fixtures"
        /\ rehearsal'.codeId = rehearsal.codeId
        /\ rehearsal.failed \subseteq rehearsal'.failed
    BY <2>1, <2>2 DEF Runs
  <2>4. /\ UNCHANGED code
        /\ "create" \in late' => "create" \in late
        /\ agent' = "active" => agent = "active" \/ code = "active"
    BY <1>4 DEF RegisterAgent, Registrable, Sends, Takes
  <2>5. code = "active" \/ "create" \in late =>
          rehearsal.codeId \/ "create pioneer code" \in rehearsal'.failed
    BY <2>3 DEF RehearsalInv, UnknownIsReported
  <2>6. "create" \in late => ~rehearsal.codeId
    BY DEF RehearsalInv, UnknownIsReported
  <2>7. AgentNeedsCode'
    BY <2>4 DEF RehearsalInv, AgentNeedsCode
  <2> QED
    BY <2>3, <2>4, <2>5, <2>6, <2>7 DEF RehearsalInv, NothingYet,
       UnknownIsReported, KnownIsRevoked
<1>5. ASSUME NEW reply \in Replies, RevokeCode(reply)
      PROVE  RehearsalInv'
  <2>0. PICK names \in SUBSET Checks :
          names = CheckOf("revoke pioneer code", reply)
    BY CheckNames DEF Checks
  <2>1. rehearsal' = Checked(Move("archive"), names)
    BY <1>5, <2>0 DEF RevokeCode, CleanupCheck
  <2>2. /\ rehearsal' \in Runs /\ rehearsal'.at = "archive"
        /\ rehearsal'.codeId = rehearsal.codeId
        /\ rehearsal'.failed = rehearsal.failed \cup names
    BY <1>0, <2>1, StepIsRun DEF RehearsalPhases
  <2>3. /\ reply # "answered" => "revoke pioneer code" \in rehearsal'.failed
        /\ rehearsal.failed \subseteq rehearsal'.failed
    BY <2>0, <2>2, CheckNames DEF Checks
  <2>4. /\ "create" \in late' => "create" \in late
        /\ reply = "answered" => code' = "revoked" /\ agent' # "active"
        /\ reply # "answered" => UNCHANGED <<code, agent>>
        /\ rehearsal.codeId
    BY <1>5 DEF RevokeCode, Sends, Takes
  <2> QED
    BY <2>2, <2>3, <2>4 DEF RehearsalInv, AgentNeedsCode, NothingYet,
       UnknownIsReported, KnownIsRevoked
<1>6. ASSUME NEW written \in BOOLEAN, WriteFixtures(written)
      PROVE  RehearsalInv'
  <2>1. PICK names \in SUBSET Checks :
          rehearsal' = [Checked(Move("happyPath"), names)
                          EXCEPT !.listed = written]
    <3>1. \A name \in {"seed challenge fixtures",
                       "write challenge fixtures"} : {name} \in SUBSET Checks
      BY DEF Checks
    <3> QED
      BY <1>6, <3>1 DEF WriteFixtures
  <2> DEFINE step == Checked(Move("happyPath"), names)
  <2>2. /\ step \in Runs /\ step.at = "happyPath"
        /\ step.keep = rehearsal.keep /\ step.codeId = rehearsal.codeId
        /\ rehearsal.failed \subseteq step.failed
    BY <1>0, StepIsRun DEF RehearsalPhases
  <2>3. rehearsal' = [step EXCEPT !.listed = written]
    BY <2>1
  <2> HIDE DEF step
  <2>4. /\ rehearsal' \in Runs /\ rehearsal'.at = "happyPath"
        /\ rehearsal'.keep = rehearsal.keep
        /\ rehearsal'.codeId = rehearsal.codeId
        /\ rehearsal.failed \subseteq rehearsal'.failed
    BY <2>2, <2>3 DEF Runs
  <2>5. UNCHANGED platformVars
    BY <1>6 DEF WriteFixtures
  <2> QED
    BY <2>4, <2>5, QuietRehearsalStep
<1>7. ASSUME HappyPath
      PROVE  RehearsalInv'
  <2>1. PICK names \in SUBSET Checks :
          rehearsal' = Checked(Move("adversarial"), names)
    <3>1. /\ {} \in SUBSET Checks /\ {"agent token"} \in SUBSET Checks
          /\ {"validation create", "official create"} \in SUBSET Checks
      BY DEF Checks
    <3> QED
      BY <1>7, <3>1 DEF HappyPath
  <2>2. /\ UNCHANGED platformVars
        /\ "adversarial" \in RehearsalPhases
                              \ (BeforeCode \cup AfterRevocation)
    BY <1>7 DEF HappyPath, RehearsalPhases
  <2> QED
    BY <2>1, <2>2, QuietPhase
<1>8. ASSUME NEW hostile \in SUBSET {"oversized manifest note",
                                     "archive traversal entry"},
             Adversarial(hostile)
      PROVE  RehearsalInv'
  <2>1. PICK names \in SUBSET Checks :
          rehearsal' = Checked(Move("browser"), names)
    <3>1. /\ {"agent token"} \in SUBSET Checks
          /\ {"separated fixture"} \in SUBSET Checks
          /\ {"run-stage network probe", "participant private-data probe"}
               \cup hostile \in SUBSET Checks
      BY DEF Checks
    <3> QED
      BY <1>8, <3>1 DEF Adversarial
  <2>2. /\ UNCHANGED platformVars
        /\ "browser" \in RehearsalPhases \ (BeforeCode \cup AfterRevocation)
    BY <1>8 DEF Adversarial, RehearsalPhases
  <2> QED
    BY <2>1, <2>2, QuietPhase
<1>9. ASSUME Browser
      PROVE  RehearsalInv'
  <2>1. PICK phase \in {"report", "revoke"} :
          rehearsal' = Move(phase) /\ (phase = "report" => rehearsal.keep)
    BY <1>9 DEF Browser
  <2>2. UNCHANGED platformVars /\ phase \in RehearsalPhases
    BY <1>9 DEF Browser, RehearsalPhases
  <2> QED
    BY <1>0, <2>1, <2>2, MoveIsRun, QuietRehearsalStep
<1>10. ASSUME SkipRevocation
       PROVE  RehearsalInv'
  <2>1. /\ rehearsal' = Move("archive") /\ ~rehearsal.codeId
        /\ UNCHANGED platformVars /\ "archive" \in RehearsalPhases
    BY <1>10 DEF SkipRevocation, RehearsalPhases
  <2> QED
    BY <1>0, <2>1, MoveIsRun, QuietRehearsalStep
<1>11. ASSUME ArchiveFixtures
       PROVE  RehearsalInv'
  <2>1. PICK names \in SUBSET Checks :
          rehearsal' = Checked(Move("report"), names)
    <3>1. {} \in SUBSET Checks /\ {"fixture archival"} \in SUBSET Checks
      BY DEF Checks
    <3> QED
      BY <1>11, <3>1 DEF ArchiveFixtures, CleanupCheck
  <2>2. /\ UNCHANGED platformVars /\ rehearsal.at = "archive"
        /\ "report" \in RehearsalPhases
    BY <1>11 DEF ArchiveFixtures, RehearsalPhases
  <2> QED
    BY <1>0, <2>1, <2>2, StepIsRun, QuietRehearsalStep
<1>12. ASSUME NEW written \in BOOLEAN, Report(written)
       PROVE  RehearsalInv'
  <2>1. PICK phase \in {"error", "passed", "failed"} :
          rehearsal' = Move(phase)
    BY <1>12 DEF Report
  <2>2. /\ UNCHANGED platformVars /\ rehearsal.at = "report"
        /\ phase \in RehearsalPhases
    BY <1>12 DEF Report, RehearsalPhases
  <2> QED
    BY <1>0, <2>1, <2>2, MoveIsRun, QuietRehearsalStep
<1>13. ASSUME Interrupt
       PROVE  RehearsalInv'
  <2>1. /\ UNCHANGED platformVars /\ rehearsal' = Move("interrupted")
        /\ "interrupted" \in RehearsalPhases
    BY <1>13 DEF Interrupt, RehearsalPhases
  <2> QED
    BY <1>0, <2>1, MoveIsRun, QuietRehearsalStep
<1>14. ASSUME NEW request \in {"create", "register", "revoke"},
              NEW taken \in BOOLEAN, LateCall(request, taken)
       PROVE  RehearsalInv'
  <2>1. /\ request \in late /\ late' \subseteq late /\ UNCHANGED rehearsal
        /\ rehearsal.at \notin BeforeCode
    BY <1>14 DEF LateCall, RehearsalInv, NothingYet
  <2>2. CASE ~taken
    <3>1. UNCHANGED <<code, agent>>
      BY <1>14, <2>2 DEF LateCall
    <3> QED
      BY <2>1, <3>1 DEF RehearsalInv, AgentNeedsCode, NothingYet,
         UnknownIsReported, KnownIsRevoked
  <2>3. CASE taken /\ request = "create"
    <3>1. code' = "active" /\ UNCHANGED agent
      BY <1>14, <2>3 DEF LateCall, Takes
    <3> QED
      BY <2>1, <2>3, <3>1 DEF RehearsalInv, AgentNeedsCode, NothingYet,
         UnknownIsReported, KnownIsRevoked
  <2>4. CASE taken /\ request = "register"
    <3>1. code = "active" /\ UNCHANGED code
      BY <1>14, <2>4 DEF LateCall, Takes, Registrable
    <3> QED
      BY <2>1, <3>1 DEF RehearsalInv, AgentNeedsCode, NothingYet,
         UnknownIsReported, KnownIsRevoked
  <2>5. CASE taken /\ request = "revoke"
    <3>1. code' = "revoked" /\ agent' # "active"
      BY <1>14, <2>5 DEF LateCall, Takes
    <3> QED
      BY <2>1, <3>1 DEF RehearsalInv, AgentNeedsCode, NothingYet,
         UnknownIsReported, KnownIsRevoked
  <2> QED
    BY <2>2, <2>3, <2>4, <2>5
<1>15. CASE UNCHANGED rehearsalVars
  BY <1>15 DEF rehearsalVars, RehearsalInv, AgentNeedsCode, NothingYet,
     UnknownIsReported, KnownIsRevoked
<1> QED
  BY <1>1, <1>2, <1>3, <1>4, <1>5, <1>6, <1>7, <1>8, <1>9, <1>10, <1>11,
     <1>12, <1>13, <1>14, <1>15 DEF RehearsalNext

\* Whatever becomes of its calls, a rehearsal that was not told to keep its
\* artifacts leaves no usable code or agent that its report does not evidence
\* (run_identity_phase, run_cleanup_phase and RehearsalReport::failed).
THEOREM RehearsalSafety == RehearsalSpec => []LeftoversAreReported
<1>1. RehearsalInv => LeftoversAreReported
  BY DEF RehearsalInv, AgentNeedsCode, UnknownIsReported, KnownIsRevoked,
     AfterRevocation, Runs, LeftoversAreReported
<1> QED
  BY <1>1, RehearsalStarts, RehearsalKeeps, PTL DEF RehearsalSpec

-----------------------------------------------------------------------------
(* The service start-up.                                                   *)

\* A worker that came as far as the host probe has the configuration its
\* variables make, admitted by the policy and by the validation.
WorkerIsAdmitted ==
  worker.at # "down" =>
    /\ worker.config = Config(env)
    /\ ValidateEnvPolicy(env, "worker")

\* One that came further and requires the probe saw it pass.
WorkerIsProbed ==
  worker.at \notin {"down", "hostProbe"} /\ worker.config.probe = "require" =>
    worker.found = "passed"

\* An API server listens with the configuration its variables make.
ApiIsAdmitted ==
  api.at = "up" =>
    /\ api.config = Config(env)
    /\ ValidateEnvPolicy(env, "api")
    /\ ValidateApiSecurity(Config(env))

\* Compose creates services for a hosted stage in the production profile only.
ManagedIsHosted ==
  managed /\ env.stage \in Hosted => env.profile = "production"

\* The shape of what steps update in part.
StartupShape ==
  /\ DOMAIN file = Settings
  /\ worker = [at |-> worker.at, config |-> worker.config,
               found |-> worker.found]

StartupInv ==
  /\ StartupShape
  /\ WorkerIsAdmitted
  /\ WorkerIsProbed
  /\ ApiIsAdmitted
  /\ ManagedIsHosted

\* What the policy says of a variable a role requires, in a hosted stage.
LEMMA RequiredIsSet ==
  ASSUME NEW e, NEW role, NEW s \in Settings, ValidateEnvPolicy(e, role),
         s \in RequiredEnvs(e.stage, role)
  PROVE  IsSet(e, s) /\ e[s] \in RequiredValue(e.stage, s)
  BY DEF ValidateEnvPolicy

\* Variables the lemmas below name.
LEMMA SettingsAre ==
  {"stage", "profile", "probe", "pins", "storage", "layerQuota", "registration",
   "apiHost", "accelerators"} \subseteq Settings
  BY DEF Settings, Values

\* The values a hosted stage asks of the runner.
LEMMA RequiredValues ==
  ASSUME NEW stage \in Hosted
  PROVE  /\ RequiredValue(stage, "profile") = {"production"}
         /\ RequiredValue(stage, "probe") = {"require"}
         /\ RequiredValue(stage, "pins") = {"true"}
         /\ RequiredValue(stage, "layerQuota") = {"true"}
         /\ RequiredValue(stage, "storage") = {"slots"}
  BY DEF RequiredValue, Hosted

\* The configuration has the value of a variable that is set.
LEMMA ConfigOfSet ==
  ASSUME NEW e, NEW s \in Settings, IsSet(e, s)
  PROVE  Config(e)[s] = e[s]
  BY DEF Config

\* What the policy of a hosted stage makes of the worker's configuration.
LEMMA HostedWorker ==
  ASSUME NEW e, e.stage \in Hosted, ValidateEnvPolicy(e, "worker")
  PROVE  /\ Config(e).profile = "production"
         /\ Config(e).storage = "slots"
         /\ Config(e).layerQuota = "true"
         /\ Config(e).pins = "true"
         /\ Config(e).probe = "require"
<1>1. {"profile", "storage", "layerQuota", "pins", "probe"}
        \subseteq RequiredEnvs(e.stage, "worker")
  BY DEF RequiredEnvs, RequiredWorkerEnvs, RunnerEnvs
<1>2. \A s \in {"profile", "storage", "layerQuota", "pins", "probe"} :
        s \in Settings /\ IsSet(e, s) /\ e[s] \in RequiredValue(e.stage, s)
  BY <1>1, RequiredIsSet, SettingsAre
<1> QED
  BY <1>2, ConfigOfSet, RequiredValues

\* A file that Compose deploys for a hosted stage names the production profile.
LEMMA HostedDeployment ==
  ASSUME NEW e, e.stage \in Hosted, ValidateEnvPolicy(e, "compose")
  PROVE  e.profile = "production"
<1>1. "profile" \in RequiredEnvs(e.stage, "compose")
  BY DEF RequiredEnvs, RequiredComposeEnvs, RunnerEnvs
<1> QED
  BY <1>1, RequiredIsSet, RequiredValues, SettingsAre

\* A registration mode is one of the two.
LEMMA RegistrationModes ==
  ASSUME NEW e, NEW role, ValidateEnvPolicy(e, role)
  PROVE  Config(e).registration \in {"pioneer_code", "public"}
<1>1. "registration" \in DOMAIN Defaults
      /\ Defaults["registration"] = "pioneer_code"
  <2>1. AuthEnv \in EnvGroups /\ "registration" \in DOMAIN AuthEnv
        /\ AuthEnv["registration"] = "pioneer_code"
    BY DEF EnvGroups, AuthEnv
  <2>2. ASSUME NEW group \in EnvGroups, "registration" \in DOMAIN group
        PROVE  group = AuthEnv
    BY <2>2 DEF EnvGroups, ApiWebEnv, StorageEnv, AuthEnv, WorkerEnv, QuotaEnv,
                GithubAppEnv, RunnerEnv
  <2> QED
    BY <2>1, <2>2 DEF Defaults
<1>2. CASE IsSet(e, "registration")
  <2>1. e["registration"] \in RequiredValue(e.stage, "registration")
    BY <1>2, SettingsAre DEF ValidateEnvPolicy
  <2>2. RequiredValue(e.stage, "registration") = {"pioneer_code", "public"}
    BY DEF RequiredValue, Values
  <2> QED
    BY <1>2, <2>1, <2>2, ConfigOfSet, SettingsAre
<1>3. CASE ~IsSet(e, "registration")
  BY <1>1, <1>3, SettingsAre DEF Config
<1> QED
  BY <1>2, <1>3

\* The start-up begins with its invariant.
LEMMA StartupStarts == StartupInit => StartupInv
<1>1. \A stage : DOMAIN Example(stage) = Settings
  BY DEF Example
<1> QED
  BY <1>1 DEF StartupInit, StartupInv, StartupShape, WorkerIsAdmitted,
              WorkerIsProbed, ApiIsAdmitted, ManagedIsHosted, Down

\* No step of the start-up leaves its invariant.
LEMMA StartupKeeps ==
  StartupInv /\ [StartupNext]_startupVars => StartupInv'
<1> SUFFICES ASSUME StartupInv, [StartupNext]_startupVars
             PROVE  StartupInv'
  OBVIOUS
<1> USE DEF StartupInv, StartupShape, WorkerIsAdmitted, WorkerIsProbed,
            ApiIsAdmitted, ManagedIsHosted
<1>1. ASSUME NEW s, NEW v, EditFile(s, v)
      PROVE  StartupInv'
  BY <1>1 DEF EditFile
<1>2. ASSUME NEW gpuProfile, NEW accelerators, Deploy(gpuProfile, accelerators)
      PROVE  StartupInv'
  <2>1. env' = [file EXCEPT !.apiHost = "all", !.accelerators = accelerators]
    BY <1>2 DEF Deploy
  <2>2. env'.stage = file.stage /\ env'.profile = file.profile
    BY <2>1, SettingsAre
  <2>3. env'.stage \in Hosted => env'.profile = "production"
    BY <1>2, <2>2, HostedDeployment DEF Deploy
  <2> QED
    BY <1>2, <2>3 DEF Deploy, Down
<1>3. CASE Export
  BY <1>3 DEF Export
<1>4. CASE StartApi
  BY <1>4 DEF StartApi
<1>5. ASSUME NEW private, StartWorker(private)
      PROVE  StartupInv'
  BY <1>5 DEF StartWorker
<1>6. ASSUME NEW passed \in BOOLEAN, EnforceHostProbe(passed)
      PROVE  StartupInv'
  <2>1. UNCHANGED <<file, env, managed, api>>
    BY <1>6 DEF EnforceHostProbe
  <2>2. CASE worker' = Down
    BY <2>1, <2>2 DEF Down
  <2>3. CASE worker' # Down
    <3>1. PICK at \in {"gpuProbe", "connected"},
               found \in {"unprobed", "passed", "failed"} :
            /\ worker' = [worker EXCEPT !.at = at, !.found = found]
            /\ worker.config.probe = "require" => found = "passed"
      BY <1>6, <2>3 DEF EnforceHostProbe
    <3>2. worker' = [at |-> at, config |-> worker.config, found |-> found]
      BY <3>1
    <3>3. worker'.at = at /\ worker'.config = worker.config
          /\ worker'.found = found /\ worker.at = "hostProbe"
      BY <1>6, <3>2 DEF EnforceHostProbe
    <3> QED
      BY <2>1, <3>1, <3>2, <3>3
  <2> QED
    BY <2>2, <2>3
<1>7. ASSUME NEW at, worker.at \notin {"down", "hostProbe"},
             worker' = [worker EXCEPT !.at = at],
             UNCHANGED <<file, env, managed, api>>
      PROVE  StartupInv'
  <2>1. worker' = [at |-> at, config |-> worker.config, found |-> worker.found]
    BY <1>7
  <2> QED
    BY <1>7, <2>1
<1>8. CASE CreateGpuProbe
  BY <1>7, <1>8 DEF CreateGpuProbe
<1>9. ASSUME NEW passed, NEW removed, EndGpuProbe(passed, removed)
      PROVE  StartupInv'
  <2>1. UNCHANGED <<file, env, managed, api>>
    BY <1>9 DEF EndGpuProbe
  <2>2. CASE worker' = Down
    BY <2>1, <2>2 DEF Down
  <2>3. CASE worker' # Down
    BY <1>7, <1>9, <2>3 DEF EndGpuProbe
  <2> QED
    BY <2>2, <2>3
<1>10. CASE Run
  BY <1>7, <1>10 DEF Run
<1>11. ASSUME NEW service, Stop(service)
       PROVE  StartupInv'
  BY <1>11 DEF Stop, Down
<1>12. CASE UNCHANGED startupVars
  BY <1>12 DEF startupVars
<1> QED
  BY <1>1, <1>2, <1>3, <1>4, <1>5, <1>6, <1>8, <1>9, <1>10, <1>11, <1>12
  DEF StartupNext

\* A worker that takes jobs for a hosted stage runs hardened on a probed host,
\* and an API server that others can reach is guarded (validate_env_policy,
\* validate_runner_storage, validate_api_security), however the environment
\* file was edited and whatever restarted with the variables of before.
THEOREM StartupSafety == StartupSpec => []HostedStackIsHardened
<1>1. StartupInv => HostedWorkerIsHardened
  BY HostedWorker
  DEF StartupInv, WorkerIsAdmitted, WorkerIsProbed, HostedWorkerIsHardened,
      RequiresDigestPinnedImages
<1>2. StartupInv => PublicApiIsGuarded
  <2> SUFFICES ASSUME StartupInv, api.at = "up", api.config.apiHost = "all"
               PROVE  /\ api.config.registration = "pioneer_code"
                      /\ GithubAppEnabled(api.config)
                      /\ \/ api.config.cookieSecure = "true"
                         \/ api.config.redirect = "loopback"
                      /\ managed /\ env.stage \in Hosted =>
                           RequiresDigestPinnedImages(api.config)
    BY DEF PublicApiIsGuarded
  <2>1. /\ api.config = Config(env)
        /\ ValidateEnvPolicy(env, "api")
        /\ ValidateApiSecurity(api.config)
    BY DEF StartupInv, ApiIsAdmitted
  <2>2. api.config.registration \in {"pioneer_code", "public"}
    BY <2>1, RegistrationModes
  <2>3. managed /\ env.stage \in Hosted => api.config.profile = "production"
    <3>1. env.profile = "production" => IsSet(env, "profile")
      BY DEF IsSet
    <3> QED
      BY <2>1, <3>1, ConfigOfSet, SettingsAre DEF StartupInv, ManagedIsHosted
  <2> QED
    BY <2>1, <2>2, <2>3
    DEF ValidateApiSecurity, ValidateSessionCookie, RequiresDigestPinnedImages
<1> QED
  BY <1>1, <1>2, StartupStarts, StartupKeeps, PTL
  DEF StartupSpec, HostedStackIsHardened

-----------------------------------------------------------------------------
(* The operator's commands.                                                *)

\* A command is the record its steps update in part.
IsOperation(o) ==
  o = [kind |-> o.kind, ctx |-> o.ctx, overwrite |-> o.overwrite,
       dry |-> o.dry, state |-> o.state, at |-> o.at, phase |-> o.phase,
       stopped |-> o.stopped, wasJoined |-> o.wasJoined]

\* A purge that runs was admitted.
PurgeIsAdmitted ==
  op.kind = "purge" /\ Running => PurgeAdmitted(op.ctx, TRUE)

\* A runner container is on the daemon of the deployment it is labelled with.
RunnersAreOnTheirOwn == \A r \in runners : r.on = r.of

Daemons == [alive : Int, ready : BOOLEAN, socket : BOOLEAN, pidfile : BOOLEAN]

OpsInv ==
  /\ DOMAIN services = Deployments /\ daemon \in [Deployments -> Daemons]
  /\ IsOperation(op)
  /\ PurgeIsAdmitted
  /\ RunnersAreOnTheirOwn

\* What a step of a command leaves of it.
SameCommand(p) == IsOperation(p) /\ p.kind = op.kind /\ p.ctx = op.ctx

\* What no step of a purge may change.
SparesProduction ==
  /\ services'["prod"] = services["prod"]
  /\ volumes \cap {"prod"} \subseteq volumes'
  /\ trees \cap {"prod"} \subseteq trees'
  /\ daemon'["prod"] = daemon["prod"]
  /\ {r \in runners : r.of = "prod"} \subseteq runners'

\* Moving on leaves the command what it is.
LEMMA NextStepIsSame ==
  ASSUME NEW o, SameCommand(o)
  PROVE  SameCommand(NextStep(o))
<1>1. CASE o.at = Len(Plan(o.kind))
  <2>1. NextStep(o) = [o EXCEPT !.state = "done"]
    BY <1>1 DEF NextStep
  <2>2. NextStep(o) =
          [kind |-> o.kind, ctx |-> o.ctx, overwrite |-> o.overwrite,
           dry |-> o.dry, state |-> "done", at |-> o.at, phase |-> o.phase,
           stopped |-> o.stopped, wasJoined |-> o.wasJoined]
    BY <2>1 DEF SameCommand, IsOperation
  <2> QED
    BY <2>2 DEF SameCommand, IsOperation
<1>2. CASE o.at # Len(Plan(o.kind))
  <2>1. NextStep(o) = [o EXCEPT !.at = o.at + 1, !.phase = "read"]
    BY <1>2 DEF NextStep
  <2>2. NextStep(o) =
          [kind |-> o.kind, ctx |-> o.ctx, overwrite |-> o.overwrite,
           dry |-> o.dry, state |-> o.state, at |-> o.at + 1, phase |-> "read",
           stopped |-> o.stopped, wasJoined |-> o.wasJoined]
    BY <2>1 DEF SameCommand, IsOperation
  <2> QED
    BY <2>2 DEF SameCommand, IsOperation
<1> QED
  BY <1>1, <1>2

\* So does every other update of a step.
LEMMA UpdateIsSame ==
  ASSUME NEW o, SameCommand(o), NEW v
  PROVE  /\ SameCommand([o EXCEPT !.state = v])
         /\ SameCommand([o EXCEPT !.at = v])
         /\ SameCommand([o EXCEPT !.phase = v])
         /\ SameCommand([o EXCEPT !.stopped = v])
         /\ SameCommand([o EXCEPT !.wasJoined = v])
<1>1. SameCommand([o EXCEPT !.state = v])
  <2>1. [o EXCEPT !.state = v] =
       [kind |-> o.kind, ctx |-> o.ctx, overwrite |-> o.overwrite,
        dry |-> o.dry, state |-> v, at |-> o.at, phase |-> o.phase,
        stopped |-> o.stopped, wasJoined |-> o.wasJoined]
    BY DEF SameCommand, IsOperation
  <2> QED
    BY <2>1 DEF SameCommand, IsOperation
<1>2. SameCommand([o EXCEPT !.at = v])
  <2>1. [o EXCEPT !.at = v] =
       [kind |-> o.kind, ctx |-> o.ctx, overwrite |-> o.overwrite,
        dry |-> o.dry, state |-> o.state, at |-> v, phase |-> o.phase,
        stopped |-> o.stopped, wasJoined |-> o.wasJoined]
    BY DEF SameCommand, IsOperation
  <2> QED
    BY <2>1 DEF SameCommand, IsOperation
<1>3. SameCommand([o EXCEPT !.phase = v])
  <2>1. [o EXCEPT !.phase = v] =
       [kind |-> o.kind, ctx |-> o.ctx, overwrite |-> o.overwrite,
        dry |-> o.dry, state |-> o.state, at |-> o.at, phase |-> v,
        stopped |-> o.stopped, wasJoined |-> o.wasJoined]
    BY DEF SameCommand, IsOperation
  <2> QED
    BY <2>1 DEF SameCommand, IsOperation
<1>4. SameCommand([o EXCEPT !.stopped = v])
  <2>1. [o EXCEPT !.stopped = v] =
       [kind |-> o.kind, ctx |-> o.ctx, overwrite |-> o.overwrite,
        dry |-> o.dry, state |-> o.state, at |-> o.at, phase |-> o.phase,
        stopped |-> v, wasJoined |-> o.wasJoined]
    BY DEF SameCommand, IsOperation
  <2> QED
    BY <2>1 DEF SameCommand, IsOperation
<1>5. SameCommand([o EXCEPT !.wasJoined = v])
  <2>1. [o EXCEPT !.wasJoined = v] =
       [kind |-> o.kind, ctx |-> o.ctx, overwrite |-> o.overwrite,
        dry |-> o.dry, state |-> o.state, at |-> o.at, phase |-> o.phase,
        stopped |-> o.stopped, wasJoined |-> v]
    BY DEF SameCommand, IsOperation
  <2> QED
    BY <2>1 DEF SameCommand, IsOperation
<1> QED
  BY <1>1, <1>2, <1>3, <1>4, <1>5

\* What an admitted purge works on.
LEMMA PurgeWorksOnRehearsal ==
  ASSUME OpsInv, op.kind = "purge", Running
  PROVE  /\ c0.project = "rehearsal" /\ c0.namespace = "rehearsal"
         /\ Managed = "rehearsal" /\ c0.pidfile = "rehearsal"
         /\ PurgePaths(c0) = {"rehearsal"}
  BY DEF OpsInv, PurgeIsAdmitted, PurgeAdmitted, PurgePaths, c0, Managed,
         ManagedSocket

\* What the updates of a daemon leave it.
LEMMA DaemonUpdates ==
  ASSUME NEW d \in Daemons
  PROVE  /\ [d EXCEPT !.alive = @ - 1, !.ready = FALSE] \in Daemons
         /\ [d EXCEPT !.alive = @ + 1, !.ready = FALSE, !.socket = TRUE,
                      !.pidfile = TRUE] \in Daemons
         /\ \A dies \in BOOLEAN :
              [d EXCEPT !.alive = IF dies /\ @ > 0 THEN @ - 1 ELSE @,
                        !.ready = @ /\ ~dies] \in Daemons
         /\ [d EXCEPT !.pidfile = @ /\ "prod" # "rehearsal",
                      !.socket = @ /\ "prod" # "rehearsal"] = d
<1>1. /\ d = [alive |-> d.alive, ready |-> d.ready, socket |-> d.socket,
              pidfile |-> d.pidfile]
      /\ d.alive \in Int /\ d.ready \in BOOLEAN /\ d.socket \in BOOLEAN
      /\ d.pidfile \in BOOLEAN
  BY DEF Daemons
<1>2. [d EXCEPT !.alive = @ - 1, !.ready = FALSE] \in Daemons
  <2>1. PICK m \in Int : d.alive - 1 = m
    BY <1>1
  <2>2. [d EXCEPT !.alive = m, !.ready = FALSE] \in Daemons
    BY DEF Daemons
  <2> QED
    BY <2>1, <2>2, Zenon
<1>3. [d EXCEPT !.alive = @ + 1, !.ready = FALSE, !.socket = TRUE,
                !.pidfile = TRUE] \in Daemons
  <2>1. PICK m \in Int : d.alive + 1 = m
    BY <1>1
  <2>2. [d EXCEPT !.alive = m, !.ready = FALSE, !.socket = TRUE,
                  !.pidfile = TRUE] \in Daemons
    BY DEF Daemons
  <2> QED
    BY <2>1, <2>2, Zenon
<1>4. ASSUME NEW dies \in BOOLEAN
      PROVE  [d EXCEPT !.alive = IF dies /\ @ > 0 THEN @ - 1 ELSE @,
                       !.ready = @ /\ ~dies] \in Daemons
  <2>1. PICK m \in Int : (IF dies /\ d.alive > 0 THEN d.alive - 1 ELSE d.alive) = m
    BY <1>1
  <2>2. [d EXCEPT !.alive = m, !.ready = @ /\ ~dies] \in Daemons
    BY DEF Daemons
  <2> QED
    BY <2>1, <2>2, Zenon
<1>5. [d EXCEPT !.pidfile = @ /\ "prod" # "rehearsal",
                !.socket = @ /\ "prod" # "rehearsal"] = d
  <2>1. [d EXCEPT !.pidfile = @ /\ "prod" # "rehearsal",
                  !.socket = @ /\ "prod" # "rehearsal"] =
          [alive |-> d.alive, ready |-> d.ready,
           socket |-> (d.socket /\ "prod" # "rehearsal"),
           pidfile |-> (d.pidfile /\ "prod" # "rehearsal")]
    BY <1>1
  <2>2. /\ d.socket = (d.socket /\ "prod" # "rehearsal")
        /\ d.pidfile = (d.pidfile /\ "prod" # "rehearsal")
    BY <1>1
  <2> QED
    BY <1>1, <2>1, <2>2
<1> QED
  BY <1>2, <1>3, <1>4, <1>5

\* The commands start with the invariant.
LEMMA OperationsStart == OperationsInit => OpsInv
<1> SUFFICES ASSUME OperationsInit PROVE OpsInv
  OBVIOUS
<1>1. IsOperation(op)
  BY DEF OperationsInit, Operation, IsOperation
<1>2. PurgeIsAdmitted
  BY DEF OperationsInit, Operation, PurgeIsAdmitted, Running
<1>3. daemon \in [Deployments -> Daemons]
  <2>1. StoppedDaemon \in Daemons
    BY DEF StoppedDaemon, Daemons
  <2>2. StartingDaemon \in Daemons
    BY DEF StartingDaemon, Daemons
  <2>3. [StartingDaemon EXCEPT !.ready = TRUE] \in Daemons
    BY <2>2 DEF Daemons
  <2> QED
    BY <2>1, <2>2, <2>3 DEF OperationsInit
<1>4. DOMAIN services = Deployments /\ RunnersAreOnTheirOwn
  BY DEF OperationsInit, RunnersAreOnTheirOwn
<1> QED
  BY <1>1, <1>2, <1>3, <1>4 DEF OpsInv

\* A step that leaves the running command what it is, adds no runner container
\* and takes nothing of production in a purge, is a good one.
LEMMA CommandStep ==
  ASSUME OpsInv, Running, SameCommand(op'), runners' \subseteq runners,
         DOMAIN services' = Deployments, daemon' \in [Deployments -> Daemons],
         op.kind = "purge" => SparesProduction
  PROVE  OpsInv' /\ (op.kind = "purge" /\ Running /\ op' # op => SparesProduction)
  BY DEF OpsInv, SameCommand, PurgeIsAdmitted, Running, RunnersAreOnTheirOwn

\* No step leaves the invariant or takes production away in a purge.
LEMMA OperationsKeep ==
  ASSUME OpsInv, [OperationsNext]_opsVars
  PROVE  /\ OpsInv'
         /\ op.kind = "purge" /\ Running /\ op' # op => SparesProduction
<1> DEFINE Good == /\ OpsInv'
                   /\ op.kind = "purge" /\ Running /\ op' # op =>
                        SparesProduction
<1> SUFFICES Good
  OBVIOUS
<1> HIDE DEF Good
<1>a. SameCommand(op)
  BY DEF SameCommand, OpsInv
<1>b. /\ DOMAIN services = Deployments /\ daemon \in [Deployments -> Daemons]
      /\ \A r \in runners : r.on = r.of
      /\ "prod" \in Deployments /\ "prod" # "rehearsal"
  BY DEF OpsInv, RunnersAreOnTheirOwn, Deployments
<1>c. ASSUME Running, SameCommand(op'), UNCHANGED hostVars
      PROVE  Good
  BY <1>c, <1>b, CommandStep DEF Good, hostVars, SparesProduction
<1>d. ASSUME NEW result, EndWith(result)
      PROVE  SameCommand(op')
  BY <1>a, <1>d, UpdateIsSame DEF EndWith
<1>e. ASSUME Advance
      PROVE  SameCommand(op')
  BY <1>a, <1>e, NextStepIsSame DEF Advance
<1>f. ASSUME UNCHANGED <<services, daemon, op>>, \A r \in runners' : r.on = r.of
      PROVE  Good
  BY <1>f DEF Good, OpsInv, PurgeIsAdmitted, Running, RunnersAreOnTheirOwn
<1>1. ASSUME NEW kind, StartOperation(kind)
      PROVE  Good
  <2>1. PICK c \in Contexts, overwrite, dry, confirmed \in BOOLEAN :
          /\ kind = "purge" => PurgeAdmitted(c, confirmed)
          /\ op' = Operation(kind, c, overwrite, dry, "running")
    BY <1>1 DEF StartOperation
  <2>2. IsOperation(op') /\ op'.kind = kind /\ op'.ctx = c
    BY <2>1 DEF Operation, IsOperation
  <2>3. ~Running /\ UNCHANGED hostVars
    BY <1>1 DEF StartOperation
  <2> QED
    BY <2>1, <2>2, <2>3
    DEF Good, OpsInv, hostVars, PurgeIsAdmitted, PurgeAdmitted,
        RunnersAreOnTheirOwn
<1>2. CASE ComposeUp
  <2>a. Advance \/ EndWith("failed")
    BY <1>2 DEF ComposeUp
  <2>b. Running
    BY <1>2 DEF ComposeUp, At
  <2>0. Running /\ SameCommand(op')
    BY <2>a, <2>b, <1>d, <1>e
  <2>1. op.kind = "purge" => c0.project = "rehearsal"
    BY <1>2, PurgeWorksOnRehearsal DEF ComposeUp, At
  <2>2. /\ UNCHANGED <<trees, daemon, runners>>
        /\ volumes \subseteq volumes'
        /\ DOMAIN services' = Deployments
        /\ c0.project # "prod" => services'["prod"] = services["prod"]
    BY <1>2, <1>b DEF ComposeUp
  <2>3. op.kind = "purge" => SparesProduction
    BY <1>b, <2>1, <2>2 DEF SparesProduction
  <2>4. runners' \subseteq runners /\ daemon' \in [Deployments -> Daemons]
    BY <1>b, <2>2
  <2> QED
    BY <2>0, <2>2, <2>3, <2>4, CommandStep DEF Good
<1>3. CASE RequireWorkers
  <2>a. Advance \/ EndWith("failed")
    BY <1>3 DEF RequireWorkers
  <2>b. Running
    BY <1>3 DEF RequireWorkers, At
  <2>0. Running /\ SameCommand(op')
    BY <2>a, <2>b, <1>d, <1>e
  <2> QED
    BY <1>3, <1>c, <2>0 DEF RequireWorkers
<1>4. CASE RunCheck
  <2>a. Advance \/ EndWith("failed")
    BY <1>4 DEF RunCheck
  <2>b. Running
    BY <1>4 DEF RunCheck, At
  <2>0. Running /\ SameCommand(op')
    BY <2>a, <2>b, <1>d, <1>e
  <2> QED
    BY <1>4, <1>c, <2>0 DEF RunCheck
<1>5. CASE ListRunners
  <2>a. Advance \/ EndWith("failed")
    BY <1>5 DEF ListRunners
  <2>b. Running
    BY <1>5 DEF ListRunners, At
  <2>0. Running /\ SameCommand(op')
    BY <2>a, <2>b, <1>d, <1>e
  <2> QED
    BY <1>5, <1>c, <2>0 DEF ListRunners
<1>6. CASE AwaitDaemon
  <2>a. Advance \/ EndWith("failed")
    BY <1>6 DEF AwaitDaemon
  <2>b. Running
    BY <1>6 DEF AwaitDaemon, At
  <2>0. Running /\ SameCommand(op')
    BY <2>a, <2>b, <1>d, <1>e
  <2> QED
    BY <1>6, <1>c, <2>0 DEF AwaitDaemon
<1>7. ASSUME NEW s, NEW bridge, NEW guard, Egress(s, bridge, guard)
      PROVE  Good
  <2>a. Advance \/ EndWith("failed")
    BY <1>7 DEF Egress
  <2>b. Running
    BY <1>7 DEF Egress, At
  <2>0. Running /\ SameCommand(op')
    BY <2>a, <2>b, <1>d, <1>e
  <2> QED
    BY <1>7, <1>b, <2>0, CommandStep DEF Good, Egress, SparesProduction
<1>8. CASE StopWorkers
  <2>1. Running /\ UNCHANGED <<volumes, trees, daemon, runners>>
    BY <1>8 DEF StopWorkers, At
  <2>2. PICK left, stopped :
          /\ services' = [services EXCEPT ![c0.project] = left]
          /\ op' = [NextStep(op) EXCEPT !.stopped = stopped]
    BY <1>8 DEF StopWorkers
  <2>3. SameCommand(op')
    BY <1>a, <2>2, NextStepIsSame, UpdateIsSame
  <2>4. op.kind = "purge" => c0.project = "rehearsal"
    BY <2>1, PurgeWorksOnRehearsal
  <2> QED
    BY <1>b, <2>1, <2>2, <2>3, <2>4, CommandStep DEF Good, SparesProduction
<1>9. ASSUME NEW s, NEW withVolumes, ComposeDown(s, withVolumes)
      PROVE  Good
  <2>1. Running /\ SameCommand(op')
    BY <1>9, <1>e DEF ComposeDown, At
  <2>2. op.kind = "purge" => c0.project = "rehearsal"
    BY <2>1, PurgeWorksOnRehearsal
  <2> QED
    BY <1>9, <1>b, <2>1, <2>2, CommandStep DEF Good, ComposeDown, SparesProduction
<1>10. ASSUME NEW s, CleanRunners(s)
      PROVE  Good
  <2>1. Running /\ SameCommand(op')
    BY <1>10, <1>d, <1>e DEF CleanRunners, At
  <2>2. UNCHANGED <<services, volumes, trees, daemon>>
        /\ runners \ Listed(c0) \subseteq runners' /\ runners' \subseteq runners
    BY <1>10 DEF CleanRunners
  <2>3. op.kind = "purge" => \A r \in Listed(c0) : r.of # "prod"
    BY <2>1, <1>b, PurgeWorksOnRehearsal DEF Listed
  <2> QED
    BY <1>b, <2>1, <2>2, <2>3, CommandStep DEF Good, SparesProduction
<1>11. CASE CleanIfSocket
  <2>1. CASE CleanRunners("cleanIfSocket")
    BY <1>10, <2>1
  <2>2. CASE At("cleanIfSocket") /\ Advance /\ UNCHANGED hostVars
    BY <1>c, <1>e, <2>2 DEF At
  <2> QED
    BY <1>11, <2>1, <2>2 DEF CleanIfSocket
<1>12. CASE AskDaemon
  <2>1. Running /\ UNCHANGED hostVars
    BY <1>12 DEF AskDaemon, At
  <2>2. SameCommand(op')
    <3>1. PICK last :
            \/ op' = [op EXCEPT !.at = last]
            \/ Advance
            \/ EndWith("failed")
      BY <1>12 DEF AskDaemon
    <3>2. SameCommand([op EXCEPT !.at = last])
      BY <1>a, UpdateIsSame
    <3> QED
      BY <1>d, <1>e, <3>1, <3>2
  <2> QED
    BY <1>c, <2>1, <2>2
<1>13. ASSUME NEW d, Running, SameCommand(op'), SetDaemon(d),
       Managed \in Deployments => d \in Daemons
      PROVE  Good
  <2>1. op.kind = "purge" => Managed = "rehearsal"
    BY <1>13, PurgeWorksOnRehearsal
  <2>2. /\ UNCHANGED <<services, volumes, trees, runners>>
        /\ daemon' = [daemon EXCEPT ![Managed] = d]
    BY <1>13 DEF SetDaemon
  <2>3. daemon' \in [Deployments -> Daemons]
    <3>1. CASE Managed \in Deployments
      BY <1>13, <1>b, <2>2, <3>1
    <3>2. CASE Managed \notin Deployments
      <4>1. daemon' = daemon
        BY <1>b, <2>2, <3>2
      <4> QED
        BY <1>b, <4>1
    <3> QED
      BY <3>1, <3>2
  <2>4. op.kind = "purge" => SparesProduction
    BY <1>b, <2>1, <2>2 DEF SparesProduction
  <2> QED
    BY <1>13, <1>b, <2>2, <2>3, <2>4, CommandStep DEF Good
<1>14. CASE ClearStale
  <2> DEFINE d == [daemon[Managed] EXCEPT !.socket = FALSE, !.pidfile = FALSE]
  <2>1. Running /\ SameCommand(op') /\ SetDaemon(d)
    BY <1>14, <1>e DEF ClearStale, At
  <2>2. Managed \in Deployments => d \in Daemons
    <3>1. Managed \in Deployments => daemon[Managed] \in Daemons
      BY <1>b
    <3> QED
      BY <3>1 DEF Daemons
  <2> HIDE DEF d
  <2> QED
    BY <1>13, <2>1, <2>2
<1>15. CASE SpawnDaemon
  <2> DEFINE d == [daemon[Managed] EXCEPT !.alive = @ + 1, !.ready = FALSE,
                                  !.socket = TRUE, !.pidfile = TRUE]
  <2>1. Running /\ SameCommand(op') /\ SetDaemon(d)
    BY <1>15, <1>e DEF SpawnDaemon, At
  <2>2. Managed \in Deployments => d \in Daemons
    <3>1. Managed \in Deployments => daemon[Managed] \in Daemons
      BY <1>b
    <3> QED
      BY <3>1, DaemonUpdates, Zenon
  <2> HIDE DEF d
  <2> QED
    BY <1>13, <2>1, <2>2
<1>16. CASE EnsureBridge
  <2>1. Running /\ SameCommand(op')
    BY <1>16, <1>e DEF EnsureBridge, At
  <2> QED
    BY <1>16, <1>b, <2>1, CommandStep DEF Good, EnsureBridge, SparesProduction
<1>17. CASE KillDaemon
  <2>1. Running
    BY <1>17 DEF KillDaemon, At
  <2>2. CASE ~SocketIsManaged(c0)
    BY <1>17, <1>c, <1>d, <2>1, <2>2 DEF KillDaemon
  <2>3. CASE SocketIsManaged(c0) /\ ~daemon[c0.pidfile].pidfile
    <3>1. SameCommand(op')
      BY <1>17, <1>a, <2>3, NextStepIsSame DEF KillDaemon
    <3> DEFINE d == [daemon[Managed] EXCEPT !.socket = FALSE]
    <3>2. SetDaemon(d)
      BY <1>17, <2>3 DEF KillDaemon
    <3>3. Managed \in Deployments => d \in Daemons
      BY <1>b DEF Daemons
    <3> HIDE DEF d
    <3> QED
      BY <1>13, <2>1, <3>1, <3>2, <3>3
  <2>4. CASE SocketIsManaged(c0) /\ daemon[c0.pidfile].pidfile
    <3>1. SameCommand(op') /\ UNCHANGED <<services, volumes, trees, runners>>
      BY <1>17, <1>e, <2>4 DEF KillDaemon
    <3>2. PICK dies \in BOOLEAN :
            daemon' = [daemon EXCEPT
               ![c0.pidfile].alive = IF dies /\ @ > 0 THEN @ - 1 ELSE @,
               ![c0.pidfile].ready = @ /\ ~dies]
      BY <1>17, <2>4 DEF KillDaemon
    <3>3. /\ daemon' \in [Deployments -> Daemons]
          /\ c0.pidfile # "prod" => daemon'["prod"] = daemon["prod"]
      <4>1. CASE c0.pidfile \in Deployments
        <5> DEFINE p == c0.pidfile
                   d == [daemon[p] EXCEPT
                           !.alive = IF dies /\ @ > 0 THEN @ - 1 ELSE @,
                           !.ready = @ /\ ~dies]
        <5>1. d \in Daemons
          <6>1. daemon[p] \in Daemons
            BY <1>b, <4>1
          <6> QED
            BY <6>1, DaemonUpdates, Zenon
        <5>2. daemon' = [daemon EXCEPT ![p] = d]
          BY <1>b, <3>2, <4>1
        <5> HIDE DEF d, p
        <5>3. /\ daemon' \in [Deployments -> Daemons]
              /\ p # "prod" => daemon'["prod"] = daemon["prod"]
          BY <1>b, <5>1, <5>2
        <5> QED
          BY <5>3 DEF p
      <4>2. CASE c0.pidfile \notin Deployments
        <5>1. daemon' = daemon
          BY <1>b, <3>2, <4>2
        <5> QED
          BY <1>b, <5>1
      <4> QED
        BY <4>1, <4>2
    <3>4. op.kind = "purge" => c0.pidfile = "rehearsal"
      BY <2>1, PurgeWorksOnRehearsal
    <3>5. op.kind = "purge" => SparesProduction
      BY <1>b, <3>1, <3>3, <3>4 DEF SparesProduction
    <3> QED
      BY <1>b, <2>1, <3>1, <3>3, <3>5, CommandStep DEF Good
  <2> QED
    BY <2>2, <2>3, <2>4
<1>18. CASE AwaitExit
  <2>1. Running /\ SameCommand(op')
        /\ UNCHANGED <<services, volumes, trees, runners>>
    BY <1>18, <1>d, <1>e DEF AwaitExit, At
  <2>2. CASE daemon[c0.pidfile].alive = 0
    <3>1. daemon' = [d \in Deployments |->
                       [daemon[d] EXCEPT !.pidfile = @ /\ d # c0.pidfile,
                                         !.socket = @ /\ d # Managed]]
      BY <1>18, <2>2 DEF AwaitExit
    <3>2. op.kind = "purge" => c0.pidfile = "rehearsal" /\ Managed = "rehearsal"
      BY <2>1, PurgeWorksOnRehearsal
    <3>3. daemon' \in [Deployments -> Daemons]
      <4>1. ASSUME NEW d \in Deployments
            PROVE  [daemon[d] EXCEPT !.pidfile = @ /\ d # c0.pidfile,
                                     !.socket = @ /\ d # Managed] \in Daemons
        BY <1>b DEF Daemons
      <4> QED
        BY <3>1, <4>1
    <3>4. ASSUME op.kind = "purge"
          PROVE  SparesProduction
      <4>1. daemon'["prod"] =
              [daemon["prod"] EXCEPT !.pidfile = @ /\ "prod" # "rehearsal",
                                     !.socket = @ /\ "prod" # "rehearsal"]
        BY <1>b, <3>1, <3>2, <3>4
      <4>2. daemon["prod"] \in Daemons
        BY <1>b
      <4>3. daemon'["prod"] = daemon["prod"]
        BY <4>1, <4>2, DaemonUpdates, Zenon
      <4> QED
        BY <2>1, <4>3 DEF SparesProduction
    <3> QED
      BY <1>b, <2>1, <3>3, <3>4, CommandStep DEF Good
  <2>3. CASE daemon[c0.pidfile].alive # 0
    BY <1>18, <1>b, <2>1, <2>3, CommandStep DEF Good, AwaitExit, SparesProduction
  <2> QED
    BY <2>2, <2>3
<1>19. CASE RemovePaths
  <2>1. Running /\ SameCommand(op')
    BY <1>19, <1>e DEF RemovePaths, At
  <2>2. op.kind = "purge" => PurgePaths(c0) = {"rehearsal"}
    BY <2>1, PurgeWorksOnRehearsal
  <2>3. /\ UNCHANGED <<services, volumes>>
        /\ trees' = trees \ PurgePaths(c0)
        /\ runners' = {r \in runners : r.on \notin PurgePaths(c0)}
        /\ daemon' = [d \in Deployments |->
             IF d \in PurgePaths(c0)
             THEN [daemon[d] EXCEPT !.socket = FALSE, !.pidfile = FALSE]
             ELSE daemon[d]]
    BY <1>19 DEF RemovePaths
  <2>4. daemon' \in [Deployments -> Daemons]
    <3>1. \A d \in Deployments :
            [daemon[d] EXCEPT !.socket = FALSE, !.pidfile = FALSE] \in Daemons
      BY <1>b DEF Daemons
    <3> QED
      BY <1>b, <2>3, <3>1
  <2>5. ASSUME op.kind = "purge"
        PROVE  SparesProduction
    <3>1. daemon'["prod"] = daemon["prod"]
      BY <1>b, <2>2, <2>3, <2>5
    <3>2. \A r \in runners : r.of = "prod" => r \in runners'
      BY <1>b, <2>2, <2>3, <2>5
    <3> QED
      BY <1>b, <2>2, <2>3, <2>5, <3>1, <3>2 DEF SparesProduction
  <2> QED
    BY <1>b, <2>1, <2>3, <2>4, <2>5, CommandStep DEF Good
<1>20. CASE Running /\ SameCommand(op') /\ UNCHANGED <<services, volumes, trees, daemon, runners>>
  BY <1>20, <1>b, CommandStep DEF Good, SparesProduction
<1>21. CASE JoinNetwork
  <2>1. SameCommand(op')
    BY <1>21, <1>a, NextStepIsSame, UpdateIsSame DEF JoinNetwork
  <2> QED
    BY <1>21, <1>20, <2>1 DEF JoinNetwork, At
<1>22. ASSUME NEW result, Running, EndRestore(result)
      PROVE  Good
  BY <1>22, <1>d, <1>20 DEF EndRestore
<1>23. CASE LeaveNetwork
  BY <1>23, <1>22 DEF LeaveNetwork, At
<1>24. CASE CopyRead
  <2>1. Running
    BY <1>24 DEF CopyRead, Phase, At
  <2>2. CASE EndRestore("failed")
    BY <1>22, <2>1, <2>2
  <2>3. CASE Advance /\ UNCHANGED <<services, volumes, trees, daemon, runners>>
    BY <1>e, <1>20, <2>1, <2>3
  <2>4. CASE /\ op' = [op EXCEPT !.phase = "put"]
             /\ UNCHANGED <<services, volumes, trees, daemon, runners>>
    BY <1>a, <1>20, <2>1, <2>4, UpdateIsSame
  <2> QED
    BY <1>24, <2>2, <2>3, <2>4 DEF CopyRead
<1>25. CASE CopyPut
  <2>1. Running
    BY <1>25 DEF CopyPut, Phase, At
  <2>2. CASE EndRestore("failed")
    BY <1>22, <2>1, <2>2
  <2>3. CASE /\ op' = [op EXCEPT !.phase = "verify"]
             /\ UNCHANGED <<services, volumes, trees, daemon, runners>>
    BY <1>a, <1>20, <2>1, <2>3, UpdateIsSame
  <2> QED
    BY <1>25, <2>2, <2>3 DEF CopyPut
<1>26. CASE CopyVerify
  <2>1. Running
    BY <1>26 DEF CopyVerify, Phase, At
  <2>2. CASE EndRestore("failed")
    BY <1>22, <2>1, <2>2
  <2>3. CASE Advance /\ UNCHANGED <<services, volumes, trees, daemon, runners>>
    BY <1>e, <1>20, <2>1, <2>3
  <2> QED
    BY <1>26, <2>2, <2>3 DEF CopyVerify
<1>27. CASE StepFails
  BY <1>27, <1>c, <1>d, <1>22 DEF StepFails
<1>28. ASSUME NEW d, LaunchRunner(d)
      PROVE  Good
  BY <1>28, <1>b, <1>f DEF LaunchRunner
<1>29. ASSUME NEW d, FinishRunner(d)
      PROVE  Good
  BY <1>29, <1>b, <1>f DEF FinishRunner
<1>30. ASSUME NEW d \in Deployments, DaemonAnswers(d) \/ DaemonDies(d)
      PROVE  Good
  <2>1. UNCHANGED <<services, runners, op>>
    BY <1>30 DEF DaemonAnswers, DaemonDies
  <2>2. daemon' \in [Deployments -> Daemons]
    <3>1. CASE DaemonAnswers(d)
      <4>1. daemon' = [daemon EXCEPT ![d] = [daemon[d] EXCEPT !.ready = TRUE]]
        BY <3>1 DEF DaemonAnswers
      <4>2. [daemon[d] EXCEPT !.ready = TRUE] \in Daemons
        BY <1>b DEF Daemons
      <4> QED
        BY <1>b, <4>1, <4>2
    <3>2. CASE DaemonDies(d)
      <4>1. daemon' = [daemon EXCEPT
              ![d] = [daemon[d] EXCEPT !.alive = @ - 1, !.ready = FALSE]]
        BY <1>b, <3>2 DEF DaemonDies
      <4>2. [daemon[d] EXCEPT !.alive = @ - 1, !.ready = FALSE] \in Daemons
        <5>1. daemon[d] \in Daemons
          BY <1>b
        <5> QED
          BY <5>1, DaemonUpdates, Zenon
      <4> QED
        BY <1>b, <4>1, <4>2
    <3> QED
      BY <1>30, <3>1, <3>2
  <2> QED
    BY <2>1, <2>2
    DEF Good, OpsInv, PurgeIsAdmitted, Running, RunnersAreOnTheirOwn
<1>31. ASSUME NEW k, NEW v, OtherWriter(k, v)
      PROVE  Good
  BY <1>31, <1>b, <1>f DEF OtherWriter
<1>32. CASE UNCHANGED opsVars
  BY <1>32, <1>b, <1>f DEF opsVars, hostVars
<1> QED
  BY <1>1, <1>2, <1>3, <1>4, <1>5, <1>6, <1>7, <1>8, <1>9, <1>10,
     <1>11, <1>12, <1>13, <1>14, <1>15, <1>16, <1>17, <1>18, <1>19, <1>20,
     <1>21, <1>22, <1>23, <1>24, <1>25, <1>26, <1>27, <1>28, <1>29, <1>30,
     <1>31, <1>32
  DEF OperationsNext, ComposeEgress, RunnerEgress

\* No step of a rehearsal purge touches production (build_rehearsal_purge_plan,
\* collect_rehearsal_paths), whatever the three sources of its settings mix and
\* whatever workers and daemons do meanwhile.
THEOREM PurgeSafety == OperationsSpec => PurgeSparesProduction
<1>1. OpsInv /\ [OperationsNext]_opsVars => OpsInv'
  BY OperationsKeep
<1>2. OpsInv /\ [OperationsNext]_opsVars =>
        [op.kind = "purge" /\ Running /\ op' # op =>
           /\ services'["prod"] = services["prod"]
           /\ volumes \cap {"prod"} \subseteq volumes'
           /\ trees \cap {"prod"} \subseteq trees'
           /\ daemon'["prod"] = daemon["prod"]
           /\ {r \in runners : r.of = "prod"} \subseteq runners']_opsVars
  BY OperationsKeep DEF SparesProduction
<1> QED
  BY <1>1, <1>2, OperationsStart, PTL DEF OperationsSpec, PurgeSparesProduction

-----------------------------------------------------------------------------
(* The baseline submitter.                                                 *)

\* The submissions the platform holds for a baseline.
SubmissionsOf(k) == {i \in DOMAIN created : created[i].key = k}

Submissions == [key : Keys, status : {"queued", "completed", "failed"}]

Records == [status : {"none", "queued", "completed", "failed",
                      "failed_to_submit", "failed_to_wait"},
            id : Nat]

Submitters ==
  [at : {"idle", "loop", "submitted", "refused", "wait"}, next : Nat \ {0},
   resubmit : BOOLEAN, dryRun : BOOLEAN, limit : {0, 1},
   includeDeferred : BOOLEAN, counted : Nat, id : Nat]

BaselineType ==
  /\ created \in Seq(Submissions)
  /\ stateFile \in [Keys -> Records]
  /\ loaded \in [Keys -> Records]
  /\ submitter \in Submitters
  /\ unrecorded \in [Keys -> Nat]
  /\ resubmits \in [Keys -> Nat]

\* A command between two targets works on one of the list.
WorksOnTarget ==
  submitter.at \in {"submitted", "refused", "wait"} =>
    submitter.next \in DOMAIN Baselines

\* What the command works with is what the file says, but for the baseline
\* whose submission it just recorded.
LoadedIsFile ==
  submitter.at # "idle" =>
    \A k \in Keys :
      loaded[k] = stateFile[k] \/ (submitter.at = "wait" /\ k = Key)

\* A command that waits knows the id, one that has to record a creation has
\* counted it.
KnowsId ==
  /\ submitter.at \in {"wait", "submitted"} => submitter.id # 0
  /\ submitter.at = "submitted" => unrecorded[Key] > 0

\* The submissions of a baseline are the one in the file, the ones no line
\* names and the ones that were forced; while a creation is to be recorded,
\* the file's is among the others.
Accounted ==
  \A k \in Keys :
    /\ IsFiniteSet(SubmissionsOf(k))
    /\ Cardinality(SubmissionsOf(k)) <=
         (IF stateFile[k].id = 0 THEN 0 ELSE 1) + unrecorded[k] + resubmits[k]
    /\ submitter.at \in {"submitted", "refused"} /\ k = Key =>
         Cardinality(SubmissionsOf(k)) <= unrecorded[k] + resubmits[k]

BaselineInv ==
  BaselineType /\ WorksOnTarget /\ LoadedIsFile /\ KnowsId /\ Accounted

\* A target the command works on names a baseline.
LEMMA TargetIsKey ==
  ASSUME submitter.next \in DOMAIN Baselines
  PROVE  Key \in Keys
  BY DEF Key, Keys

LEMMA NextIsTarget ==
  ASSUME BaselineType, ~Exhausted
  PROVE  submitter.next \in DOMAIN Baselines
<1>1. submitter.next \in Nat \ {0}
  BY DEF BaselineType, Submitters
<1>2. Len(Baselines) \in Nat /\ DOMAIN Baselines = 1..Len(Baselines)
  BY BaselinesAssumption
<1> QED
  BY <1>1, <1>2 DEF Exhausted

\* The updates of the command stay commands.
LEMMA IdleIsSubmitter == Idle \in Submitters /\ Idle.at = "idle"
  BY DEF Idle, Submitters

LEMMA CountedIsSubmitter ==
  ASSUME NEW s \in Submitters
  PROVE  Counted(s) \in Submitters /\ Counted(s).at = "loop"
<1>1. PICK n \in Nat \ {0}, m \in Nat : s.next + 1 = n /\ s.counted + 1 = m
  BY DEF Submitters
<1>2. Counted(s) = [s EXCEPT !.at = "loop", !.next = n, !.counted = m, !.id = 0]
  BY <1>1, Zenon DEF Counted
<1> DEFINE r == [s EXCEPT !.at = "loop", !.next = n, !.counted = m, !.id = 0]
<1>3. r \in Submitters /\ r.at = "loop"
  BY DEF Submitters
<1> HIDE DEF r
<1> QED
  BY <1>2, <1>3 DEF r

\* The submitter starts with its invariant.
LEMMA BaselineStarts == BaselineInit => BaselineInv
<1> SUFFICES ASSUME BaselineInit PROVE BaselineInv
  OBVIOUS
<1>1. NoRecord \in Records /\ NoRecord.id = 0
  BY DEF NoRecord, Records
<1>2. submitter \in Submitters /\ submitter.at = "idle"
  BY IdleIsSubmitter DEF BaselineInit
<1>3. BaselineType
  BY <1>1, <1>2, EmptySeq DEF BaselineInit, BaselineType
<1>4. \A k \in Keys : SubmissionsOf(k) = {}
  BY DEF BaselineInit, SubmissionsOf
<1>5. Accounted
  <2> SUFFICES ASSUME NEW k \in Keys
               PROVE  /\ IsFiniteSet(SubmissionsOf(k))
                      /\ Cardinality(SubmissionsOf(k)) = 0
                      /\ stateFile[k].id = 0 /\ unrecorded[k] = 0
                      /\ resubmits[k] = 0
    BY <1>2 DEF Accounted
  <2> QED
    BY <1>1, <1>4, FS_EmptySet DEF BaselineInit
<1> QED
  BY <1>2, <1>3, <1>5 DEF BaselineInv, WorksOnTarget, LoadedIsFile, KnowsId

\* A step that records nothing and creates nothing keeps the account.
LEMMA QuietStep ==
  ASSUME BaselineInv, UNCHANGED <<created, stateFile, unrecorded, resubmits>>,
         submitter' \in Submitters, submitter'.at \in {"idle", "loop", "wait"},
         loaded' \in [Keys -> Records],
         submitter'.at = "wait" => /\ submitter'.next \in DOMAIN Baselines
                                   /\ submitter'.id # 0,
         submitter'.at # "idle" => loaded' = stateFile
  PROVE  BaselineInv'
<1>1. \A k \in Keys : SubmissionsOf(k)' = SubmissionsOf(k)
  BY DEF SubmissionsOf
<1>2. Accounted'
  BY <1>1 DEF BaselineInv, Accounted
<1> QED
  BY <1>2 DEF BaselineInv, BaselineType, WorksOnTarget, LoadedIsFile, KnowsId

\* The same for a step that stops the command.
LEMMA StoppingStep ==
  ASSUME BaselineInv, submitter' = Idle,
         UNCHANGED <<created, stateFile, loaded, unrecorded, resubmits>>
  PROVE  BaselineInv'
  BY QuietStep, IdleIsSubmitter DEF BaselineInv, BaselineType

\* A record of one baseline is a record in the file and in the command.
LEMMA LoopIsFile ==
  ASSUME BaselineInv, submitter.at \in {"loop", "submitted", "refused"}
  PROVE  loaded = stateFile
<1>1. /\ loaded \in [Keys -> Records] /\ stateFile \in [Keys -> Records]
      /\ \A k \in Keys : loaded[k] = stateFile[k]
  BY DEF BaselineInv, BaselineType, LoadedIsFile
<1> QED
  BY <1>1

\* Each step, then, one after the other.
LEMMA StartRunKeeps ==
  ASSUME BaselineInv, NEW resubmit \in BOOLEAN, NEW dryRun \in BOOLEAN,
         NEW limit \in {0, 1}, NEW include \in BOOLEAN,
         StartRun(resubmit, dryRun, limit, include)
  PROVE  BaselineInv'
<1>1. UNCHANGED <<created, stateFile, unrecorded, resubmits>>
      /\ submitter.at = "idle"
  BY DEF StartRun
<1>2. CASE torn
  <2>1. UNCHANGED <<loaded, submitter>>
    BY <1>2 DEF StartRun
  <2> QED
    BY <1>1, <2>1, QuietStep DEF BaselineInv, BaselineType
<1>3. CASE ~torn
  <2>1. loaded' = stateFile
        /\ submitter' = [at |-> "loop", next |-> 1, resubmit |-> resubmit,
                         dryRun |-> dryRun, limit |-> limit,
                         includeDeferred |-> include, counted |-> 0, id |-> 0]
    BY <1>3 DEF StartRun, Idle
  <2>2. submitter' \in Submitters /\ submitter'.at = "loop"
    BY <2>1 DEF Submitters
  <2> QED
    BY <1>1, <2>1, <2>2, QuietStep DEF BaselineInv, BaselineType
<1> QED
  BY <1>2, <1>3

LEMMA PassOverKeeps ==
  ASSUME BaselineInv, PassOver
  PROVE  BaselineInv'
<1>1. /\ UNCHANGED <<created, stateFile, loaded, unrecorded, resubmits>>
      /\ submitter.at = "loop"
  BY DEF PassOver
<1>2. submitter \in Submitters /\ loaded \in [Keys -> Records]
  BY DEF BaselineInv, BaselineType
<1>3. submitter' \in Submitters /\ submitter'.at = "loop"
  <2>1. CASE submitter' = [submitter EXCEPT !.next = @ + 1]
    <3>1. PICK n \in Nat \ {0} : submitter.next + 1 = n
      BY <1>2 DEF Submitters
    <3>2. submitter' = [submitter EXCEPT !.next = n]
      BY <2>1, <3>1, Zenon
    <3> QED
      BY <1>1, <1>2, <3>2 DEF Submitters
  <2>2. CASE submitter' = Counted(submitter)
    BY <1>2, <2>2, CountedIsSubmitter
  <2> QED
    BY <2>1, <2>2 DEF PassOver
<1> QED
  BY <1>1, <1>2, <1>3, QuietStep, LoopIsFile

LEMMA ResumeKeeps ==
  ASSUME BaselineInv, Resume
  PROVE  BaselineInv'
<1>1. /\ UNCHANGED <<created, stateFile, loaded, unrecorded, resubmits>>
      /\ submitter.at = "loop" /\ ~Exhausted
      /\ ResumableSubmissionId(Key) # 0
      /\ submitter' = [submitter EXCEPT !.at = "wait",
                                        !.id = ResumableSubmissionId(Key)]
  BY DEF Resume, Working
<1>2. submitter \in Submitters /\ loaded \in [Keys -> Records]
  BY DEF BaselineInv, BaselineType
<1>3. submitter.next \in DOMAIN Baselines /\ Key \in Keys
  BY <1>1, NextIsTarget, TargetIsKey DEF BaselineInv
<1>4. ResumableSubmissionId(Key) \in Nat
  BY <1>2, <1>3 DEF ResumableSubmissionId, Records
<1> DEFINE id == ResumableSubmissionId(Key)
<1>5. submitter' = [submitter EXCEPT !.at = "wait", !.id = id]
  BY <1>1
<1> HIDE DEF id
<1>6. /\ submitter' \in Submitters /\ submitter'.at = "wait"
      /\ submitter'.next = submitter.next /\ submitter'.id = id
  BY <1>2, <1>4, <1>5 DEF Submitters, id
<1> QED
  BY <1>1, <1>2, <1>3, <1>6, QuietStep, LoopIsFile DEF id

\* A creation adds one to what is unrecorded.
LEMMA CreateSubmissionKeeps ==
  ASSUME BaselineInv, NEW taken \in BOOLEAN, NEW reply \in BOOLEAN,
         CreateSubmission(taken, reply)
  PROVE  BaselineInv'
<1>1. /\ UNCHANGED <<stateFile, loaded>>
      /\ submitter.at = "loop" /\ ~Exhausted /\ ~AlreadyDone(Key)
      /\ ResumableSubmissionId(Key) = 0
      /\ resubmits' = IF submitter.resubmit
                      THEN [resubmits EXCEPT ![Key] = @ + 1] ELSE resubmits
  BY DEF CreateSubmission, Working
<1>2. /\ submitter \in Submitters /\ created \in Seq(Submissions)
      /\ loaded = stateFile /\ stateFile \in [Keys -> Records]
      /\ unrecorded \in [Keys -> Nat] /\ resubmits \in [Keys -> Nat]
      /\ Len(created) \in Nat
  BY <1>1, LoopIsFile DEF BaselineInv, BaselineType
<1>3. submitter.next \in DOMAIN Baselines /\ Key \in Keys
  BY <1>1, NextIsTarget, TargetIsKey DEF BaselineInv
<1>4. submitter.resubmit \/ stateFile[Key].id = 0
  BY <1>1, <1>2, <1>3 DEF ResumableSubmissionId, AlreadyDone
<1>5. PICK at \in {"submitted", "refused"}, id \in Nat :
        /\ submitter' = [submitter EXCEPT !.at = at, !.id = id]
        /\ at = "submitted" => taken /\ id # 0
  <2>1. CASE taken /\ reply
    <3>1. PICK n \in Nat \ {0} : Len(created) + 1 = n
      BY <1>2
    <3>2. submitter' = [submitter EXCEPT !.at = "submitted", !.id = n]
      BY <2>1, <3>1, Zenon DEF CreateSubmission
    <3> QED
      BY <2>1, <3>2
  <2>2. CASE ~(taken /\ reply)
    <3>1. submitter' = [submitter EXCEPT !.at = "refused"]
      BY <2>2 DEF CreateSubmission
    <3>2. submitter' = [submitter EXCEPT !.at = "refused", !.id = submitter.id]
      BY <1>2, <3>1 DEF Submitters
    <3>3. submitter.id \in Nat
      BY <1>2 DEF Submitters
    <3> QED
      BY <3>2, <3>3
  <2> QED
    BY <2>1, <2>2
<1>6. /\ submitter' \in Submitters /\ submitter'.next = submitter.next
      /\ submitter'.at = at /\ submitter'.id = id
  BY <1>2, <1>5 DEF Submitters
<1>7. Key' = Key
  BY <1>6 DEF Key
<1>8. \A k \in Keys : /\ resubmits'[k] \in Nat
                      /\ resubmits'[k] >= resubmits[k]
                      /\ submitter.resubmit /\ k = Key =>
                           resubmits'[k] = resubmits[k] + 1
  BY <1>1, <1>2, <1>3
<1>9. resubmits' \in [Keys -> Nat]
  BY <1>1, <1>2, <1>3
<1> DEFINE Old(k) == Cardinality(SubmissionsOf(k))
           New(k) == Cardinality(SubmissionsOf(k)')
<1>10. /\ created' \in Seq(Submissions)
       /\ unrecorded' \in [Keys -> Nat]
       /\ taken => unrecorded'[Key] = unrecorded[Key] + 1
       /\ \A k \in Keys : /\ IsFiniteSet(SubmissionsOf(k)')
                          /\ New(k) + unrecorded[k] <= Old(k) + unrecorded'[k]
  <2>1. CASE ~taken
    <3>1. UNCHANGED <<created, unrecorded>>
      BY <2>1 DEF CreateSubmission
    <3>2. \A k \in Keys : SubmissionsOf(k)' = SubmissionsOf(k)
      BY <3>1 DEF SubmissionsOf
    <3>3. \A k \in Keys : IsFiniteSet(SubmissionsOf(k)) /\ Old(k) \in Nat
      BY FS_CardinalityType DEF BaselineInv, Accounted
    <3> QED
      BY <1>2, <2>1, <3>1, <3>2, <3>3
  <2>2. CASE taken
    <3> DEFINE new == [key |-> Key, status |-> "queued"]
               n == Len(created) + 1
    <3>1. created' = Append(created, new)
          /\ unrecorded' = [unrecorded EXCEPT ![Key] = @ + 1]
      BY <2>2 DEF CreateSubmission
    <3>2. new \in Submissions /\ new.key = Key
      BY <1>3 DEF Submissions
    <3> HIDE DEF new
    <3>3. /\ created' \in Seq(Submissions)
          /\ DOMAIN created' = DOMAIN created \cup {n}
          /\ created'[n] = new /\ n \notin DOMAIN created
          /\ \A i \in DOMAIN created : created'[i] = created[i]
      BY <1>2, <3>1, <3>2, AppendProperties
    <3> HIDE DEF n
    <3>4. \A k \in Keys : SubmissionsOf(k)' = IF k = Key
                                              THEN SubmissionsOf(k) \cup {n}
                                              ELSE SubmissionsOf(k)
      BY <3>2, <3>3 DEF SubmissionsOf
    <3>5. ASSUME NEW k \in Keys
          PROVE  /\ IsFiniteSet(SubmissionsOf(k)')
                 /\ New(k) + unrecorded[k] <= Old(k) + unrecorded'[k]
      <4>1. IsFiniteSet(SubmissionsOf(k)) /\ Old(k) \in Nat
            /\ n \notin SubmissionsOf(k)
        BY <3>3, FS_CardinalityType DEF BaselineInv, Accounted, SubmissionsOf
      <4>2. CASE k = Key
        <5>1. SubmissionsOf(k)' = SubmissionsOf(k) \cup {n}
          BY <3>4, <4>2
        <5>2. IsFiniteSet(SubmissionsOf(k) \cup {n})
              /\ Cardinality(SubmissionsOf(k) \cup {n}) = Old(k) + 1
          BY <4>1, FS_AddElement
        <5>3. unrecorded'[k] = unrecorded[k] + 1 /\ unrecorded[k] \in Nat
          BY <1>2, <3>1, <4>2
        <5> HIDE DEF Old
        <5> QED
          BY <4>1, <5>1, <5>2, <5>3
      <4>3. CASE k # Key
        <5>1. SubmissionsOf(k)' = SubmissionsOf(k)
          BY <3>4, <4>3
        <5>2. unrecorded'[k] = unrecorded[k] /\ unrecorded[k] \in Nat
          BY <1>2, <3>1, <4>3
        <5> QED
          BY <4>1, <5>1, <5>2
      <4> QED
        BY <4>2, <4>3
    <3>6. unrecorded' \in [Keys -> Nat] /\ unrecorded'[Key] = unrecorded[Key] + 1
      BY <1>2, <1>3, <3>1
    <3> HIDE DEF Old, New
    <3> QED
      BY <2>2, <3>3, <3>5, <3>6
  <2> QED
    BY <2>1, <2>2
<1>11. Accounted'
  <2> SUFFICES ASSUME NEW k \in Keys
               PROVE  /\ IsFiniteSet(SubmissionsOf(k)')
                      /\ New(k) <= (IF stateFile[k].id = 0 THEN 0 ELSE 1)
                                     + unrecorded'[k] + resubmits'[k]
                      /\ k = Key => New(k) <= unrecorded'[k] + resubmits'[k]
    BY <1>1, <1>7 DEF Accounted
  <2>1. /\ IsFiniteSet(SubmissionsOf(k)) /\ IsFiniteSet(SubmissionsOf(k)')
        /\ Old(k) <= (IF stateFile[k].id = 0 THEN 0 ELSE 1)
                       + unrecorded[k] + resubmits[k]
    BY <1>10 DEF BaselineInv, Accounted
  <2>2. Old(k) \in Nat /\ New(k) \in Nat
    BY <2>1, FS_CardinalityType
  <2>3. /\ unrecorded[k] \in Nat /\ resubmits[k] \in Nat
        /\ unrecorded'[k] \in Nat /\ resubmits'[k] \in Nat
        /\ New(k) + unrecorded[k] <= Old(k) + unrecorded'[k]
    BY <1>2, <1>8, <1>10
  <2> HIDE DEF Old, New
  <2>4. k = Key => New(k) <= unrecorded'[k] + resubmits'[k]
    <3>1. CASE submitter.resubmit
      BY <1>8, <2>1, <2>2, <2>3, <3>1
    <3>2. CASE stateFile[Key].id = 0
      BY <1>8, <2>1, <2>2, <2>3, <3>2
    <3> QED
      BY <1>4, <3>1, <3>2
  <2> QED
    BY <1>8, <2>1, <2>2, <2>3, <2>4
<1>12. unrecorded[Key] \in Nat
  BY <1>2, <1>3
<1> QED
  BY <1>1, <1>2, <1>3, <1>5, <1>6, <1>7, <1>9, <1>10, <1>11, <1>12
  DEF BaselineInv, BaselineType, WorksOnTarget, LoadedIsFile, KnowsId

\* A line of the file, and what it says in memory.
LEMMA RecordStep ==
  ASSUME BaselineInv, NEW record \in Records, Key \in Keys,
         stateFile' = [stateFile EXCEPT ![Key] = record],
         UNCHANGED <<created, resubmits>>,
         unrecorded' \in [Keys -> Nat],
         \A k \in Keys : k # Key => unrecorded'[k] = unrecorded[k],
         Cardinality(SubmissionsOf(Key)) <=
           (IF record.id = 0 THEN 0 ELSE 1) + unrecorded'[Key]
             + resubmits[Key],
         submitter'.at \notin {"submitted", "refused"}
  PROVE  Accounted'
<1>1. \A k \in Keys : SubmissionsOf(k)' = SubmissionsOf(k)
  BY DEF SubmissionsOf
<1> SUFFICES ASSUME NEW k \in Keys
             PROVE  /\ IsFiniteSet(SubmissionsOf(k))
                    /\ Cardinality(SubmissionsOf(k)) <=
                         (IF stateFile'[k].id = 0 THEN 0 ELSE 1)
                           + unrecorded'[k] + resubmits[k]
  BY <1>1 DEF Accounted
<1>2. stateFile \in [Keys -> Records]
  BY DEF BaselineInv, BaselineType
<1> QED
  BY <1>2 DEF BaselineInv, Accounted

LEMMA RecordRefusedKeeps ==
  ASSUME BaselineInv, RecordRefused
  PROVE  BaselineInv'
<1> DEFINE record == [status |-> "failed_to_submit", id |-> 0]
<1>1. /\ stateFile' = [stateFile EXCEPT ![Key] = record]
      /\ loaded' = [loaded EXCEPT ![Key] = record]
      /\ submitter' = Counted(submitter) /\ submitter.at = "refused"
      /\ UNCHANGED <<created, unrecorded, resubmits>>
  BY DEF RecordRefused, AppendState
<1>2. record \in Records /\ record.id = 0
  BY DEF Records
<1> HIDE DEF record
<1>3. /\ submitter \in Submitters /\ loaded = stateFile
      /\ stateFile \in [Keys -> Records] /\ unrecorded \in [Keys -> Nat]
      /\ Key \in Keys
  BY <1>1, LoopIsFile, TargetIsKey DEF BaselineInv, BaselineType, WorksOnTarget
<1>4. submitter' \in Submitters /\ submitter'.at = "loop"
  BY <1>1, <1>3, CountedIsSubmitter
<1>5. Cardinality(SubmissionsOf(Key)) <= unrecorded[Key] + resubmits[Key]
  BY <1>1, <1>3 DEF BaselineInv, Accounted
<1>6. unrecorded[Key] \in Nat /\ resubmits[Key] \in Nat
  BY <1>3 DEF BaselineInv, BaselineType
<1>7. Cardinality(SubmissionsOf(Key)) \in Nat
  BY <1>3, FS_CardinalityType DEF BaselineInv, Accounted
<1>8. Cardinality(SubmissionsOf(Key)) <=
        (IF record.id = 0 THEN 0 ELSE 1) + unrecorded'[Key] + resubmits[Key]
  BY <1>1, <1>2, <1>5, <1>6, <1>7
<1>9. unrecorded' \in [Keys -> Nat]
      /\ \A k \in Keys : k # Key => unrecorded'[k] = unrecorded[k]
  BY <1>1, <1>3
<1>10. Accounted'
  BY <1>1, <1>2, <1>3, <1>4, <1>8, <1>9, RecordStep
<1> QED
  BY <1>1, <1>2, <1>3, <1>4, <1>10
  DEF BaselineInv, BaselineType, WorksOnTarget, LoadedIsFile, KnowsId

LEMMA RecordSubmittedKeeps ==
  ASSUME BaselineInv, RecordSubmitted
  PROVE  BaselineInv'
<1> DEFINE record == [status |-> "queued", id |-> submitter.id]
<1>1. /\ stateFile' = [stateFile EXCEPT ![Key] = record]
      /\ unrecorded' = [unrecorded EXCEPT ![Key] = @ - 1]
      /\ submitter' = [submitter EXCEPT !.at = "wait"]
      /\ submitter.at = "submitted"
      /\ UNCHANGED <<created, loaded, resubmits>>
  BY DEF RecordSubmitted, AppendState
<1>2. /\ submitter \in Submitters /\ loaded = stateFile
      /\ stateFile \in [Keys -> Records] /\ unrecorded \in [Keys -> Nat]
      /\ submitter.next \in DOMAIN Baselines
      /\ Key \in Keys /\ submitter.id # 0 /\ unrecorded[Key] > 0
  BY <1>1, LoopIsFile, TargetIsKey
  DEF BaselineInv, BaselineType, WorksOnTarget, KnowsId
<1>3. record \in Records /\ record.id # 0
  BY <1>2 DEF Records, Submitters
<1> HIDE DEF record
<1>4. /\ submitter' \in Submitters /\ submitter'.at = "wait"
      /\ submitter'.next = submitter.next /\ submitter'.id = submitter.id
  BY <1>1, <1>2 DEF Submitters
<1>5. Key' = Key
  BY <1>4 DEF Key
<1>6. /\ unrecorded' \in [Keys -> Nat]
      /\ unrecorded'[Key] = unrecorded[Key] - 1
      /\ \A k \in Keys : k # Key => unrecorded'[k] = unrecorded[k]
  BY <1>1, <1>2
<1>7. Cardinality(SubmissionsOf(Key)) <= unrecorded[Key] + resubmits[Key]
  BY <1>1, <1>2 DEF BaselineInv, Accounted
<1>8. /\ unrecorded[Key] \in Nat /\ resubmits[Key] \in Nat
      /\ IsFiniteSet(SubmissionsOf(Key))
      /\ Cardinality(SubmissionsOf(Key)) \in Nat
  BY <1>2, FS_CardinalityType DEF BaselineInv, BaselineType, Accounted
<1>9. Cardinality(SubmissionsOf(Key)) <=
        (IF record.id = 0 THEN 0 ELSE 1) + unrecorded'[Key] + resubmits[Key]
  BY <1>3, <1>6, <1>7, <1>8
<1>10. Accounted'
  BY <1>1, <1>2, <1>3, <1>4, <1>6, <1>9, RecordStep
<1> QED
  BY <1>1, <1>2, <1>3, <1>4, <1>5, <1>6, <1>10
  DEF BaselineInv, BaselineType, WorksOnTarget, LoadedIsFile, KnowsId

LEMMA RecordWaitedKeeps ==
  ASSUME BaselineInv, NEW timedOut \in BOOLEAN, RecordWaited(timedOut)
  PROVE  BaselineInv'
<1>1. PICK status \in {"failed_to_wait", "completed", "failed"} :
        LET record == [status |-> status, id |-> submitter.id]
        IN  /\ stateFile' = [stateFile EXCEPT ![Key] = record]
            /\ loaded' = [loaded EXCEPT ![Key] = record]
  BY DEF RecordWaited, AppendState
<1>2. /\ submitter' = Counted(submitter) /\ submitter.at = "wait"
      /\ UNCHANGED <<created, unrecorded, resubmits>>
  BY DEF RecordWaited
<1> DEFINE record == [status |-> status, id |-> submitter.id]
<1>3. /\ submitter \in Submitters /\ loaded \in [Keys -> Records]
      /\ stateFile \in [Keys -> Records] /\ unrecorded \in [Keys -> Nat]
      /\ Key \in Keys /\ submitter.id # 0
      /\ \A k \in Keys : k # Key => loaded[k] = stateFile[k]
  BY <1>2, TargetIsKey
  DEF BaselineInv, BaselineType, WorksOnTarget, KnowsId, LoadedIsFile
<1>4. record \in Records /\ record.id # 0
  BY <1>3 DEF Records, Submitters
<1>5. /\ stateFile' = [stateFile EXCEPT ![Key] = record]
      /\ loaded' = [loaded EXCEPT ![Key] = record]
  BY <1>1
<1> HIDE DEF record
<1>6. submitter' \in Submitters /\ submitter'.at = "loop"
  BY <1>2, <1>3, CountedIsSubmitter
<1>7. /\ unrecorded[Key] \in Nat /\ resubmits[Key] \in Nat
      /\ stateFile[Key].id \in Nat
      /\ IsFiniteSet(SubmissionsOf(Key))
      /\ Cardinality(SubmissionsOf(Key)) \in Nat
      /\ Cardinality(SubmissionsOf(Key)) <=
           (IF stateFile[Key].id = 0 THEN 0 ELSE 1) + unrecorded[Key]
             + resubmits[Key]
  BY <1>3, FS_CardinalityType DEF BaselineInv, BaselineType, Accounted, Records
<1>8. Cardinality(SubmissionsOf(Key)) <=
        (IF record.id = 0 THEN 0 ELSE 1) + unrecorded[Key] + resubmits[Key]
  BY <1>4, <1>7
<1>9. Accounted'
  BY <1>2, <1>3, <1>4, <1>5, <1>6, <1>8, RecordStep
<1>10. \A k \in Keys : loaded'[k] = stateFile'[k]
  BY <1>3, <1>5
<1>11. stateFile' \in [Keys -> Records] /\ loaded' \in [Keys -> Records]
  BY <1>3, <1>4, <1>5
<1> QED
  BY <1>2, <1>3, <1>6, <1>9, <1>10, <1>11
  DEF BaselineInv, BaselineType, WorksOnTarget, LoadedIsFile, KnowsId

\* What the platform makes of a submission leaves it the baseline's.
LEMMA EvaluateKeeps ==
  ASSUME BaselineInv, NEW i \in DOMAIN created, Evaluate(i)
  PROVE  BaselineInv'
<1>1. /\ UNCHANGED <<stateFile, loaded, submitter, unrecorded, resubmits>>
      /\ created \in Seq(Submissions)
  BY DEF Evaluate, BaselineInv, BaselineType
<1>2. PICK status \in {"completed", "failed"} :
        created' = [created EXCEPT ![i].status = status]
  BY DEF Evaluate
<1> DEFINE new == [created[i] EXCEPT !.status = status]
<1>3. new \in Submissions /\ new.key = created[i].key
  <2>1. created[i] \in Submissions
    BY <1>1, ElementOfSeq
  <2> QED
    BY <2>1 DEF Submissions
<1>4. created' = [created EXCEPT ![i] = new]
  BY <1>2
<1> HIDE DEF new
<1>5. /\ created' \in Seq(Submissions) /\ DOMAIN created' = DOMAIN created
      /\ \A j \in DOMAIN created : created'[j].key = created[j].key
  BY <1>1, <1>3, <1>4, ExceptSeq
<1>6. \A k \in Keys : SubmissionsOf(k)' = SubmissionsOf(k)
  BY <1>5 DEF SubmissionsOf
<1>7. Key' = Key
  BY <1>1 DEF Key
<1>8. Accounted'
  BY <1>1, <1>6, <1>7 DEF BaselineInv, Accounted
<1> QED
  BY <1>1, <1>5, <1>7, <1>8
  DEF BaselineInv, BaselineType, WorksOnTarget, LoadedIsFile, KnowsId

\* No step of the submitter leaves its invariant.
LEMMA BaselineKeeps ==
  BaselineInv /\ [BaselineNext]_baselineVars => BaselineInv'
<1> SUFFICES ASSUME BaselineInv, [BaselineNext]_baselineVars
             PROVE  BaselineInv'
  OBVIOUS
<1>1. ASSUME NEW resubmit \in BOOLEAN, NEW dryRun \in BOOLEAN,
             NEW include \in BOOLEAN, NEW limit \in {0, 1},
             StartRun(resubmit, dryRun, limit, include)
      PROVE  BaselineInv'
  BY <1>1, StartRunKeeps
<1>2. CASE ReadFails
  BY <1>2, StoppingStep DEF ReadFails
<1>3. CASE FinishRun
  BY <1>3, StoppingStep DEF FinishRun
<1>4. CASE PassOver
  BY <1>4, PassOverKeeps
<1>5. CASE Resume
  BY <1>5, ResumeKeeps
<1>6. ASSUME NEW taken \in BOOLEAN, NEW reply \in BOOLEAN,
             CreateSubmission(taken, reply)
      PROVE  BaselineInv'
  BY <1>6, CreateSubmissionKeeps
<1>7. CASE RecordRefused
  BY <1>7, RecordRefusedKeeps
<1>8. CASE RecordSubmitted
  BY <1>8, RecordSubmittedKeeps
<1>9. ASSUME NEW timedOut \in BOOLEAN, RecordWaited(timedOut)
      PROVE  BaselineInv'
  BY <1>9, RecordWaitedKeeps
<1>10. CASE RecordFails
  BY <1>10, StoppingStep DEF RecordFails, AppendFails
<1>11. CASE Killed
  BY <1>11, StoppingStep DEF Killed
<1>12. ASSUME NEW i \in DOMAIN created, Evaluate(i)
       PROVE  BaselineInv'
  BY <1>12, EvaluateKeeps
<1>13. CASE UNCHANGED baselineVars
  <2>1. /\ UNCHANGED <<created, stateFile, loaded, submitter, unrecorded,
                       resubmits>>
    BY <1>13 DEF baselineVars
  <2>2. Key' = Key
    BY <2>1 DEF Key
  <2>3. \A k \in Keys : SubmissionsOf(k)' = SubmissionsOf(k)
    BY <2>1 DEF SubmissionsOf
  <2> QED
    BY <2>1, <2>2, <2>3
    DEF BaselineInv, BaselineType, WorksOnTarget, LoadedIsFile, KnowsId,
        Accounted
<1> QED
  BY <1>1, <1>2, <1>3, <1>4, <1>5, <1>6, <1>7, <1>8, <1>9, <1>10, <1>11,
     <1>12, <1>13
  DEF BaselineNext

\* A baseline costs the platform one submission, one more for each creation
\* whose id never reached the state file and one for each forced attempt
\* (resumable_submission_id, append_state), over every sequence of runs,
\* crashes, lost replies and torn files.
THEOREM BaselineSafety == BaselineSpec => []OneSubmissionPerBaseline
<1>1. BaselineInv => OneSubmissionPerBaseline
  <2> SUFFICES ASSUME BaselineInv, NEW k \in Keys
               PROVE  Cardinality(SubmissionsOf(k))
                        <= 1 + unrecorded[k] + resubmits[k]
    BY DEF OneSubmissionPerBaseline, SubmissionsOf
  <2>1. /\ IsFiniteSet(SubmissionsOf(k))
        /\ unrecorded[k] \in Nat /\ resubmits[k] \in Nat
        /\ Cardinality(SubmissionsOf(k)) <=
             (IF stateFile[k].id = 0 THEN 0 ELSE 1) + unrecorded[k]
               + resubmits[k]
    BY DEF BaselineInv, BaselineType, Accounted
  <2>2. Cardinality(SubmissionsOf(k)) \in Nat
    BY <2>1, FS_CardinalityType
  <2> QED
    BY <2>1, <2>2
<1> QED
  BY <1>1, BaselineStarts, BaselineKeeps, PTL DEF BaselineSpec

-----------------------------------------------------------------------------
(* Sums over the entries of a bundle.                                      *)

\* The element the fold of a set takes first.
Picked(s) == CHOOSE x \in s : TRUE

\* A function that adds up the weights of each subset as the fold does.
AddsUp(iter, w, S) ==
  iter = [s \in SUBSET S |->
            IF s = {} THEN 0 ELSE w[Picked(s)] + iter[s \ {Picked(s)}]]

\* The subsets of at most n elements, and the sums up to them.
Small(S, n) == {s \in SUBSET S : Cardinality(s) <= n}

AddsUpTo(iter, w, S, n) ==
  iter = [s \in Small(S, n) |->
            IF s = {} THEN 0 ELSE w[Picked(s)] + iter[s \ {Picked(s)}]]

\* What is left of a subset after its first element.
LEMMA PickedLeaves ==
  ASSUME NEW S, IsFiniteSet(S), NEW s \in SUBSET S, s # {}
  PROVE  /\ Picked(s) \in s /\ s \ {Picked(s)} \in SUBSET S
         /\ IsFiniteSet(s) /\ IsFiniteSet(s \ {Picked(s)})
         /\ Cardinality(s) \in Nat /\ Cardinality(s \ {Picked(s)}) \in Nat
         /\ Cardinality(s \ {Picked(s)}) = Cardinality(s) - 1
<1>1. Picked(s) \in s
  BY DEF Picked
<1>2. IsFiniteSet(s)
  BY FS_Subset
<1>3. /\ IsFiniteSet(s \ {Picked(s)})
      /\ Cardinality(s \ {Picked(s)}) = Cardinality(s) - 1
  BY <1>1, <1>2, FS_RemoveElement
<1> QED
  BY <1>1, <1>2, <1>3, FS_CardinalityType

\* Sums up to a number of elements extend to one more.
LEMMA SumsExtend ==
  ASSUME NEW S, IsFiniteSet(S), NEW w, NEW n \in Nat, NEW iter,
         AddsUpTo(iter, w, S, n)
  PROVE  \E next : AddsUpTo(next, w, S, n + 1)
<1> DEFINE next == [s \in Small(S, n + 1) |->
              IF s = {} THEN 0 ELSE w[Picked(s)] + iter[s \ {Picked(s)}]]
<1>1. \A s \in Small(S, n + 1) :
        s # {} => s \ {Picked(s)} \in Small(S, n) \cap Small(S, n + 1)
  <2> SUFFICES ASSUME NEW s \in Small(S, n + 1), s # {}
               PROVE  s \ {Picked(s)} \in Small(S, n) \cap Small(S, n + 1)
    OBVIOUS
  <2> DEFINE r == s \ {Picked(s)}
  <2>1. /\ s \in SUBSET S /\ Cardinality(s) <= n + 1 /\ r \in SUBSET S
        /\ Cardinality(s) \in Nat /\ Cardinality(r) \in Nat
        /\ Cardinality(r) = Cardinality(s) - 1
    BY PickedLeaves DEF Small
  <2> HIDE DEF r
  <2>2. Cardinality(r) <= n /\ Cardinality(r) <= n + 1
    BY <2>1
  <2>3. r \in Small(S, n) /\ r \in Small(S, n + 1)
    BY <2>1, <2>2 DEF Small
  <2> QED
    BY <2>3 DEF r
<1>2. \A s \in Small(S, n) : s \in Small(S, n + 1)
  <2> SUFFICES ASSUME NEW s \in Small(S, n) PROVE s \in Small(S, n + 1)
    OBVIOUS
  <2>1. IsFiniteSet(s) /\ Cardinality(s) \in Nat
    BY FS_Subset, FS_CardinalityType DEF Small
  <2> QED
    BY <2>1 DEF Small
<1>3. \A s \in Small(S, n) : next[s] = iter[s]
  BY <1>2 DEF AddsUpTo
<1>4. \A s \in Small(S, n + 1) :
        next[s] = IF s = {} THEN 0
                  ELSE w[Picked(s)] + next[s \ {Picked(s)}]
  <2> SUFFICES ASSUME NEW s \in Small(S, n + 1)
               PROVE  next[s] = IF s = {} THEN 0
                                ELSE w[Picked(s)] + next[s \ {Picked(s)}]
    OBVIOUS
  <2>1. next[s] = IF s = {} THEN 0 ELSE w[Picked(s)] + iter[s \ {Picked(s)}]
    OBVIOUS
  <2> HIDE DEF next
  <2> QED
    BY <1>1, <1>3, <2>1
<1>5. next = [s \in Small(S, n + 1) |-> next[s]]
  OBVIOUS
<1> HIDE DEF next
<1>6. AddsUpTo(next, w, S, n + 1)
  <2>1. [s \in Small(S, n + 1) |-> next[s]] =
          [s \in Small(S, n + 1) |->
             IF s = {} THEN 0 ELSE w[Picked(s)] + next[s \ {Picked(s)}]]
    BY <1>4
  <2> QED
    BY <1>5, <2>1 DEF AddsUpTo
<1> QED
  BY <1>6

\* So there are sums up to every number, and over the whole set.
LEMMA SumsExist ==
  ASSUME NEW S, IsFiniteSet(S), NEW w
  PROVE  \E iter : AddsUp(iter, w, S)
<1> DEFINE Bad == {n \in Nat : ~ \E iter : AddsUpTo(iter, w, S, n)}
<1>1. Bad = {}
  <2> SUFFICES ASSUME Bad # {} PROVE FALSE
    OBVIOUS
  <2>1. PICK n \in Bad : \A m \in Bad : <<m, n>> \notin OpToRel(<, Nat)
    <3>1. Bad \subseteq Nat
      OBVIOUS
    <3> HIDE DEF Bad
    <3> QED
      BY <3>1, NatLessThanWellFounded, WFMin, Zenon
  <2>2. n \in Nat /\ ~ \E iter : AddsUpTo(iter, w, S, n)
    OBVIOUS
  <2>3. CASE n = 0
    <3> DEFINE zero == [s \in Small(S, 0) |-> 0]
    <3>1. \A s \in Small(S, 0) : s = {}
      <4> SUFFICES ASSUME NEW s \in Small(S, 0) PROVE s = {}
        OBVIOUS
      <4>1. IsFiniteSet(s) /\ Cardinality(s) \in Nat
        BY FS_Subset, FS_CardinalityType DEF Small
      <4>2. Cardinality(s) = 0
        BY <4>1 DEF Small
      <4> QED
        BY <4>1, <4>2, FS_EmptySet
    <3>2. AddsUpTo(zero, w, S, 0)
      BY <3>1 DEF AddsUpTo
    <3> QED
      BY <2>2, <2>3, <3>2
  <2>4. CASE n # 0
    <3>1. n - 1 \in Nat /\ n - 1 < n /\ (n - 1) + 1 = n
      BY <2>2, <2>4
    <3>2. <<n - 1, n>> \in OpToRel(<, Nat)
      BY <2>2, <3>1 DEF OpToRel
    <3>3. n - 1 \notin Bad
      BY <2>1, <3>2
    <3>4. PICK iter : AddsUpTo(iter, w, S, n - 1)
      BY <3>1, <3>3
    <3> HIDE DEF Bad
    <3>5. \E next : AddsUpTo(next, w, S, (n - 1) + 1)
      BY <3>1, <3>4, SumsExtend
    <3> QED
      BY <2>2, <3>1, <3>5
  <2> QED
    BY <2>3, <2>4
<1>2. Cardinality(S) \in Nat
  BY FS_CardinalityType
<1>3. PICK iter : AddsUpTo(iter, w, S, Cardinality(S))
  BY <1>1, <1>2
<1>4. Small(S, Cardinality(S)) = SUBSET S
  BY FS_Subset DEF Small
<1> QED
  BY <1>3, <1>4 DEF AddsUp, AddsUpTo

\* Sums are natural numbers, and larger weights have larger sums.
LEMMA SumsCompare ==
  ASSUME NEW S, IsFiniteSet(S), NEW v \in [S -> Nat], NEW w \in [S -> Nat],
         \A x \in S : v[x] <= w[x],
         NEW i, AddsUp(i, v, S), NEW j, AddsUp(j, w, S)
  PROVE  i[S] \in Nat /\ j[S] \in Nat /\ i[S] <= j[S]
<1> DEFINE Fine(s) == i[s] \in Nat /\ j[s] \in Nat /\ i[s] <= j[s]
           Bad == {n \in Nat : \E s \in SUBSET S : Cardinality(s) = n /\ ~Fine(s)}
<1>1. Bad = {}
  <2> SUFFICES ASSUME Bad # {} PROVE FALSE
    OBVIOUS
  <2>1. PICK n \in Bad : \A m \in Bad : <<m, n>> \notin OpToRel(<, Nat)
    <3>1. Bad \subseteq Nat
      OBVIOUS
    <3> HIDE DEF Bad
    <3> QED
      BY <3>1, NatLessThanWellFounded, WFMin, Zenon
  <2>2. PICK s \in SUBSET S : Cardinality(s) = n /\ ~Fine(s)
    OBVIOUS
  <2>3. CASE s = {}
    <3>1. i[s] = 0 /\ j[s] = 0
      BY <2>3 DEF AddsUp
    <3> QED
      BY <2>2, <3>1
  <2>4. CASE s # {}
    <3> DEFINE x == Picked(s)
               r == s \ {x}
    <3>1. /\ x \in S /\ r \in SUBSET S
          /\ Cardinality(s) \in Nat /\ Cardinality(r) \in Nat
          /\ Cardinality(r) = Cardinality(s) - 1
      BY <2>4, PickedLeaves
    <3>2. i[s] = v[x] + i[r] /\ j[s] = w[x] + j[r]
      BY <2>4 DEF AddsUp
    <3> HIDE DEF x, r
    <3>3. <<Cardinality(r), n>> \in OpToRel(<, Nat)
      BY <2>2, <3>1 DEF OpToRel
    <3>4. Fine(r)
      BY <2>1, <3>1, <3>3
    <3>5. v[x] \in Nat /\ w[x] \in Nat /\ v[x] <= w[x]
      BY <3>1
    <3>6. Fine(s)
      BY <3>2, <3>4, <3>5
    <3> QED
      BY <2>2, <3>6
  <2> QED
    BY <2>3, <2>4
<1>2. Cardinality(S) \in Nat
  BY FS_CardinalityType
<1> HIDE DEF Fine
<1>3. Fine(S)
  BY <1>1, <1>2
<1> QED
  BY <1>3 DEF Fine

\* The tar format takes more than the content it carries.
LEMMA ContentIsPadded ==
  ASSUME NEW e, e.size \in Nat
  PROVE  /\ Archived(e) \in Nat
         /\ (IF e.kind = "file" THEN e.size ELSE 0) <= 512 + Archived(e)
<1>1. e.size % 512 \in 0..511
  OBVIOUS
<1>2. PaddedTarFileSize(e.size) \in Nat /\ e.size <= PaddedTarFileSize(e.size)
  BY <1>1 DEF PaddedTarFileSize
<1> QED
  BY <1>2 DEF Content, Archived

\* What an entry takes in an archive, and what its copy takes.
Packed(e) == 512 + Archived(e)
Copied(e) == IF e.kind = "file" THEN e.size ELSE 0

\* The size of an archive is a sum of weights.
LEMMA ArchiveBytesAddUp ==
  ASSUME NEW tree, IsFiniteSet(tree), NEW w, w = [e \in tree |-> Packed(e)]
  PROVE  \E i : AddsUp(i, w, tree) /\ ArchiveBytes(tree) = 1024 + i[tree]
<1> DEFINE sum == CHOOSE i : i =
             [s \in SUBSET tree |->
                IF s = {} THEN 0
                ELSE Packed(CHOOSE x \in s : TRUE)
                       + i[s \ {CHOOSE x \in s : TRUE}]]
<1>1. ArchiveBytes(tree) = 1024 + sum[tree]
  BY Zenon DEF ArchiveBytes, MapThenSumSet, MapThenFoldSet, Packed
<1>2. PICK i : AddsUp(i, w, tree)
  BY SumsExist
<1>3. \A s \in SUBSET tree : s # {} => w[Picked(s)] = Packed(Picked(s))
  BY DEF Picked
<1>4. i = [s \in SUBSET tree |->
             IF s = {} THEN 0 ELSE Packed(Picked(s)) + i[s \ {Picked(s)}]]
  BY <1>2, <1>3 DEF AddsUp
<1>5. sum = [s \in SUBSET tree |->
               IF s = {} THEN 0 ELSE Packed(Picked(s)) + sum[s \ {Picked(s)}]]
  BY <1>4, Zenon DEF Picked
<1> HIDE DEF sum
<1>6. AddsUp(sum, w, tree)
  BY <1>3, <1>5 DEF AddsUp
<1> QED
  BY <1>1, <1>6

\* The content copied out of the archive, likewise.
LEMMA CopiedBytesAddUp ==
  ASSUME NEW tree, IsFiniteSet(tree), NEW w,
         w = [e \in tree |-> Copied(e)]
  PROVE  \E i : AddsUp(i, w, tree) /\ CopiedBytes(tree) = i[tree]
<1> DEFINE sum == CHOOSE i : i =
             [s \in SUBSET tree |->
                IF s = {} THEN 0
                ELSE Copied(CHOOSE x \in s : TRUE)
                       + i[s \ {CHOOSE x \in s : TRUE}]]
<1>1. CopiedBytes(tree) = sum[tree]
  BY Zenon DEF CopiedBytes, MapThenSumSet, MapThenFoldSet, Copied
<1>2. PICK i : AddsUp(i, w, tree)
  BY SumsExist
<1>3. \A s \in SUBSET tree : s # {} => w[Picked(s)] = Copied(Picked(s))
  BY DEF Picked
<1>4. i = [s \in SUBSET tree |->
             IF s = {} THEN 0 ELSE Copied(Picked(s)) + i[s \ {Picked(s)}]]
  BY <1>2, <1>3 DEF AddsUp
<1>5. sum = [s \in SUBSET tree |->
               IF s = {} THEN 0 ELSE Copied(Picked(s)) + sum[s \ {Picked(s)}]]
  BY <1>4, Zenon DEF Picked
<1> HIDE DEF sum
<1>6. AddsUp(sum, w, tree)
  BY <1>3, <1>5 DEF AddsUp
<1> QED
  BY <1>1, <1>6

\* What is admitted to an archive is taken out of it whole, sparse files excepted.
HasSparse(tree) == \E e \in tree : e.kind = "sparse"

LEMMA PackedUnpacks ==
  ASSUME NEW tree \in Trees \cup {{}}, Packs(tree), ~HasSparse(tree)
  PROVE  Unpacks(tree)
<1>1. /\ IsFiniteSet(tree)
      /\ \A e \in tree : e.depth \in Nat \ {0} /\ e.size \in Nat
  BY TreesAssumption, FS_EmptySet
<1>2. \A e \in tree : TarPathIsSafe(e) /\ e.kind \in {"dir", "file"}
  BY <1>1, ArchiveAssumption DEF Packs, TarSourceIsValid, TarPathIsSafe, HasSparse
<1> DEFINE v == [e \in tree |-> Copied(e)]
           w == [e \in tree |-> Packed(e)]
<1>3. /\ v \in [tree -> Nat] /\ w \in [tree -> Nat]
      /\ \A e \in tree : v[e] <= w[e]
  BY <1>1, ContentIsPadded DEF Packed, Copied
<1>4. PICK i : AddsUp(i, v, tree) /\ CopiedBytes(tree) = i[tree]
  BY <1>1, CopiedBytesAddUp
<1>5. PICK j : AddsUp(j, w, tree) /\ ArchiveBytes(tree) = 1024 + j[tree]
  BY <1>1, ArchiveBytesAddUp
<1> HIDE DEF v, w
<1>6. i[tree] \in Nat /\ j[tree] \in Nat /\ i[tree] <= j[tree]
  BY <1>1, <1>3, <1>4, <1>5, SumsCompare
<1>7. CopiedBytes(tree) <= MaxArchiveBytes
  BY <1>4, <1>5, <1>6, ArchiveAssumption DEF Packs
<1> QED
  BY <1>2, <1>7 DEF Unpacks, Packs, TarSourceIsValid

-----------------------------------------------------------------------------
(* Object storage: what a caller acknowledged stays, and unpacks.           *)

Contents == [by : Callers \cup {"none"}, tree : Trees \cup {{}}]
CallPcs ==
  {"idle", "stored", "failed", "fetched", "corrupt", "swept", "crashed", "put",
   "write", "link", "unlink", "unclean", "verify", "promote", "promote_link",
   "promote_unlink", "drop_promoted", "drop_temporary", "get", "sweep"}
WritePcs == {"put", "write", "link"}
Calls == [op : {"none", "publish", "upload", "fetch", "sweep"}, pc : CallPcs,
          key : ObjectKeys, holds : Contents, todo : SUBSET Callers]

StorageShape ==
  /\ objects \in [ObjectKeys -> Contents]
  /\ call \in [Callers -> Calls]

\* Every object was packed by its writer; a temporary one is its caller's.
ObjectsArePacked ==
  \A k \in ObjectKeys :
    /\ IsObject(objects[k]) => Packs(objects[k].tree)
    /\ objects[k].by \in (IF k = Durable THEN Callers ELSE {k}) \cup {"none"}

\* A call that has put the durable object and not yet failed.
PutAt(pc, key) ==
  \/ pc \in {"stored", "promote_unlink", "drop_promoted"}
  \/ pc \in {"unlink", "verify"} /\ key = Durable

\* A caller writes its own packed tree to its own keys, and has put what is
\* there under the durable one.
CallIsFine(c, x, content) ==
  /\ x.key \in {c, Durable}
  /\ x.pc \in WritePcs => x.holds.by = c /\ Packs(x.holds.tree)
  /\ x.pc = "corrupt" => HasSparse(x.holds.tree)
  /\ x.pc = "fetched" => Packs(x.holds.tree)
  /\ PutAt(x.pc, x.key) => content.by = c

CallsAreFine == \A c \in Callers : CallIsFine(c, call[c], objects[Durable])

StorageInv == StorageShape /\ ObjectsArePacked /\ CallsAreFine

\* No caller has the name of the durable key or of no object.
LEMMA CallersAreNames ==
  ASSUME NEW c \in Callers
  PROVE  c # Durable /\ c # "none" /\ c \in ObjectKeys /\ Durable \in ObjectKeys
BY CallersAssumption DEF ObjectKeys, Durable

\* The object with which nothing is stored is a content.
LEMMA NoObjectIsContent ==
  /\ NoObject \in Contents /\ ~IsObject(NoObject)
  /\ IdleCall \in Calls
<1>1. NoObject \in Contents /\ ~IsObject(NoObject)
  BY DEF NoObject, Contents, IsObject
<1>2. Durable \in ObjectKeys
  BY DEF ObjectKeys
<1> HIDE DEF Durable
<1>3. IdleCall \in Calls
  BY <1>1, <1>2 DEF IdleCall, Calls, CallPcs
<1> QED
  BY <1>1, <1>3

\* A step of one caller that leaves the objects alone.
LEMMA KeepStep ==
  ASSUME StorageInv, NEW c \in Callers,
         objects' = objects,
         call' \in [Callers -> Calls],
         \A d \in Callers \ {c} : call'[d] = call[d],
         CallIsFine(c, call'[c], objects[Durable])
  PROVE  StorageInv'
<1>1. StorageShape'
  BY DEF StorageInv, StorageShape
<1>2. ObjectsArePacked'
  BY DEF StorageInv, ObjectsArePacked, IsObject
<1>3. CallsAreFine'
  BY DEF StorageInv, CallsAreFine
<1> QED
  BY <1>1, <1>2, <1>3 DEF StorageInv

\* A step of one caller that puts or deletes an object: it puts only what it
\* packed, to its own keys, and replaces no other caller's durable object.
LEMMA PutStep ==
  ASSUME StorageInv, NEW c \in Callers, NEW k \in ObjectKeys, NEW x \in Contents,
         objects' = [objects EXCEPT ![k] = x],
         IsObject(x) => x.by = c /\ Packs(x.tree) /\ k \in {c, Durable},
         k = Durable => objects[Durable].by \in {"none", c},
         call' \in [Callers -> Calls],
         \A d \in Callers \ {c} : call'[d] = call[d],
         CallIsFine(c, call'[c], objects'[Durable])
  PROVE  StorageInv'
<1>1. StorageShape'
  BY DEF StorageInv, StorageShape
<1>2. objects'[k] = x /\ \A j \in ObjectKeys \ {k} : objects'[j] = objects[j]
  BY DEF StorageInv, StorageShape
<1>3. Durable \in ObjectKeys /\ c # Durable /\ c # "none"
  BY CallersAreNames
<1>4. ObjectsArePacked'
  <2> SUFFICES ASSUME NEW j \in ObjectKeys
               PROVE  /\ IsObject(objects'[j]) => Packs(objects'[j].tree)
                      /\ objects'[j].by \in (IF j = Durable THEN Callers ELSE {j}) \cup {"none"}
    BY DEF ObjectsArePacked, IsObject
  <2>1. CASE j = k
    BY <1>2, <1>3, <2>1 DEF IsObject
  <2>2. CASE j # k
    BY <1>2, <2>2 DEF StorageInv, ObjectsArePacked, IsObject
  <2> QED
    BY <2>1, <2>2
<1>5. CallsAreFine'
  <2> SUFFICES ASSUME NEW d \in Callers
               PROVE  CallIsFine(d, call'[d], objects'[Durable])
    BY DEF CallsAreFine
  <2>1. CASE d # c
    <3>1. d # "none" /\ call'[d] = call[d] /\ CallIsFine(d, call[d], objects[Durable])
      BY <2>1, CallersAreNames DEF StorageInv, CallsAreFine
    <3>2. CASE k = Durable
      BY <2>1, <3>1, <3>2 DEF CallIsFine
    <3>3. CASE k # Durable
      BY <1>2, <1>3, <3>1, <3>3
    <3> QED
      BY <3>2, <3>3
  <2> QED
    BY <2>1
<1> QED
  BY <1>1, <1>4, <1>5 DEF StorageInv

\* A call that goes on keeps its other fields.
LEMMA GoesOn ==
  ASSUME StorageShape, NEW c \in Callers, NEW pc \in CallPcs, Goes(c, pc)
  PROVE  /\ call' \in [Callers -> Calls]
         /\ \A d \in Callers \ {c} : call'[d] = call[d]
         /\ call'[c].pc = pc /\ call'[c].key = call[c].key
         /\ call'[c].holds = call[c].holds
<1> DEFINE new == [call[c] EXCEPT !.pc = pc]
<1>1. call[c] \in Calls
  BY DEF StorageShape
<1>2. new \in Calls /\ new.pc = pc /\ new.key = call[c].key /\ new.holds = call[c].holds
  BY <1>1 DEF Calls
<1>3. call' = [call EXCEPT ![c] = new]
  BY DEF Goes
<1> HIDE DEF new
<1> QED
  BY <1>2, <1>3 DEF StorageShape

\* It stays fine when it does not start to write or to hold a bundle, and has
\* put what is there if it says so.
LEMMA GoesFine ==
  ASSUME StorageInv, NEW c \in Callers, NEW pc \in CallPcs \ {"corrupt", "fetched"},
         Goes(c, pc), NEW content,
         pc \in WritePcs => call[c].pc \in WritePcs,
         PutAt(pc, call[c].key) => content.by = c
  PROVE  CallIsFine(c, call'[c], content)
<1>1. /\ call'[c].pc = pc /\ call'[c].key = call[c].key
      /\ call'[c].holds = call[c].holds
  BY GoesOn DEF StorageInv
<1>2. CallIsFine(c, call[c], objects[Durable])
  BY DEF StorageInv, CallsAreFine
<1> QED
  BY <1>1, <1>2 DEF CallIsFine

\* The two steps of a call that only goes on.
LEMMA GoesKeeping ==
  ASSUME StorageInv, NEW c \in Callers, NEW pc \in CallPcs \ {"corrupt", "fetched"},
         Goes(c, pc), objects' = objects,
         pc \in WritePcs => call[c].pc \in WritePcs,
         PutAt(pc, call[c].key) => objects[Durable].by = c
  PROVE  StorageInv'
BY GoesOn, GoesFine, KeepStep DEF StorageInv

LEMMA GoesPutting ==
  ASSUME StorageInv, NEW c \in Callers, NEW pc \in CallPcs \ {"corrupt", "fetched"},
         Goes(c, pc), NEW k \in ObjectKeys, NEW x \in Contents,
         objects' = [objects EXCEPT ![k] = x],
         IsObject(x) => x.by = c /\ Packs(x.tree) /\ k \in {c, Durable},
         k = Durable => objects[Durable].by \in {"none", c},
         pc \in WritePcs => call[c].pc \in WritePcs,
         PutAt(pc, call[c].key) => objects'[Durable].by = c
  PROVE  StorageInv'
BY GoesOn, GoesFine, PutStep DEF StorageInv

\* A call that becomes another one.
LEMMA Becomes ==
  ASSUME StorageShape, NEW c \in Callers, NEW new \in Calls,
         call' = [call EXCEPT ![c] = new]
  PROVE  /\ call' \in [Callers -> Calls] /\ call'[c] = new
         /\ \A d \in Callers \ {c} : call'[d] = call[d]
BY DEF StorageShape

\* What the invariant says of one caller.
LEMMA CallerHolds ==
  ASSUME StorageInv, NEW c \in Callers
  PROVE  /\ StorageShape /\ call[c] \in Calls
         /\ call[c].key \in {c, Durable} /\ call[c].key \in ObjectKeys
         /\ call[c].holds \in Contents
         /\ call[c].pc \in WritePcs => call[c].holds.by = c /\ Packs(call[c].holds.tree)
         /\ PutAt(call[c].pc, call[c].key) => objects[Durable].by = c
         /\ c # Durable /\ c # "none" /\ c \in ObjectKeys /\ Durable \in ObjectKeys
         /\ objects[c] \in Contents /\ objects[Durable] \in Contents
<1>1. StorageShape /\ CallIsFine(c, call[c], objects[Durable])
  BY DEF StorageInv, CallsAreFine
<1>2. call[c] \in Calls
  BY <1>1 DEF StorageShape
<1>3. c # Durable /\ c # "none" /\ c \in ObjectKeys /\ Durable \in ObjectKeys
  BY CallersAreNames
<1>4. objects[c] \in Contents /\ objects[Durable] \in Contents
  BY <1>1, <1>3 DEF StorageShape
<1>5. call[c].holds \in Contents /\ call[c].key \in ObjectKeys
  BY <1>2 DEF Calls
<1> QED
  BY <1>1, <1>2, <1>3, <1>4, <1>5 DEF CallIsFine

\* A key that is free for c to put its object under.
LEMMA FreeKey ==
  ASSUME StorageInv, NEW c \in Callers, NEW k \in {c, Durable}, MayCreate(k)
  PROVE  k = Durable => objects[Durable].by \in {"none", c}
BY DEF MayCreate, IsObject

\* A writer starts with a tree it holds, packed if it goes on to put it.
LEMMA PublishKeeps ==
  ASSUME StorageInv, NEW c \in Callers, Publish(c)
  PROVE  StorageInv'
<1>1. PICK tree \in Trees :
        call' = [call EXCEPT ![c] =
                   [IdleCall EXCEPT !.op = "publish", !.holds = [by |-> c, tree |-> tree],
                                    !.pc = IF Packs(tree) THEN "put" ELSE "failed"]]
  BY DEF Publish
<1>2. PICK pc : pc = IF Packs(tree) THEN "put" ELSE "failed"
  OBVIOUS
<1>3. PICK holds : holds = [by |-> c, tree |-> tree]
  OBVIOUS
<1> DEFINE new == [IdleCall EXCEPT !.op = "publish", !.holds = holds, !.pc = pc]
<1>4. call' = [call EXCEPT ![c] = new]
  BY <1>1, <1>2, <1>3
<1>5. pc \in CallPcs /\ holds \in Contents
  BY <1>2, <1>3 DEF CallPcs, Contents
<1>6. new \in Calls /\ new.pc = pc /\ new.key = Durable /\ new.holds = holds
  BY <1>5, NoObjectIsContent DEF IdleCall, Calls
<1> HIDE DEF new
<1>7. CallIsFine(c, new, objects[Durable])
  BY <1>2, <1>3, <1>6 DEF CallIsFine, WritePcs, PutAt
<1>8. objects' = objects
  BY DEF Publish
<1> QED
  BY <1>4, <1>6, <1>7, <1>8, Becomes, KeepStep DEF StorageInv

LEMMA UploadKeeps ==
  ASSUME StorageInv, NEW c \in Callers, Upload(c)
  PROVE  StorageInv'
<1>1. PICK tree \in Trees :
        /\ Packs(tree)
        /\ call' = [call EXCEPT ![c] =
                      [IdleCall EXCEPT !.op = "upload", !.key = c, !.pc = "put",
                                       !.holds = [by |-> c, tree |-> tree]]]
  BY DEF Upload
<1>2. PICK holds : holds = [by |-> c, tree |-> tree]
  OBVIOUS
<1> DEFINE new == [IdleCall EXCEPT !.op = "upload", !.key = c, !.pc = "put", !.holds = holds]
<1>3. call' = [call EXCEPT ![c] = new]
  BY <1>1, <1>2
<1>4. holds \in Contents /\ c \in ObjectKeys /\ c # Durable
  BY <1>2, CallersAreNames DEF Contents
<1>5. new \in Calls /\ new.pc = "put" /\ new.key = c /\ new.holds = holds
  BY <1>4, NoObjectIsContent DEF IdleCall, Calls, CallPcs
<1> HIDE DEF new
<1>6. CallIsFine(c, new, objects[Durable])
  BY <1>1, <1>2, <1>4, <1>5 DEF CallIsFine, WritePcs, PutAt
<1>7. objects' = objects
  BY DEF Upload
<1> QED
  BY <1>3, <1>5, <1>6, <1>7, Becomes, KeepStep DEF StorageInv

\* A reader and a sweep put nothing.
LEMMA StatKeeps ==
  ASSUME StorageInv, NEW c \in Callers, Stat(c)
  PROVE  StorageInv'
<1>1. PICK pc \in {"get", "failed"} :
        call' = [call EXCEPT ![c] =
                   [IdleCall EXCEPT !.op = "fetch", !.holds = objects[Durable], !.pc = pc]]
  BY DEF Stat
<1>2. PICK holds : holds = objects[Durable]
  OBVIOUS
<1> DEFINE new == [IdleCall EXCEPT !.op = "fetch", !.holds = holds, !.pc = pc]
<1>3. call' = [call EXCEPT ![c] = new]
  BY <1>1, <1>2
<1>4. pc \in CallPcs /\ holds \in Contents
  BY <1>2, CallerHolds DEF CallPcs
<1>5. new \in Calls /\ new.pc = pc /\ new.key = Durable /\ new.holds = holds
  BY <1>4, NoObjectIsContent DEF IdleCall, Calls
<1> HIDE DEF new
<1>6. CallIsFine(c, new, objects[Durable])
  BY <1>5 DEF CallIsFine, WritePcs, PutAt
<1>7. objects' = objects
  BY DEF Stat
<1> QED
  BY <1>3, <1>5, <1>6, <1>7, Becomes, KeepStep DEF StorageInv

LEMMA SweepListsKeeps ==
  ASSUME StorageInv, NEW c \in Callers, SweepLists(c)
  PROVE  StorageInv'
<1>1. PICK old \in SUBSET TemporaryFiles :
        call' = [call EXCEPT ![c] =
                   [IdleCall EXCEPT !.op = "sweep", !.pc = "sweep", !.todo = old]]
  BY DEF SweepLists
<1> DEFINE new == [IdleCall EXCEPT !.op = "sweep", !.pc = "sweep", !.todo = old]
<1>2. old \in SUBSET Callers
  BY DEF TemporaryFiles, WithinTmp
<1>3. new \in Calls /\ new.pc = "sweep" /\ new.key = Durable
  BY <1>2, NoObjectIsContent DEF IdleCall, Calls, CallPcs
<1>4. call' = [call EXCEPT ![c] = new]
  BY <1>1
<1> HIDE DEF new
<1>5. CallIsFine(c, new, objects[Durable])
  BY <1>3 DEF CallIsFine, WritePcs, PutAt
<1>6. objects' = objects
  BY DEF SweepLists
<1> QED
  BY <1>3, <1>4, <1>5, <1>6, Becomes, KeepStep DEF StorageInv

\* Where a call goes on after its write, or after the write was refused.
LEMMA RefusedAndReturned ==
  ASSUME NEW c \in Callers
  PROVE  /\ Refused(c) \in CallPcs \ {"corrupt", "fetched"}
         /\ Refused(c) \notin WritePcs /\ ~PutAt(Refused(c), call[c].key)
         /\ Returned(c) \in CallPcs \ {"corrupt", "fetched"}
         /\ Returned(c) \notin WritePcs
         /\ PutAt(Returned(c), call[c].key) => call[c].key = Durable
BY DEF Refused, Returned, CallPcs, WritePcs, PutAt

\* The local backend's put.
LEMMA LocalPutKeeps ==
  ASSUME StorageInv, NEW c \in Callers, LocalPut(c)
  PROVE  StorageInv'
<1>1. objects' = objects /\ call[c].pc = "put" /\ (Goes(c, "write") \/ Goes(c, Refused(c)))
  BY DEF LocalPut
<1>2. CASE Goes(c, "write")
  <2>1. "write" \in CallPcs \ {"corrupt", "fetched"} /\ ~PutAt("write", call[c].key)
    BY DEF CallPcs, PutAt
  <2> QED
    BY <1>1, <1>2, <2>1, GoesKeeping DEF WritePcs
<1>3. CASE Goes(c, Refused(c))
  BY <1>1, <1>3, RefusedAndReturned, GoesKeeping
<1> QED
  BY <1>1, <1>2, <1>3

LEMMA LocalWriteKeeps ==
  ASSUME StorageInv, NEW c \in Callers,
         LocalWrite(c) \/ LocalWriteFails(c) \/ LocalCleanup(c)
  PROVE  StorageInv'
<1>1. /\ objects' = objects
      /\ \/ Goes(c, "link") /\ call[c].pc = "write"
         \/ Goes(c, "unclean")
         \/ Goes(c, Refused(c))
  BY DEF LocalWrite, LocalWriteFails, LocalCleanup
<1>2. CASE Goes(c, "link") /\ call[c].pc = "write"
  <2>1. "link" \in CallPcs \ {"corrupt", "fetched"} /\ ~PutAt("link", call[c].key)
    BY DEF CallPcs, PutAt
  <2> QED
    BY <1>1, <1>2, <2>1, GoesKeeping DEF WritePcs
<1>3. CASE Goes(c, "unclean")
  <2>1. /\ "unclean" \in CallPcs \ {"corrupt", "fetched"}
        /\ ~PutAt("unclean", call[c].key) /\ "unclean" \notin WritePcs
    BY DEF CallPcs, PutAt, WritePcs
  <2> QED
    BY <1>1, <1>3, <2>1, GoesKeeping
<1>4. CASE Goes(c, Refused(c))
  BY <1>1, <1>4, RefusedAndReturned, GoesKeeping
<1> QED
  BY <1>1, <1>2, <1>3, <1>4

\* A write that put what its call holds under a key that was free.
LEMMA WritePuts ==
  ASSUME StorageInv, NEW c \in Callers, call[c].pc \in WritePcs,
         MayCreate(call[c].key),
         objects' = [objects EXCEPT ![call[c].key] = call[c].holds],
         NEW pc \in CallPcs \ {"corrupt", "fetched"}, Goes(c, pc),
         pc \notin WritePcs,
         PutAt(pc, call[c].key) => call[c].key = Durable
  PROVE  StorageInv'
<1>1. /\ call[c].holds.by = c /\ Packs(call[c].holds.tree)
      /\ call[c].key \in ObjectKeys /\ call[c].holds \in Contents
      /\ call[c].key \in {c, Durable} /\ StorageShape
  BY CallerHolds
<1>2. call[c].key = Durable => objects[Durable].by \in {"none", c}
  BY <1>1, FreeKey
<1>3. PutAt(pc, call[c].key) => objects'[Durable].by = c
  BY <1>1 DEF StorageShape
<1> QED
  BY <1>1, <1>2, <1>3, GoesPutting

\* A failed write that takes its object away again.
LEMMA Clears ==
  ASSUME StorageInv, NEW c \in Callers, NEW k \in ObjectKeys,
         objects' = [objects EXCEPT ![k] = NoObject],
         k = Durable => objects[Durable].by \in {"none", c},
         NEW pc \in CallPcs \ {"corrupt", "fetched"}, Goes(c, pc),
         pc \notin WritePcs,
         PutAt(pc, call[c].key) => k # Durable /\ objects[Durable].by = c
  PROVE  StorageInv'
<1>1. NoObject \in Contents /\ ~IsObject(NoObject) /\ StorageShape
  BY NoObjectIsContent DEF StorageInv
<1>2. PutAt(pc, call[c].key) => objects'[Durable].by = c
  BY <1>1, CallersAreNames DEF StorageShape
<1> QED
  BY <1>1, <1>2, GoesPutting

LEMMA LocalLinkKeeps ==
  ASSUME StorageInv, NEW c \in Callers, LocalLink(c)
  PROVE  StorageInv'
<1>1. call[c].pc \in WritePcs
  BY DEF LocalLink, WritePcs
<1>2. CASE /\ MayCreate(call[c].key)
           /\ objects' = [objects EXCEPT ![call[c].key] = call[c].holds]
           /\ Goes(c, "unlink")
  <2>1. /\ "unlink" \in CallPcs \ {"corrupt", "fetched"} /\ "unlink" \notin WritePcs
        /\ PutAt("unlink", call[c].key) => call[c].key = Durable
    BY DEF CallPcs, WritePcs, PutAt
  <2> QED
    BY <1>1, <1>2, <2>1, WritePuts
<1>3. CASE objects' = objects /\ Goes(c, "unclean")
  <2>1. /\ "unclean" \in CallPcs \ {"corrupt", "fetched"}
        /\ ~PutAt("unclean", call[c].key) /\ "unclean" \notin WritePcs
    BY DEF CallPcs, PutAt, WritePcs
  <2> QED
    BY <1>3, <2>1, GoesKeeping
<1> QED
  BY <1>2, <1>3 DEF LocalLink

LEMMA LocalUnlinkKeeps ==
  ASSUME StorageInv, NEW c \in Callers, LocalUnlink(c)
  PROVE  StorageInv'
<1>1. /\ call[c].key \in ObjectKeys
      /\ call[c].key = Durable => objects[Durable].by = c
  BY CallerHolds DEF LocalUnlink, PutAt
<1>2. CASE objects' = objects /\ Goes(c, Returned(c))
  BY <1>1, <1>2, RefusedAndReturned, GoesKeeping
<1>3. CASE Goes(c, "unclean")
  <2>1. /\ "unclean" \in CallPcs \ {"corrupt", "fetched"}
        /\ ~PutAt("unclean", call[c].key) /\ "unclean" \notin WritePcs
    BY DEF CallPcs, PutAt, WritePcs
  <2>2. CASE objects' = objects
    BY <1>3, <2>1, <2>2, GoesKeeping
  <2>3. CASE objects' = [objects EXCEPT ![call[c].key] = NoObject]
    BY <1>1, <1>3, <2>1, <2>3, Clears
  <2>4. objects' = objects \/ objects' = [objects EXCEPT ![call[c].key] = NoObject]
    BY DEF LocalUnlink
  <2> QED
    BY <2>2, <2>3, <2>4
<1> QED
  BY <1>2, <1>3 DEF LocalUnlink

\* The bucket's put and what follows it.
LEMMA S3PutKeeps ==
  ASSUME StorageInv, NEW c \in Callers, S3Put(c) \/ S3PutFails(c)
  PROVE  StorageInv'
<1>1. call[c].pc \in WritePcs
  BY DEF S3Put, S3PutFails, WritePcs
<1>2. CASE /\ MayCreate(call[c].key)
           /\ objects' = [objects EXCEPT ![call[c].key] = call[c].holds]
           /\ Goes(c, "verify")
  <2>1. /\ "verify" \in CallPcs \ {"corrupt", "fetched"} /\ "verify" \notin WritePcs
        /\ PutAt("verify", call[c].key) => call[c].key = Durable
    BY DEF CallPcs, WritePcs, PutAt
  <2> QED
    BY <1>1, <1>2, <2>1, WritePuts
<1>3. CASE /\ MayCreate(call[c].key)
           /\ objects' = [objects EXCEPT ![call[c].key] = call[c].holds]
           /\ Goes(c, Refused(c))
  BY <1>1, <1>3, RefusedAndReturned, WritePuts
<1>4. CASE objects' = objects /\ Goes(c, Refused(c))
  BY <1>4, RefusedAndReturned, GoesKeeping
<1> QED
  BY <1>2, <1>3, <1>4 DEF S3Put, S3PutFails

LEMMA S3VerifyKeeps ==
  ASSUME StorageInv, NEW c \in Callers, S3Verify(c)
  PROVE  StorageInv'
<1>1. call[c].key = Durable => objects[Durable].by = c
  BY CallerHolds DEF S3Verify, PutAt
<1>2. objects' = objects
  BY DEF S3Verify
<1>3. CASE Goes(c, "drop_promoted") /\ call[c].key = Durable
  <2>1. "drop_promoted" \in CallPcs \ {"corrupt", "fetched"} /\ "drop_promoted" \notin WritePcs
    BY DEF CallPcs, WritePcs
  <2> QED
    BY <1>1, <1>2, <1>3, <2>1, GoesKeeping
<1>4. CASE Goes(c, Returned(c))
  BY <1>1, <1>2, <1>4, RefusedAndReturned, GoesKeeping
<1> QED
  BY <1>3, <1>4 DEF S3Verify

LEMMA S3VerifyFailsKeeps ==
  ASSUME StorageInv, NEW c \in Callers, S3VerifyFails(c)
  PROVE  StorageInv'
<1>1. /\ call[c].key \in ObjectKeys
      /\ call[c].key = Durable => objects[Durable].by = c
  BY CallerHolds DEF S3VerifyFails, PutAt
<1>2. CASE objects' = objects /\ Goes(c, Refused(c))
  BY <1>2, RefusedAndReturned, GoesKeeping
<1>3. CASE objects' = [objects EXCEPT ![call[c].key] = NoObject] /\ Goes(c, Refused(c))
  BY <1>1, <1>3, RefusedAndReturned, Clears
<1> QED
  BY <1>2, <1>3 DEF S3VerifyFails

\* Promotions.
LEMMA LocalPromoteKeeps ==
  ASSUME StorageInv, NEW c \in Callers, LocalPromote(c)
  PROVE  StorageInv'
<1>1. PICK pc \in {"promote_link", "drop_temporary"} :
        call' = [call EXCEPT ![c].key = Durable, ![c].pc = pc]
  BY DEF LocalPromote
<1> DEFINE new == [call[c] EXCEPT !.key = Durable, !.pc = pc]
<1>2. StorageShape /\ call[c] \in Calls /\ Durable \in ObjectKeys
  BY CallerHolds
<1>3. new \in Calls /\ new.pc = pc /\ new.key = Durable
  BY <1>2 DEF Calls, CallPcs
<1>4. call' = [call EXCEPT ![c] = new]
  BY <1>1, <1>2 DEF StorageShape
<1> HIDE DEF new
<1>5. CallIsFine(c, new, objects[Durable])
  BY <1>3 DEF CallIsFine, WritePcs, PutAt
<1>6. objects' = objects
  BY DEF LocalPromote
<1> QED
  BY <1>2, <1>3, <1>4, <1>5, <1>6, Becomes, KeepStep

LEMMA S3PromoteKeeps ==
  ASSUME StorageInv, NEW c \in Callers, S3Promote(c)
  PROVE  StorageInv'
<1>1. PICK pc \in {"put", "drop_temporary"} :
        /\ pc = "put" => IsObject(objects[c])
        /\ call' = [call EXCEPT ![c].key = Durable, ![c].holds = objects[c], ![c].pc = pc]
  BY DEF S3Promote
<1>2. PICK holds : holds = objects[c]
  OBVIOUS
<1> DEFINE new == [call[c] EXCEPT !.key = Durable, !.holds = holds, !.pc = pc]
<1>3. /\ StorageShape /\ call[c] \in Calls /\ Durable \in ObjectKeys
      /\ holds \in Contents /\ c \in ObjectKeys /\ c # Durable
  BY <1>2, CallerHolds
<1>4. new \in Calls /\ new.pc = pc /\ new.key = Durable /\ new.holds = holds
  BY <1>3 DEF Calls, CallPcs
<1>5. call' = [call EXCEPT ![c] = new]
  BY <1>1, <1>2, <1>3 DEF StorageShape
<1> HIDE DEF new
<1>6. pc = "put" => holds.by = c /\ Packs(holds.tree)
  BY <1>1, <1>2, <1>3 DEF StorageInv, ObjectsArePacked, IsObject
<1>7. CallIsFine(c, new, objects[Durable])
  BY <1>4, <1>6 DEF CallIsFine, WritePcs, PutAt
<1>8. objects' = objects
  BY DEF S3Promote
<1> QED
  BY <1>3, <1>4, <1>5, <1>7, <1>8, Becomes, KeepStep

LEMMA LocalPromoteLinkKeeps ==
  ASSUME StorageInv, NEW c \in Callers, LocalPromoteLink(c)
  PROVE  StorageInv'
<1>1. /\ StorageShape /\ c \in ObjectKeys /\ c # Durable /\ Durable \in ObjectKeys
      /\ objects[c] \in Contents
  BY CallerHolds
<1>2. CASE /\ IsObject(objects[c]) /\ MayCreate(Durable)
           /\ objects' = [objects EXCEPT ![Durable] = objects[c]]
           /\ Goes(c, "promote_unlink")
  <2>1. objects[c].by = c /\ Packs(objects[c].tree)
    BY <1>1, <1>2 DEF StorageInv, ObjectsArePacked, IsObject
  <2>2. objects[Durable].by \in {"none", c}
    BY <1>2, FreeKey
  <2>3. objects'[Durable].by = c
    BY <1>1, <1>2, <2>1 DEF StorageShape
  <2>4. "promote_unlink" \in CallPcs \ {"corrupt", "fetched"} /\ "promote_unlink" \notin WritePcs
    BY DEF CallPcs, WritePcs
  <2> QED
    BY <1>1, <1>2, <2>1, <2>2, <2>3, <2>4, GoesPutting
<1>3. CASE objects' = objects /\ Goes(c, "drop_temporary")
  <2>1. /\ "drop_temporary" \in CallPcs \ {"corrupt", "fetched"}
        /\ ~PutAt("drop_temporary", call[c].key) /\ "drop_temporary" \notin WritePcs
    BY DEF CallPcs, PutAt, WritePcs
  <2> QED
    BY <1>3, <2>1, GoesKeeping
<1> QED
  BY <1>2, <1>3 DEF LocalPromoteLink

LEMMA LocalPromoteUnlinkKeeps ==
  ASSUME StorageInv, NEW c \in Callers, LocalPromoteUnlink(c)
  PROVE  StorageInv'
<1>1. /\ objects[Durable].by = c /\ c \in ObjectKeys /\ c # Durable
      /\ Durable \in ObjectKeys
  BY CallerHolds DEF LocalPromoteUnlink, PutAt
<1>2. CASE objects' = [objects EXCEPT ![c] = NoObject] /\ Goes(c, "stored")
  <2>1. "stored" \in CallPcs \ {"corrupt", "fetched"} /\ "stored" \notin WritePcs
    BY DEF CallPcs, WritePcs
  <2> QED
    BY <1>1, <1>2, <2>1, Clears
<1>3. CASE Goes(c, "drop_temporary")
  <2>1. /\ "drop_temporary" \in CallPcs \ {"corrupt", "fetched"}
        /\ ~PutAt("drop_temporary", call[c].key) /\ "drop_temporary" \notin WritePcs
    BY DEF CallPcs, PutAt, WritePcs
  <2>2. CASE objects' = objects
    BY <1>3, <2>1, <2>2, GoesKeeping
  <2>3. CASE objects' = [objects EXCEPT ![Durable] = NoObject]
    BY <1>1, <1>3, <2>1, <2>3, Clears
  <2>4. \/ objects' = [objects EXCEPT ![Durable] = NoObject] \/ objects' = objects
        \/ Goes(c, "stored") /\ objects' = [objects EXCEPT ![c] = NoObject]
    BY DEF LocalPromoteUnlink
  <2> QED
    BY <1>2, <2>2, <2>3, <2>4
<1> QED
  BY <1>2, <1>3 DEF LocalPromoteUnlink

\* Deletions.
LEMMA DropTemporaryKeeps ==
  ASSUME StorageInv, NEW c \in Callers, DropTemporary(c)
  PROVE  StorageInv'
<1>1. PICK pc \in {"stored", "failed"} :
        Goes(c, pc) /\ (pc = "stored" => call[c].pc = "drop_promoted")
  BY DEF DropTemporary
<1>2. /\ pc \in CallPcs \ {"corrupt", "fetched"} /\ pc \notin WritePcs
      /\ c \in ObjectKeys /\ c # Durable
  BY CallersAreNames DEF CallPcs, WritePcs
<1>3. PutAt(pc, call[c].key) => objects[Durable].by = c
  BY <1>1, CallerHolds DEF PutAt
<1>4. CASE objects' = objects
  BY <1>1, <1>2, <1>3, <1>4, GoesKeeping
<1>5. CASE objects' = [objects EXCEPT ![c] = NoObject]
  BY <1>1, <1>2, <1>3, <1>5, Clears
<1> QED
  BY <1>4, <1>5 DEF DropTemporary

LEMMA DeleteKeeps ==
  ASSUME StorageInv, NEW c \in Callers, Delete(c)
  PROVE  StorageInv'
<1>1. /\ call[c].pc = "stored" /\ Goes(c, "failed")
      /\ objects' = [objects EXCEPT ![Durable] = NoObject]
  BY DEF Delete
<1>2. objects[Durable].by = c /\ Durable \in ObjectKeys
  BY <1>1, CallerHolds DEF PutAt
<1>3. /\ "failed" \in CallPcs \ {"corrupt", "fetched"}
      /\ ~PutAt("failed", call[c].key) /\ "failed" \notin WritePcs
  BY DEF CallPcs, PutAt, WritePcs
<1> QED
  BY <1>1, <1>2, <1>3, Clears

\* A sweep deletes temporary objects only.
LEMMA SweepDeletesKeeps ==
  ASSUME StorageInv, NEW c \in Callers, SweepDeletes(c)
  PROVE  StorageInv'
<1>1. PICK pc \in {"swept", "failed"} :
        \/ Goes(c, pc) /\ objects' = objects
        \/ \E k \in call[c].todo :
              /\ objects' = [objects EXCEPT ![k] = NoObject]
              /\ call' = [call EXCEPT ![c].todo = @ \ {k}]
  BY DEF SweepDeletes
<1>2. CASE Goes(c, pc) /\ objects' = objects
  <2>1. /\ pc \in CallPcs \ {"corrupt", "fetched"}
        /\ ~PutAt(pc, call[c].key) /\ pc \notin WritePcs
    BY DEF CallPcs, PutAt, WritePcs
  <2> QED
    BY <1>2, <2>1, GoesKeeping
<1>3. ASSUME NEW k \in call[c].todo,
             objects' = [objects EXCEPT ![k] = NoObject],
             call' = [call EXCEPT ![c].todo = @ \ {k}]
      PROVE  StorageInv'
  <2> DEFINE rest == call[c].todo \ {k}
             new == [call[c] EXCEPT !.todo = rest]
  <2>1. /\ StorageShape /\ call[c] \in Calls
        /\ CallIsFine(c, call[c], objects[Durable])
    BY CallerHolds DEF StorageInv, CallsAreFine
  <2>2. k \in Callers /\ rest \in SUBSET Callers
    BY <2>1 DEF Calls
  <2> HIDE DEF rest
  <2>3. /\ new \in Calls /\ new.pc = call[c].pc /\ new.key = call[c].key
        /\ new.holds = call[c].holds
    BY <2>1, <2>2 DEF Calls
  <2>4. call' = [call EXCEPT ![c] = new]
    BY <1>3, <2>1 DEF StorageShape, rest
  <2> HIDE DEF new
  <2>5. CallIsFine(c, new, objects[Durable])
    BY <2>1, <2>3 DEF CallIsFine
  <2>6. k \in ObjectKeys /\ k # Durable /\ NoObject \in Contents /\ ~IsObject(NoObject)
    BY <2>2, CallersAreNames, NoObjectIsContent
  <2>7. objects'[Durable] = objects[Durable]
    BY <1>3, <2>1, <2>6, CallersAreNames DEF StorageShape
  <2>8. /\ call' \in [Callers -> Calls] /\ call'[c] = new
        /\ \A d \in Callers \ {c} : call'[d] = call[d]
    BY <2>1, <2>3, <2>4, Becomes
  <2> QED
    BY <1>3, <2>5, <2>6, <2>7, <2>8, PutStep
<1> QED
  BY <1>1, <1>2, <1>3

LEMMA CrashKeeps ==
  ASSUME StorageInv, NEW c \in Callers, Crash(c)
  PROVE  StorageInv'
<1>1. /\ "crashed" \in CallPcs \ {"corrupt", "fetched"}
      /\ ~PutAt("crashed", call[c].key) /\ "crashed" \notin WritePcs
  BY DEF CallPcs, PutAt, WritePcs
<1> QED
  BY <1>1, GoesKeeping DEF Crash

\* Readers: what is there was packed by its writer.
LEMMA GetKeeps ==
  ASSUME StorageInv, NEW c \in Callers,
         LocalGet(c) \/ S3Get(c) \/ LocalGetToFile(c) \/ S3GetToFile(c)
  PROVE  StorageInv'
<1>1. objects' = objects
  BY DEF LocalGet, S3Get, LocalGetToFile, S3GetToFile
<1>2. CASE Goes(c, "failed")
  <2>1. /\ "failed" \in CallPcs \ {"corrupt", "fetched"}
        /\ ~PutAt("failed", call[c].key) /\ "failed" \notin WritePcs
    BY DEF CallPcs, PutAt, WritePcs
  <2> QED
    BY <1>1, <1>2, <2>1, GoesKeeping
<1>3. ASSUME LengthIs(Durable, call[c].holds),
             NEW pc \in {"fetched", "corrupt"}, pc = "corrupt" => ~Unpacks(objects[Durable].tree),
             call' = [call EXCEPT ![c].holds = objects[Durable], ![c].pc = pc]
      PROVE  StorageInv'
  <2>1. PICK holds : holds = objects[Durable]
    OBVIOUS
  <2> DEFINE new == [call[c] EXCEPT !.holds = holds, !.pc = pc]
  <2>2. /\ StorageShape /\ call[c] \in Calls /\ Durable \in ObjectKeys
        /\ holds \in Contents /\ call[c].key \in {c, Durable}
    BY <2>1, CallerHolds
  <2>3. Packs(holds.tree)
    BY <1>3, <2>1, <2>2 DEF StorageInv, ObjectsArePacked, LengthIs
  <2>4. holds.tree \in Trees \cup {{}}
    BY <2>2 DEF Contents
  <2>5. pc = "corrupt" => HasSparse(holds.tree)
    BY <1>3, <2>1, <2>3, <2>4, PackedUnpacks
  <2>6. /\ new \in Calls /\ new.pc = pc /\ new.key = call[c].key
        /\ new.holds = holds
    BY <2>2, <2>5 DEF Calls, CallPcs
  <2>7. call' = [call EXCEPT ![c] = new]
    BY <1>3, <2>1, <2>2 DEF StorageShape
  <2> HIDE DEF new
  <2>8. CallIsFine(c, new, objects[Durable])
    BY <2>2, <2>3, <2>5, <2>6 DEF CallIsFine, WritePcs, PutAt
  <2> QED
    BY <1>1, <2>2, <2>6, <2>7, <2>8, Becomes, KeepStep
<1>4. CASE Fetched(c)
  <2>1. CASE LengthIs(Durable, call[c].holds)
    <3>1. PICK pc : pc = IF Unpacks(objects[Durable].tree) THEN "fetched" ELSE "corrupt"
      OBVIOUS
    <3>2. call' = [call EXCEPT ![c].holds = objects[Durable], ![c].pc = pc]
      BY <1>4, <2>1, <3>1 DEF Fetched
    <3> QED
      BY <1>3, <2>1, <3>1, <3>2
  <2>2. CASE ~LengthIs(Durable, call[c].holds)
    BY <1>2, <1>4, <2>2 DEF Fetched
  <2> QED
    BY <2>1, <2>2
<1>5. CASE LocalGet(c) \/ S3Get(c)
  <2>1. \/ Goes(c, "failed")
        \/ /\ LengthIs(Durable, call[c].holds)
           /\ call' = [call EXCEPT ![c].holds = objects[Durable], ![c].pc = "fetched"]
    BY <1>5 DEF LocalGet, S3Get
  <2> QED
    BY <1>2, <1>3, <2>1
<1>6. CASE LocalGetToFile(c) \/ S3GetToFile(c)
  <2>1. Fetched(c) \/ Goes(c, "failed")
    BY <1>6 DEF LocalGetToFile, S3GetToFile
  <2> QED
    BY <1>2, <1>4, <2>1
<1> QED
  BY <1>5, <1>6

\* No call has put or read anything when the system starts.
LEMMA StorageStarts == ObjectInit => StorageInv
<1> SUFFICES ASSUME ObjectInit PROVE StorageInv
  OBVIOUS
<1>1. NoObject \in Contents /\ ~IsObject(NoObject) /\ IdleCall \in Calls
  BY NoObjectIsContent
<1>2. StorageShape
  BY <1>1 DEF ObjectInit, StorageShape
<1>3. ObjectsArePacked
  BY <1>1 DEF ObjectInit, ObjectsArePacked, IsObject
<1>4. CallsAreFine
  BY DEF ObjectInit, CallsAreFine, CallIsFine, IdleCall, WritePcs, PutAt
<1> QED
  BY <1>2, <1>3, <1>4 DEF StorageInv

\* Every step of every caller keeps the invariant.
LEMMA StorageStep == StorageInv /\ [ObjectNext]_objectVars => StorageInv'
<1> SUFFICES ASSUME StorageInv, [ObjectNext]_objectVars PROVE StorageInv'
  OBVIOUS
<1>1. CASE objects' = objects /\ call' = call
  BY <1>1 DEF StorageInv, StorageShape, ObjectsArePacked, IsObject, CallsAreFine
<1>2. ASSUME NEW c \in Callers,
             \/ Publish(c) \/ Upload(c) \/ Stat(c) \/ SweepLists(c)
             \/ SweepDeletes(c) \/ Crash(c)
      PROVE  StorageInv'
  BY <1>2, PublishKeeps, UploadKeeps, StatKeeps, SweepListsKeeps, SweepDeletesKeeps, CrashKeeps
<1>3. ASSUME NEW c \in Callers,
             \/ LocalPut(c) \/ LocalWrite(c) \/ LocalWriteFails(c) \/ LocalLink(c)
             \/ LocalUnlink(c) \/ LocalCleanup(c)
      PROVE  StorageInv'
  BY <1>3, LocalPutKeeps, LocalWriteKeeps, LocalLinkKeeps, LocalUnlinkKeeps
<1>4. ASSUME NEW c \in Callers,
             S3Put(c) \/ S3PutFails(c) \/ S3Verify(c) \/ S3VerifyFails(c)
      PROVE  StorageInv'
  BY <1>4, S3PutKeeps, S3VerifyKeeps, S3VerifyFailsKeeps
<1>5. ASSUME NEW c \in Callers,
             \/ LocalPromote(c) \/ LocalPromoteLink(c) \/ LocalPromoteUnlink(c)
             \/ S3Promote(c) \/ DropTemporary(c) \/ Delete(c)
      PROVE  StorageInv'
  BY <1>5, LocalPromoteKeeps, LocalPromoteLinkKeeps, LocalPromoteUnlinkKeeps,
     S3PromoteKeeps, DropTemporaryKeeps, DeleteKeeps
<1>6. ASSUME NEW c \in Callers,
             LocalGet(c) \/ S3Get(c) \/ LocalGetToFile(c) \/ S3GetToFile(c)
      PROVE  StorageInv'
  BY <1>6, GetKeeps
<1>7. ASSUME NEW c \in Callers, NEW d \in Callers, SweepDeletesBeside(c, d)
      PROVE  StorageInv'
  BY <1>1, <1>7 DEF SweepDeletesBeside
<1>8. CASE UNCHANGED objectVars
  BY <1>1, <1>8 DEF objectVars
<1> QED
  BY <1>2, <1>3, <1>4, <1>5, <1>6, <1>7, <1>8 DEF ObjectNext

\* Storage: objects and calls stay as the invariant says, whatever the callers,
\* the backend, the crashes and the sweeps of temporary objects.
THEOREM StorageInvariance == ObjectSpec => []StorageInv
<1>1. ObjectInit => StorageInv
  BY StorageStarts
<1>2. StorageInv /\ [ObjectNext]_objectVars => StorageInv'
  BY StorageStep
<1> QED
  BY <1>1, <1>2, PTL DEF ObjectSpec

\* What a put or a promotion acknowledged is under the durable key until its
\* caller deletes it.
THEOREM AcknowledgedSafety == ObjectSpec => []AcknowledgedWriteStays
<1>1. StorageInv => AcknowledgedWriteStays
  BY DEF StorageInv, CallsAreFine, CallIsFine, PutAt, AcknowledgedWriteStays
<1> QED
  BY <1>1, StorageInvariance, PTL

\* What was packed and stored is unpacked whole, unless it has a sparse file: every
\* limit an archive is read under follows from those it was written under.
THEOREM UnpackSafety == ObjectSpec => []StoredBundleUnpacks
<1>1. StorageInv => StoredBundleUnpacks
  BY DEF StorageInv, CallsAreFine, CallIsFine, StoredBundleUnpacks, HasSparse
<1> QED
  BY <1>1, StorageInvariance, PTL

-----------------------------------------------------------------------------
(* Division, and where it puts the steps of a plan.                        *)

LEMMA DivisionBounds ==
    ASSUME NEW n \in Nat, NEW b \in Nat \ {0}
    PROVE  n \div b \in Nat /\ n % b \in 0..(b - 1) /\ n = b * (n \div b) + (n % b)
  OBVIOUS

LEMMA SmallMultiple ==
    ASSUME NEW b \in Nat \ {0}, NEW d \in Int, -b < b * d, b * d < b
    PROVE  d = 0
<1>1. CASE d >= 1
  <2>1. b * d >= b
    BY <1>1
  <2> QED
    BY <2>1
<1>2. CASE d <= -1
  <2>1. b * d <= -b
    BY <1>2
  <2> QED
    BY <2>1
<1> QED
  BY <1>1, <1>2

LEMMA DivisionOf ==
    ASSUME NEW b \in Nat \ {0}, NEW q \in Nat, NEW r \in 0..(b - 1)
    PROVE  (q * b + r) \div b = q /\ (q * b + r) % b = r
<1> DEFINE n == q * b + r
<1>1. n \in Nat
  OBVIOUS
<1>2. n \div b \in Nat /\ n % b \in 0..(b - 1) /\ n = b * (n \div b) + (n % b)
  BY <1>1, DivisionBounds
<1>3. PICK q2 \in Nat, r2 \in 0..(b - 1) : q2 = n \div b /\ r2 = n % b
  BY <1>2
<1>4. b * (q2 - q) = r - r2
  BY <1>2, <1>3
<1>5. q2 = q
  BY <1>4, SmallMultiple
<1> QED
  BY <1>3, <1>4, <1>5

\* A quotient within bounds: n of the m times b numbers.
LEMMA QuotientBound ==
    ASSUME NEW b \in Nat \ {0}, NEW m \in Nat, NEW n \in 0..(m * b - 1)
    PROVE  n \div b \in 0..(m - 1)
<1>1. PICK q \in Nat, r \in 0..(b - 1) : q = n \div b /\ n = b * q + r
  BY DivisionBounds
<1>2. b * q < b * m
  BY <1>1
<1>3. CASE q >= m
  <2>1. b * q >= b * m
    BY <1>3
  <2> QED
    BY <1>2, <2>1
<1> QED
  BY <1>1, <1>3

LEMMA PositionOf ==
    ASSUME NEW b \in Nat \ {0}, NEW m \in Nat, NEW q \in 0..(m - 1), NEW r \in 0..(b - 1)
    PROVE  q * b + r \in 0..(m * b - 1)
<1>1. (q + 1) * b <= m * b
  OBVIOUS
<1> QED
  BY <1>1

LEMMA LayoutFacts ==
    ASSUME NEW l \in Layouts
    PROVE  /\ l.classes \in Seq(Nat \ {0})
           /\ Len(l.classes) \in Nat /\ DOMAIN l.classes = 1..Len(l.classes)
           /\ l.perClass \in Nat \ {0} /\ l.inodesPerMb \in Nat \ {0}
           /\ l.persistFstab \in BOOLEAN
           /\ \A i, j \in DOMAIN l.classes : i < j => l.classes[i] < l.classes[j]
<1>1. l \in LayoutType
  BY StorageAssumption
<1>2. /\ l.classes \in Seq(Nat \ {0}) /\ l.perClass \in Nat \ {0}
      /\ l.inodesPerMb \in Nat \ {0} /\ l.persistFstab \in BOOLEAN
  BY <1>1 DEF LayoutType
<1>3. Len(l.classes) \in Nat /\ DOMAIN l.classes = 1..Len(l.classes)
  BY <1>2
<1> QED
  BY <1>2, <1>3, StorageAssumption

LEMMA PositionsAreDistinct ==
    ASSUME NEW b \in Nat \ {0}, NEW base \in Int, NEW k \in Int, NEW m \in Int,
           NEW i \in 1..b, NEW j \in 1..b,
           base + (k - 1) * b + i = base + (m - 1) * b + j
    PROVE  k = m /\ i = j
<1>1. b * (k - m) = j - i
  OBVIOUS
<1>2. -b < b * (k - m) /\ b * (k - m) < b /\ k - m \in Int
  BY <1>1
<1>3. k - m = 0
  BY <1>2, SmallMultiple
<1> QED
  BY <1>1, <1>3

\* Project 0 is what a directory without a project has.
LEMMA ProjectIsPositive ==
    ASSUME NEW l \in Layouts, NEW k \in DOMAIN l.classes, NEW i \in 1..l.perClass
    PROVE  ProjectId(l, k, i) \in Nat /\ ProjectId(l, k, i) # 0
<1>1. k - 1 \in Nat /\ l.perClass \in Nat /\ i \in Nat
  BY LayoutFacts
<1>2. \A a, b \in Nat : a * b \in Nat
  OBVIOUS
<1>3. PICK x \in Nat : x = (k - 1) * l.perClass
  BY <1>1, <1>2
<1>4. ProjectId(l, k, i) = ProjectBase + x + i
  BY <1>3 DEF ProjectId
<1>5. ProjectBase \in Nat \ {0}
  BY StorageAssumption
<1> QED
  BY <1>1, <1>4, <1>5

\* Distinct slots of a layout have distinct projects.
LEMMA ProjectsAreDistinct ==
    ASSUME NEW l \in Layouts, NEW k \in DOMAIN l.classes, NEW m \in DOMAIN l.classes,
           NEW i \in 1..l.perClass, NEW j \in 1..l.perClass,
           ProjectId(l, k, i) = ProjectId(l, m, j)
    PROVE  k = m /\ i = j
<1>1. k \in Int /\ m \in Int /\ ProjectBase \in Int /\ l.perClass \in Nat \ {0}
  BY LayoutFacts, StorageAssumption
<1> QED
  BY <1>1, PositionsAreDistinct DEF ProjectId

LEMMA ClassesAreDistinct ==
    ASSUME NEW l \in Layouts, NEW k \in DOMAIN l.classes, NEW m \in DOMAIN l.classes,
           l.classes[k] = l.classes[m]
    PROVE  k = m
<1>1. k \in Nat /\ m \in Nat /\ l.classes[k] \in Nat /\ l.classes[m] \in Nat
  BY LayoutFacts
<1>2. ~(k < m) /\ ~(m < k)
  BY <1>1, LayoutFacts
<1> QED
  BY <1>1, <1>2

-----------------------------------------------------------------------------
(* The plan.                                                               *)

StepType == [op: {"dir", "image", "mount", "fstab", "slot", "chown"}, vol: Volumes \cup {"state"},
             slot: Nat \X Nat, project: Nat]

\* A step of the plan that prepares slot s of phase p.
IsSlotStep(l, st, p, k, i) ==
    st = [op |-> "slot", vol |-> p, slot |-> <<l.classes[k], i>>, project |-> ProjectId(l, k, i)]

LEMMA ConcatenationOf ==
    ASSUME NEW S, NEW s \in Seq(S), NEW t \in Seq(S)
    PROVE  /\ s \o t \in Seq(S)
           /\ Len(s) \in Nat /\ Len(t) \in Nat /\ Len(s \o t) = Len(s) + Len(t)
           /\ \A i \in 1..Len(s) : (s \o t)[i] = s[i]
           /\ \A i \in 1..Len(t) : (s \o t)[Len(s) + i] = t[i]
<1>1. /\ s \o t \in Seq(S) /\ Len(s \o t) = Len(s) + Len(t)
      /\ \A i \in 1..(Len(s) + Len(t)) : (s \o t)[i] = IF i <= Len(s) THEN s[i] ELSE t[i - Len(s)]
      /\ Len(s) \in Nat /\ Len(t) \in Nat
  BY ConcatProperties
<1>2. ASSUME NEW i \in 1..Len(s)
      PROVE  (s \o t)[i] = s[i]
  BY <1>1
<1>3. ASSUME NEW i \in 1..Len(t)
      PROVE  (s \o t)[Len(s) + i] = t[i]
  <2>1. Len(s) + i \in 1..(Len(s) + Len(t)) /\ ~(Len(s) + i <= Len(s)) /\ (Len(s) + i) - Len(s) = i
    BY <1>1
  <2> QED
    BY <1>1, <2>1
<1> QED
  BY <1>1, <1>2, <1>3

LEMMA VolumePlanShape ==
    ASSUME NEW l \in Layouts, NEW v \in Volumes
    PROVE  /\ VolumePlan(l, v) \in Seq(StepType)
           /\ Len(VolumePlan(l, v)) = IF l.persistFstab THEN 3 ELSE 2
           /\ VolumePlan(l, v)[1] = Do("image", v)
           /\ VolumePlan(l, v)[2] = Do("mount", v)
           /\ l.persistFstab => VolumePlan(l, v)[3] = Do("fstab", v)
<1> DEFINE A == <<Do("image", v), Do("mount", v)>>
           B == <<Do("fstab", v)>>
<1>1. Do("image", v) \in StepType /\ Do("mount", v) \in StepType /\ Do("fstab", v) \in StepType
  BY DEF Do, StepType
<1>2. /\ A \in Seq(StepType) /\ Len(A) = 2 /\ A[1] = Do("image", v) /\ A[2] = Do("mount", v)
      /\ B \in Seq(StepType) /\ Len(B) = 1 /\ B[1] = Do("fstab", v)
  BY <1>1
<1>3. VolumePlan(l, v) = A \o IF l.persistFstab THEN B ELSE << >>
  BY DEF VolumePlan
<1> HIDE DEF A, B
<1>4. CASE l.persistFstab
  <2>1. VolumePlan(l, v) = A \o B
    BY <1>3, <1>4
  <2>2. /\ A \o B \in Seq(StepType) /\ Len(A \o B) = 3
        /\ (A \o B)[1] = A[1] /\ (A \o B)[2] = A[2] /\ (A \o B)[3] = B[1]
    <3>1. /\ A \o B \in Seq(StepType) /\ Len(A \o B) = Len(A) + Len(B)
          /\ \A i \in 1..Len(A) : (A \o B)[i] = A[i]
          /\ \A i \in 1..Len(B) : (A \o B)[Len(A) + i] = B[i]
      <4>1. A \in Seq(StepType) /\ B \in Seq(StepType)
        BY <1>2
      <4> QED
        BY <4>1, ConcatenationOf
    <3>2. 1 \in 1..Len(A) /\ 2 \in 1..Len(A) /\ 1 \in 1..Len(B) /\ Len(A) + 1 = 3
      BY <1>2
    <3> QED
      BY <1>2, <3>1, <3>2
  <2> QED
    BY <1>2, <1>4, <2>1, <2>2
<1>5. CASE ~l.persistFstab
  <2>1. VolumePlan(l, v) = A
    BY <1>2, <1>3, <1>5
  <2> QED
    BY <1>2, <1>5, <2>1
<1> QED
  BY <1>4, <1>5

LEMMA SlotPlanShape ==
    ASSUME NEW l \in Layouts, NEW p \in Volumes
    PROVE  /\ SlotPlan(l, p) \in Seq(StepType)
           /\ Len(SlotPlan(l, p)) = Len(l.classes) * l.perClass
           /\ \A n \in DOMAIN SlotPlan(l, p) :
                 \E k \in DOMAIN l.classes, i \in 1..l.perClass : IsSlotStep(l, SlotPlan(l, p)[n], p, k, i)
           /\ \A k \in DOMAIN l.classes, i \in 1..l.perClass :
                 \E n \in DOMAIN SlotPlan(l, p) : IsSlotStep(l, SlotPlan(l, p)[n], p, k, i)
<1> DEFINE b == l.perClass
           m == Len(l.classes)
           K(n) == 1 + (n - 1) \div l.perClass
           I(n) == 1 + ((n - 1) % l.perClass)
<1>1. b \in Nat \ {0} /\ m \in Nat /\ DOMAIN l.classes = 1..m /\ ProjectBase \in Nat
  BY LayoutFacts, StorageAssumption
<1>2. m * b \in Nat
  BY <1>1
<1>3. ASSUME NEW n \in 1..(m * b)
      PROVE  K(n) \in DOMAIN l.classes /\ I(n) \in 1..b
  <2>1. n - 1 \in 0..(m * b - 1) /\ n - 1 \in Nat
    BY <1>2
  <2>2. PICK q \in 0..(m - 1), r \in 0..(b - 1) : q = (n - 1) \div b /\ r = (n - 1) % b
    <3>1. PICK x \in Nat : x = n - 1 /\ x \in 0..(m * b - 1)
      BY <2>1
    <3>2. x \div b \in 0..(m - 1)
      BY <1>1, <3>1, QuotientBound
    <3>3. x % b \in 0..(b - 1)
      BY <1>1, DivisionBounds
    <3> QED
      BY <3>1, <3>2, <3>3
  <2>3. K(n) = 1 + q /\ I(n) = 1 + r
    BY <2>2
  <2>4. 1 + q \in DOMAIN l.classes /\ 1 + r \in 1..b
    BY <1>1
  <2> HIDE DEF K, I
  <2> QED
    BY <2>3, <2>4
<1>4. ASSUME NEW k \in DOMAIN l.classes, NEW i \in 1..b
      PROVE  \E n \in 1..(m * b) : K(n) = k /\ I(n) = i
  <2> DEFINE n == (k - 1) * b + (i - 1) + 1
  <2>1. k - 1 \in 0..(m - 1) /\ k - 1 \in Nat /\ i - 1 \in 0..(b - 1)
    BY <1>1
  <2>2. (k - 1) * b + (i - 1) \in 0..(m * b - 1)
    BY <1>1, <2>1, PositionOf
  <2>3. ((k - 1) * b + (i - 1)) \div b = k - 1 /\ ((k - 1) * b + (i - 1)) % b = i - 1
    BY <1>1, <2>1, DivisionOf
  <2>4. n \in 1..(m * b) /\ n - 1 = (k - 1) * b + (i - 1)
    BY <1>2, <2>2
  <2>5. K(n) = k /\ I(n) = i
    BY <1>1, <2>3, <2>4
  <2> QED
    BY <2>4, <2>5
<1>5. SlotPlan(l, p) = [n \in 1..(m * b) |->
         [op |-> "slot", vol |-> p, slot |-> <<l.classes[K(n)], I(n)>>, project |-> ProjectId(l, K(n), I(n))]]
  BY DEF SlotPlan
<1> HIDE DEF K, I, m
<1>6. \A n \in 1..(m * b) : IsSlotStep(l, SlotPlan(l, p)[n], p, K(n), I(n))
  BY <1>5 DEF IsSlotStep
<1>7. ASSUME NEW k \in DOMAIN l.classes, NEW i \in 1..b
      PROVE  [op |-> "slot", vol |-> p, slot |-> <<l.classes[k], i>>, project |-> ProjectId(l, k, i)] \in StepType
  <2>1. l.classes[k] \in Nat /\ k \in Nat \ {0} /\ i \in Nat
    BY <1>1, LayoutFacts
  <2>2. ProjectId(l, k, i) \in Nat
    BY ProjectIsPositive
  <2> QED
    BY <2>1, <2>2 DEF StepType
<1>8. SlotPlan(l, p) \in Seq(StepType) /\ DOMAIN SlotPlan(l, p) = 1..(m * b) /\ Len(SlotPlan(l, p)) = m * b
  <2>1. SlotPlan(l, p) \in [1..(m * b) -> StepType]
    BY <1>3, <1>5, <1>7
  <2> QED
    BY <1>2, <2>1
<1> QED
  BY <1>3, <1>4, <1>6, <1>8 DEF m

\* A step of the plan of a phase.
IsPhaseStep(l, st, p) ==
    \/ st \in {Do("image", p), Do("mount", p), Do("fstab", p)}
    \/ \E k \in DOMAIN l.classes, i \in 1..l.perClass : IsSlotStep(l, st, p, k, i)

LEMMA PhaseStepsCount ==
    ASSUME NEW l \in Layouts
    PROVE  /\ PhaseSteps(l) \in Nat \ {0}
           /\ \A p \in Volumes : PhaseSteps(l) = Len(VolumePlan(l, p)) + Len(SlotPlan(l, p))
<1>1. Len(l.classes) * l.perClass \in Nat
  <2>1. \A b, m \in Nat : m * b \in Nat
    OBVIOUS
  <2> QED
    BY <2>1, LayoutFacts
<1>2. \A p \in Volumes : /\ Len(VolumePlan(l, p)) = Len(VolumePlan(l, "docker"))
                        /\ Len(SlotPlan(l, p)) = Len(l.classes) * l.perClass
  <2>1. \A p \in Volumes : Len(VolumePlan(l, p)) = IF l.persistFstab THEN 3 ELSE 2
    BY VolumePlanShape
  <2>2. "docker" \in Volumes
    BY DEF Volumes
  <2>3. Len(VolumePlan(l, "docker")) = IF l.persistFstab THEN 3 ELSE 2
    BY <2>1, <2>2, Zenon
  <2> QED
    BY <2>1, <2>3, SlotPlanShape
<1>3. Len(VolumePlan(l, "docker")) \in {2, 3}
  <2>1. \A p \in Volumes : Len(VolumePlan(l, p)) \in {2, 3}
    BY VolumePlanShape
  <2>2. "docker" \in Volumes
    BY DEF Volumes
  <2> QED
    BY <2>1, <2>2, Zenon
<1>4. PhaseSteps(l) \in Nat \ {0}
  <2> DEFINE c == Len(l.classes) * l.perClass
  <2>1. c \in Nat
    BY <1>1
  <2>2. PhaseSteps(l) = Len(VolumePlan(l, "docker")) + c
    BY DEF PhaseSteps
  <2> HIDE DEF c
  <2> QED
    BY <1>3, <2>1, <2>2
<1> QED
  BY <1>2, <1>4 DEF PhaseSteps

LEMMA PhasePlanShape ==
    ASSUME NEW l \in Layouts, NEW p \in Volumes
    PROVE  /\ PhasePlan(l, p) \in Seq(StepType)
           /\ Len(PhasePlan(l, p)) = PhaseSteps(l) /\ 2 <= PhaseSteps(l)
           /\ PhasePlan(l, p)[1] = Do("image", p)
           /\ PhasePlan(l, p)[2] = Do("mount", p)
           /\ \A n \in 1..PhaseSteps(l) : IsPhaseStep(l, PhasePlan(l, p)[n], p)
           /\ \A k \in DOMAIN l.classes, i \in 1..l.perClass :
                 \E n \in 1..PhaseSteps(l) : IsSlotStep(l, PhasePlan(l, p)[n], p, k, i)
           /\ PhasePlan(l, p)[1].op # "slot"
<1> DEFINE V == VolumePlan(l, p)
           S == SlotPlan(l, p)
           P == PhasePlan(l, p)
<1>1. /\ V \in Seq(StepType) /\ Len(V) \in {2, 3}
      /\ V[1] = Do("image", p) /\ V[2] = Do("mount", p)
      /\ Len(V) = 3 => V[3] = Do("fstab", p)
  BY VolumePlanShape
<1>2. /\ S \in Seq(StepType)
      /\ \A n \in DOMAIN S : \E k \in DOMAIN l.classes, i \in 1..l.perClass : IsSlotStep(l, S[n], p, k, i)
      /\ \A k \in DOMAIN l.classes, i \in 1..l.perClass : \E n \in DOMAIN S : IsSlotStep(l, S[n], p, k, i)
  BY SlotPlanShape
<1>3. P = V \o S /\ PhaseSteps(l) = Len(V) + Len(S)
  BY PhaseStepsCount DEF PhasePlan
<1> HIDE DEF V, S, P
<1>9. Len(S) \in Nat /\ DOMAIN S = 1..Len(S) /\ PhaseSteps(l) \in Nat
  BY <1>2, PhaseStepsCount
<1>4. /\ P \in Seq(StepType) /\ Len(P) = PhaseSteps(l) /\ 2 <= PhaseSteps(l)
      /\ \A n \in 1..PhaseSteps(l) : P[n] = IF n <= Len(V) THEN V[n] ELSE S[n - Len(V)]
  BY <1>1, <1>2, <1>3, <1>9, ConcatProperties
<1>5. P[1] = Do("image", p) /\ P[2] = Do("mount", p)
  BY <1>1, <1>4
<1>6. ASSUME NEW n \in 1..PhaseSteps(l)
      PROVE  IsPhaseStep(l, P[n], p)
  <2>1. CASE n <= Len(V)
    <3>1. n \in {1, 2, 3} /\ P[n] = V[n]
      BY <1>1, <1>4, <2>1
    <3>2. V[n] \in {Do("image", p), Do("mount", p), Do("fstab", p)}
      BY <1>1, <2>1, <3>1
    <3> QED
      BY <3>1, <3>2 DEF IsPhaseStep
  <2>2. CASE n > Len(V)
    <3>1. P[n] = S[n - Len(V)] /\ n - Len(V) \in DOMAIN S
      BY <1>1, <1>2, <1>3, <1>4, <2>2
    <3> QED
      BY <1>2, <3>1 DEF IsPhaseStep
  <2> QED
    BY <1>1, <2>1, <2>2
<1>7. ASSUME NEW k \in DOMAIN l.classes, NEW i \in 1..l.perClass
      PROVE  \E n \in 1..PhaseSteps(l) : IsSlotStep(l, P[n], p, k, i)
  <2>1. PICK n \in DOMAIN S : IsSlotStep(l, S[n], p, k, i)
    BY <1>2
  <2>2. PICK v \in {2, 3} : v = Len(V)
    BY <1>1
  <2>3. v + n \in 1..PhaseSteps(l) /\ v + n > v /\ v + n - v = n /\ n \in Nat
    <3>1. n \in 1..Len(S)
      BY <1>9
    <3> QED
      BY <1>3, <1>9, <2>2, <3>1
  <2>4. P[v + n] = S[n]
    <3>1. P[v + n] = IF v + n <= v THEN V[v + n] ELSE S[v + n - v]
      BY <1>4, <2>2, <2>3
    <3> QED
      BY <2>2, <2>3, <3>1
  <2> QED
    BY <2>1, <2>3, <2>4
<1>8. P[1].op # "slot"
  BY <1>5 DEF Do
<1> QED
  BY <1>4, <1>5, <1>6, <1>7, <1>8 DEF P

\* Where step r of phase q is among the plans of the phases.
LEMMA PhasePlansShape ==
    ASSUME NEW l \in Layouts
    PROVE  /\ PhasePlans(l) \in Seq(StepType)
           /\ \A n \in DOMAIN PhasePlans(l) :
                 \E q \in DOMAIN PhaseSeq, r \in 1..PhaseSteps(l) :
                    /\ PhasePlans(l)[n] = PhasePlan(l, PhaseSeq[q])[r]
                    /\ \E m \in 1..n : /\ PhasePlans(l)[m] = PhasePlan(l, PhaseSeq[q])[1]
                                       /\ m = n => r = 1
           /\ \A q \in DOMAIN PhaseSeq, r \in 1..PhaseSteps(l) :
                 \E n \in DOMAIN PhasePlans(l) : PhasePlans(l)[n] = PhasePlan(l, PhaseSeq[q])[r]
<1>1. PICK b \in Nat \ {0}, N \in Nat : b = PhaseSteps(l) /\ N = Len(PhaseSeq)
  BY PhaseStepsCount, StorageAssumption
<1>2. /\ DOMAIN PhaseSeq = 1..N /\ \A q \in 1..N : PhaseSeq[q] \in Volumes
      /\ N * b \in Nat
  BY <1>1, StorageAssumption DEF Volumes, Phases, Range
<1> DEFINE StepAt(n) == PhasePlan(l, PhaseSeq[1 + (n - 1) \div b])[1 + ((n - 1) % b)]
<1>3. PhasePlans(l) = [n \in 1..(N * b) |-> StepAt(n)]
  BY <1>1 DEF PhasePlans
<1>4. ASSUME NEW q \in 1..N, NEW r \in 1..b
      PROVE  /\ (q - 1) * b + r \in 1..(N * b)
             /\ StepAt((q - 1) * b + r) = PhasePlan(l, PhaseSeq[q])[r]
  <2>1. q - 1 \in 0..(N - 1) /\ q - 1 \in Nat /\ r - 1 \in 0..(b - 1) /\ (q - 1) * b \in Int
    OBVIOUS
  <2>2. (q - 1) * b + (r - 1) \in 0..(N * b - 1)
    BY <2>1, PositionOf
  <2>3. ((q - 1) * b + (r - 1)) \div b = q - 1 /\ ((q - 1) * b + (r - 1)) % b = r - 1
    BY <2>1, DivisionOf
  <2>4. ((q - 1) * b + r) - 1 = (q - 1) * b + (r - 1)
    BY <2>1
  <2>5. 1 + (((q - 1) * b + r) - 1) \div b = q /\ 1 + ((((q - 1) * b + r) - 1) % b) = r
    BY <2>3, <2>4
  <2>6. StepAt((q - 1) * b + r) = PhasePlan(l, PhaseSeq[q])[r]
    BY <2>5
  <2> QED
    BY <1>2, <2>1, <2>2, <2>6
<1>5. ASSUME NEW n \in 1..(N * b)
      PROVE  \E q \in 1..N, r \in 1..b : n = (q - 1) * b + r
  <2>1. n - 1 \in 0..(N * b - 1) /\ n - 1 \in Nat
    BY <1>2
  <2>2. PICK q \in 0..(N - 1), r \in 0..(b - 1) : n - 1 = b * q + r
    <3>1. PICK x \in Nat : x = n - 1
      BY <2>1
    <3>2. x \div b \in 0..(N - 1)
      BY <2>1, <3>1, QuotientBound
    <3>3. x % b \in 0..(b - 1) /\ x = b * (x \div b) + (x % b)
      BY DivisionBounds
    <3> QED
      BY <3>1, <3>2, <3>3
  <2>3. q + 1 \in 1..N /\ r + 1 \in 1..b /\ n = ((q + 1) - 1) * b + (r + 1)
    BY <2>1, <2>2
  <2> QED
    BY <2>3
<1> HIDE DEF StepAt
<1>6. \A n \in 1..(N * b) : PhasePlans(l)[n] = StepAt(n)
  BY <1>3
<1>7. \A q \in 1..N, r \in 1..b : PhasePlan(l, PhaseSeq[q])[r] \in StepType
  <2> SUFFICES ASSUME NEW q \in 1..N, NEW r \in 1..b
               PROVE  PhasePlan(l, PhaseSeq[q])[r] \in StepType
    OBVIOUS
  <2>1. PhasePlan(l, PhaseSeq[q]) \in Seq(StepType) /\ Len(PhasePlan(l, PhaseSeq[q])) = b
    BY <1>1, <1>2, PhasePlanShape
  <2> QED
    BY <2>1
<1>8. PhasePlans(l) \in Seq(StepType) /\ DOMAIN PhasePlans(l) = 1..(N * b)
  <2>1. ASSUME NEW n \in 1..(N * b)
        PROVE  StepAt(n) \in StepType
    <3>1. PICK q \in 1..N, r \in 1..b : n = (q - 1) * b + r
      BY <1>5
    <3>2. StepAt(n) = PhasePlan(l, PhaseSeq[q])[r]
      BY <1>4, <3>1
    <3> QED
      BY <1>7, <3>2
  <2>2. PhasePlans(l) \in [1..(N * b) -> StepType]
    BY <1>3, <2>1
  <2> QED
    BY <1>2, <2>2
<1>9. ASSUME NEW n \in 1..(N * b)
      PROVE  \E q \in 1..N, r \in 1..b :
                /\ PhasePlans(l)[n] = PhasePlan(l, PhaseSeq[q])[r]
                /\ \E m \in 1..n : /\ PhasePlans(l)[m] = PhasePlan(l, PhaseSeq[q])[1]
                                   /\ m = n => r = 1
  <2>1. PICK q \in 1..N, r \in 1..b : n = (q - 1) * b + r
    BY <1>5
  <2>2. PhasePlans(l)[n] = PhasePlan(l, PhaseSeq[q])[r]
    BY <1>4, <1>6, <2>1
  <2>3. 1 \in 1..b /\ (q - 1) * b + 1 \in 1..(N * b)
    BY <1>4
  <2>4. PhasePlans(l)[(q - 1) * b + 1] = PhasePlan(l, PhaseSeq[q])[1]
    BY <1>4, <1>6, <2>3
  <2>5. PICK m \in 1..(N * b) : m = (q - 1) * b + 1
    BY <2>3
  <2>6. m \in 1..n /\ (m = n => r = 1)
    <3>1. PICK x \in Int : x = (q - 1) * b
      OBVIOUS
    <3> QED
      BY <2>1, <2>5, <3>1
  <2> QED
    BY <2>2, <2>4, <2>5, <2>6
<1>10. \A q \in 1..N, r \in 1..b :
          \E n \in 1..(N * b) : PhasePlans(l)[n] = PhasePlan(l, PhaseSeq[q])[r]
  BY <1>4, <1>6
<1>11. \A n \in DOMAIN PhasePlans(l) :
          \E q \in DOMAIN PhaseSeq, r \in 1..PhaseSteps(l) :
             /\ PhasePlans(l)[n] = PhasePlan(l, PhaseSeq[q])[r]
             /\ \E m \in 1..n : /\ PhasePlans(l)[m] = PhasePlan(l, PhaseSeq[q])[1]
                                /\ m = n => r = 1
  <2> SUFFICES ASSUME NEW n \in 1..(N * b)
               PROVE  \E q \in DOMAIN PhaseSeq, r \in 1..PhaseSteps(l) :
                         /\ PhasePlans(l)[n] = PhasePlan(l, PhaseSeq[q])[r]
                         /\ \E m \in 1..n : /\ PhasePlans(l)[m] = PhasePlan(l, PhaseSeq[q])[1]
                                            /\ m = n => r = 1
    BY <1>8
  <2>1. PICK q \in 1..N, r \in 1..b :
                /\ PhasePlans(l)[n] = PhasePlan(l, PhaseSeq[q])[r]
                /\ \E m \in 1..n : /\ PhasePlans(l)[m] = PhasePlan(l, PhaseSeq[q])[1]
                                   /\ m = n => r = 1
    BY <1>9
  <2>2. q \in DOMAIN PhaseSeq /\ r \in 1..PhaseSteps(l)
    BY <1>1, <1>2
  <2> QED
    BY <2>1, <2>2
<1>12. \A q \in DOMAIN PhaseSeq, r \in 1..PhaseSteps(l) :
          \E n \in DOMAIN PhasePlans(l) : PhasePlans(l)[n] = PhasePlan(l, PhaseSeq[q])[r]
  <2> SUFFICES ASSUME NEW q \in DOMAIN PhaseSeq, NEW r \in 1..PhaseSteps(l)
               PROVE  \E n \in 1..(N * b) : PhasePlans(l)[n] = PhasePlan(l, PhaseSeq[q])[r]
    BY <1>8
  <2>1. q \in 1..N /\ r \in 1..b
    BY <1>1, <1>2
  <2> QED
    BY <1>10, <2>1
<1> QED
  BY <1>8, <1>11, <1>12, Zenon

\* Four sequences one after the other.
AreParts(S, s, t, u, w) == s \in Seq(S) /\ t \in Seq(S) /\ u \in Seq(S) /\ w \in Seq(S)

LEMMA FourParts ==
    ASSUME NEW S, NEW s, NEW t, NEW u, NEW w, AreParts(S, s, t, u, w)
    PROVE  LET P == s \o t \o u \o w
           IN /\ P \in Seq(S) /\ Len(s) \in Nat /\ Len(t) \in Nat /\ Len(u) \in Nat /\ Len(w) \in Nat
              /\ DOMAIN P = 1..(Len(s) + Len(t) + Len(u) + Len(w))
              /\ \A i \in 1..Len(s) : P[i] = s[i]
              /\ \A i \in 1..Len(t) : P[Len(s) + i] = t[i]
              /\ \A i \in 1..Len(u) : P[Len(s) + Len(t) + i] = u[i]
              /\ \A i \in 1..Len(w) : P[Len(s) + Len(t) + Len(u) + i] = w[i]
<1> DEFINE st == s \o t
           stu == st \o u
           P == stu \o w
<1>0. s \in Seq(S) /\ t \in Seq(S) /\ u \in Seq(S) /\ w \in Seq(S)
  BY DEF AreParts
<1>1. /\ st \in Seq(S) /\ Len(s) \in Nat /\ Len(t) \in Nat /\ Len(st) = Len(s) + Len(t)
      /\ \A i \in 1..Len(s) : st[i] = s[i]
      /\ \A i \in 1..Len(t) : st[Len(s) + i] = t[i]
  <2>1. s \in Seq(S) /\ t \in Seq(S)
    BY <1>0
  <2> QED
    BY <2>1, ConcatenationOf
<1> HIDE DEF st
<1>2. /\ stu \in Seq(S) /\ Len(u) \in Nat /\ Len(stu) = Len(st) + Len(u)
      /\ \A i \in 1..Len(st) : stu[i] = st[i]
      /\ \A i \in 1..Len(u) : stu[Len(st) + i] = u[i]
  <2>1. st \in Seq(S) /\ u \in Seq(S)
    BY <1>0, <1>1
  <2> QED
    BY <2>1, ConcatenationOf
<1> HIDE DEF stu
<1>3. /\ P \in Seq(S) /\ Len(w) \in Nat /\ Len(P) = Len(stu) + Len(w)
      /\ \A i \in 1..Len(stu) : P[i] = stu[i]
      /\ \A i \in 1..Len(w) : P[Len(stu) + i] = w[i]
  <2>1. stu \in Seq(S) /\ w \in Seq(S)
    BY <1>0, <1>2
  <2> QED
    BY <2>1, ConcatenationOf
<1> HIDE DEF P
<1>4. PICK x \in Nat, y \in Nat, z \in Nat :
         x = Len(s) /\ y = Len(s) + Len(t) /\ z = Len(s) + Len(t) + Len(u)
  BY <1>1, <1>2
<1>5. Len(st) = y /\ Len(stu) = z /\ DOMAIN P = 1..(z + Len(w)) /\ x <= y /\ y <= z
  BY <1>1, <1>2, <1>3, <1>4
<1>6. \A i \in 1..Len(s) : P[i] = s[i]
  BY <1>1, <1>2, <1>3, <1>4, <1>5
<1>7. ASSUME NEW i \in 1..Len(t)
      PROVE  P[x + i] = t[i]
  <2>1. x + i \in 1..y /\ x + i \in 1..z
    BY <1>1, <1>4, <1>5
  <2> QED
    BY <1>1, <1>2, <1>3, <1>4, <1>5, <2>1
<1>8. ASSUME NEW i \in 1..Len(u)
      PROVE  P[y + i] = u[i]
  <2>1. y + i \in 1..z
    BY <1>2, <1>4, <1>5
  <2> QED
    BY <1>2, <1>3, <1>5, <2>1
<1>9. \A i \in 1..Len(w) : P[z + i] = w[i]
  BY <1>3, <1>5
<1>10. /\ P \in Seq(S) /\ Len(s) \in Nat /\ Len(t) \in Nat /\ Len(u) \in Nat /\ Len(w) \in Nat
       /\ DOMAIN P = 1..(Len(s) + Len(t) + Len(u) + Len(w))
       /\ \A i \in 1..Len(s) : P[i] = s[i]
       /\ \A i \in 1..Len(t) : P[Len(s) + i] = t[i]
       /\ \A i \in 1..Len(u) : P[Len(s) + Len(t) + i] = u[i]
       /\ \A i \in 1..Len(w) : P[Len(s) + Len(t) + Len(u) + i] = w[i]
  BY <1>1, <1>2, <1>3, <1>4, <1>5, <1>6, <1>7, <1>8, <1>9
<1> QED
  BY <1>10 DEF P, stu, st

\* What step n of plan P may be: a slot comes after its phase's image.
IsPlanStep(l, P, n) ==
    \/ P[n].op \in {"dir", "chown"}
    \/ \E v \in Volumes : P[n] \in {Do("image", v), Do("mount", v), Do("fstab", v)}
    \/ \E p \in Phases, k \in DOMAIN l.classes, i \in 1..l.perClass :
          IsSlotStep(l, P[n], p, k, i) /\ \E m \in 1..(n - 1) : P[m] = Do("image", p)

LEMMA StoragePlanShape ==
    ASSUME NEW l \in Layouts
    PROVE  LET P == StoragePlan(l)
           IN /\ P \in Seq(StepType) /\ 1 \in DOMAIN P
              /\ P[1] = Do("dir", "state")
              /\ \A v \in Volumes : \E n \in DOMAIN P : P[n] = Do("mount", v)
              /\ \A p \in Phases, k \in DOMAIN l.classes, i \in 1..l.perClass :
                    \E n \in DOMAIN P : IsSlotStep(l, P[n], p, k, i)
              /\ \A n \in DOMAIN P : IsPlanStep(l, P, n)
<1> DEFINE A == <<Do("dir", "state"), Do("dir", "docker")>>
           B == VolumePlan(l, "docker")
           C == PhasePlans(l)
           E == <<Do("chown", "docker")>>
           P == StoragePlan(l)
<1>1. "docker" \in Volumes /\ Phases \subseteq Volumes
  BY DEF Volumes
<1>2. /\ A \in Seq(StepType) /\ Len(A) = 2 /\ E \in Seq(StepType) /\ Len(E) = 1
      /\ A[1] = Do("dir", "state") /\ A[1].op = "dir" /\ A[2].op = "dir" /\ E[1].op = "chown"
  <2>1. /\ Do("dir", "state") \in StepType /\ Do("dir", "docker") \in StepType
        /\ Do("chown", "docker") \in StepType
    BY <1>1 DEF Do, StepType
  <2> QED
    BY <2>1 DEF Do
<1>3. /\ B \in Seq(StepType) /\ Len(B) \in {2, 3}
      /\ B[2] = Do("mount", "docker")
      /\ \A n \in 1..Len(B) : B[n] \in {Do("image", "docker"), Do("mount", "docker"), Do("fstab", "docker")}
  <2>1. /\ B \in Seq(StepType) /\ Len(B) = IF l.persistFstab THEN 3 ELSE 2
        /\ B[1] = Do("image", "docker") /\ B[2] = Do("mount", "docker")
        /\ l.persistFstab => B[3] = Do("fstab", "docker")
    BY <1>1, VolumePlanShape, Zenon
  <2> HIDE DEF B
  <2>2. \A n \in 1..Len(B) : n \in {1, 2, 3} /\ (n = 3 => l.persistFstab)
    BY <2>1
  <2> QED
    BY <2>1, <2>2
<1>4. C \in Seq(StepType) /\ DOMAIN C = 1..Len(C) /\ Len(C) \in Nat
  BY PhasePlansShape
<1>5. P = A \o B \o C \o E
  BY DEF StoragePlan
<1> HIDE DEF A, B, C, E, P
<1>6. PICK y \in Nat, z \in Nat :
         /\ y = Len(A) + Len(B) /\ z = Len(A) + Len(B) + Len(C)
         /\ P \in Seq(StepType) /\ DOMAIN P = 1..(z + 1)
         /\ P[1] = A[1] /\ P[2] = A[2]
         /\ \A i \in 1..Len(B) : P[2 + i] = B[i]
         /\ \A i \in 1..Len(C) : P[y + i] = C[i]
         /\ P[z + 1] = E[1]
  <2>1. /\ P \in Seq(StepType)
        /\ DOMAIN P = 1..(Len(A) + Len(B) + Len(C) + Len(E))
        /\ \A i \in 1..Len(A) : P[i] = A[i]
        /\ \A i \in 1..Len(B) : P[Len(A) + i] = B[i]
        /\ \A i \in 1..Len(C) : P[Len(A) + Len(B) + i] = C[i]
        /\ \A i \in 1..Len(E) : P[Len(A) + Len(B) + Len(C) + i] = E[i]
    <3>1. AreParts(StepType, A, B, C, E)
      BY <1>2, <1>3, <1>4 DEF AreParts
    <3>2. LET Q == A \o B \o C \o E
          IN /\ Q \in Seq(StepType)
             /\ DOMAIN Q = 1..(Len(A) + Len(B) + Len(C) + Len(E))
             /\ \A i \in 1..Len(A) : Q[i] = A[i]
             /\ \A i \in 1..Len(B) : Q[Len(A) + i] = B[i]
             /\ \A i \in 1..Len(C) : Q[Len(A) + Len(B) + i] = C[i]
             /\ \A i \in 1..Len(E) : Q[Len(A) + Len(B) + Len(C) + i] = E[i]
      BY <3>1, FourParts
    <3> QED
      BY <1>5, <3>2
  <2>2. 1 \in 1..Len(A) /\ 2 \in 1..Len(A) /\ 1 \in 1..Len(E)
    BY <1>2
  <2>3. P[1] = A[1] /\ P[2] = A[2] /\ P[Len(A) + Len(B) + Len(C) + 1] = E[1]
    BY <2>1, <2>2
  <2>4. \A i \in 1..Len(B) : P[2 + i] = B[i]
    BY <1>2, <2>1
  <2>5. Len(A) + Len(B) \in Nat /\ Len(A) + Len(B) + Len(C) \in Nat
    BY <1>2, <1>3, <1>4
  <2>6. DOMAIN P = 1..(Len(A) + Len(B) + Len(C) + 1)
    BY <1>2, <2>1
  <2> QED
    BY <2>1, <2>3, <2>4, <2>5, <2>6
<1>7. y \in {4, 5} /\ y = 2 + Len(B) /\ z = y + Len(C)
  <2>1. y = Len(A) + Len(B) /\ z = Len(A) + Len(B) + Len(C)
    BY <1>6
  <2>2. y = 2 + Len(B) /\ z = 2 + Len(B) + Len(C)
    BY <1>2, <2>1
  <2> QED
    BY <1>3, <1>4, <2>2
<1>8. 1 \in DOMAIN P /\ 4 \in DOMAIN P /\ P[1] = Do("dir", "state") /\ P[4] = Do("mount", "docker")
  <2>1. 2 \in 1..Len(B) /\ 2 + 2 = 4
    BY <1>3
  <2> QED
    BY <1>2, <1>3, <1>4, <1>6, <1>7, <2>1
<1>9. ASSUME NEW q \in DOMAIN PhaseSeq, NEW r \in 1..PhaseSteps(l)
      PROVE  \E n \in DOMAIN P : P[n] = PhasePlan(l, PhaseSeq[q])[r]
  <2>1. \E n \in DOMAIN C : C[n] = PhasePlan(l, PhaseSeq[q])[r]
    BY PhasePlansShape DEF C
  <2>2. PICK n \in 1..Len(C) : C[n] = PhasePlan(l, PhaseSeq[q])[r]
    BY <1>4, <2>1
  <2>3. P[y + n] = C[n]
    BY <1>6
  <2>4. y + n \in DOMAIN P
    BY <1>4, <1>6, <1>7
  <2> QED
    BY <2>2, <2>3, <2>4
<1>10. ASSUME NEW v \in Volumes
       PROVE  \E n \in DOMAIN P : P[n] = Do("mount", v)
  <2>1. CASE v = "docker"
    BY <1>8, <2>1
  <2>2. CASE v # "docker"
    <3>1. PICK q \in DOMAIN PhaseSeq : v = PhaseSeq[q]
      BY <2>2 DEF Volumes, Phases, Range
    <3>2. PhasePlan(l, v)[2] = Do("mount", v) /\ 2 \in 1..PhaseSteps(l)
      BY PhasePlanShape, PhaseStepsCount
    <3> QED
      BY <1>9, <3>1, <3>2
  <2> QED
    BY <2>1, <2>2
<1>11. ASSUME NEW p \in Phases, NEW k \in DOMAIN l.classes, NEW i \in 1..l.perClass
       PROVE  \E n \in DOMAIN P : IsSlotStep(l, P[n], p, k, i)
  <2>1. PICK q \in DOMAIN PhaseSeq : p = PhaseSeq[q]
    BY DEF Phases, Range
  <2>2. PICK r \in 1..PhaseSteps(l) : IsSlotStep(l, PhasePlan(l, p)[r], p, k, i)
    BY <1>1, PhasePlanShape
  <2>3. PICK n \in DOMAIN P : P[n] = PhasePlan(l, p)[r]
    BY <1>9, <2>1
  <2> QED
    BY <2>2, <2>3
<1>12. ASSUME NEW n \in 1..Len(C)
       PROVE  IsPlanStep(l, P, y + n)
  <2>1. PICK q \in DOMAIN PhaseSeq, r \in 1..PhaseSteps(l) :
                /\ C[n] = PhasePlan(l, PhaseSeq[q])[r]
                /\ \E m \in 1..n : /\ C[m] = PhasePlan(l, PhaseSeq[q])[1]
                                   /\ m = n => r = 1
    BY <1>4, PhasePlansShape DEF C
  <2>2. PICK p \in Phases : p = PhaseSeq[q]
    BY DEF Phases, Range
  <2>3. PICK m \in 1..n : C[m] = Do("image", p) /\ (m = n => r = 1)
    BY <1>1, <2>1, <2>2, PhasePlanShape
  <2>4. /\ P[y + n] = PhasePlan(l, p)[r] /\ P[y + m] = Do("image", p)
        /\ m # n => y + m \in 1..((y + n) - 1)
    BY <1>4, <1>6, <2>1, <2>2, <2>3
  <2>5. CASE PhasePlan(l, p)[r] \in {Do("image", p), Do("mount", p), Do("fstab", p)}
    BY <1>1, <2>4, <2>5 DEF IsPlanStep
  <2>6. CASE \E k \in DOMAIN l.classes, i \in 1..l.perClass : IsSlotStep(l, PhasePlan(l, p)[r], p, k, i)
    <3>1. r # 1
      <4>1. PhasePlan(l, p)[r].op = "slot"
        BY <2>6 DEF IsSlotStep
      <4> QED
        BY <1>1, <4>1, PhasePlanShape
    <3> QED
      BY <2>3, <2>4, <2>6, <3>1 DEF IsPlanStep
  <2> QED
    BY <1>1, <2>5, <2>6, PhasePlanShape DEF IsPhaseStep
<1>13. ASSUME NEW n \in DOMAIN P
       PROVE  IsPlanStep(l, P, n)
  <2>1. CASE n \in {1, 2, z + 1}
    BY <1>2, <1>6, <2>1 DEF IsPlanStep
  <2>2. CASE n \in 3..y
    <3>1. n - 2 \in 1..Len(B) /\ 2 + (n - 2) = n
      BY <1>3, <1>7, <2>2
    <3>2. P[n] \in {Do("image", "docker"), Do("mount", "docker"), Do("fstab", "docker")}
      BY <1>3, <1>6, <3>1
    <3> QED
      BY <1>1, <3>2 DEF IsPlanStep
  <2>3. CASE n \in (y + 1)..z
    <3>1. n - y \in 1..Len(C) /\ y + (n - y) = n
      BY <1>4, <1>7, <2>3
    <3> QED
      BY <1>12, <3>1
  <2> QED
    BY <1>6, <1>7, <2>1, <2>2, <2>3
<1> QED
  BY <1>6, <1>8, <1>10, <1>11, <1>13 DEF P

-----------------------------------------------------------------------------
(* What a step of the plan leaves behind, and the invariant: a running     *)
(* command has left the effects of every step before the one it is at, and *)
(* the earlier stages of that one, and a command that is done those of the *)
(* whole plan.  A step takes no effect of another away, because a plan     *)
(* makes a filesystem anew only before it comes to the slots on it, and    *)
(* gives every slot of a layout a project of its own.                      *)

\* How far a slot is prepared before a stage of its step; 5 is after the last.
SlotReached(l, st, stage) ==
    /\ stage > 1 => slots[st.vol][st.slot].there
    /\ stage > 2 => slots[st.vol][st.slot].project = st.project
    /\ stage > 3 => limits[st.vol][st.project] =
                      [mb |-> st.slot[1], inodes |-> st.slot[1] * l.inodesPerMb]
    /\ stage > 4 => slots[st.vol][st.slot].meta = SlotMetadata(l, st.slot, st.project)

HasEffect(l, st) ==
    /\ st.op = "dir" => st.vol \in dirs
    /\ st.op = "image" => image[st.vol] # "none"
    /\ st.op = "mount" => st.vol \in dirs /\ st.vol \in mounted
    /\ st.op = "slot" => SlotReached(l, st, 5)

EffectsUpTo(l, n) == \A m \in 1..n : HasEffect(l, StoragePlan(l)[m])

\* The stages of step n that are over. Only the first image step of a volume
\* gets to its second stage, where the filesystem is made anew.
StageReached(l, n, stage) ==
    LET st == StoragePlan(l)[n] IN
    /\ st.op = "image" /\ stage = 2 =>
         image[st.vol] # "none" /\ \A m \in 1..(n - 1) : StoragePlan(l)[m] # st
    /\ st.op = "mount" /\ stage = 2 => st.vol \in dirs
    /\ st.op = "slot" => SlotReached(l, st, stage)

CommandFields ==
    {"state", "layout", "at", "stage", "made", "mnts", "fstabOld", "metaOld", "had", "held"}

MetaType == [class : Nat, index : Nat, project : Nat, inodesPerMb : Nat, inodes : Nat]
SlotType == [there : BOOLEAN, project : Nat, meta : MetaType]
LimitType == [mb : Nat, inodes : Nat]

IsCommand(c) ==
    /\ DOMAIN c = CommandFields
    /\ c.layout \in Layouts
    /\ c.metaOld \in [Phases -> SUBSET (SlotIds \X MetaType)]

HostTypeOK ==
    /\ image \in [Volumes -> {"none", "raw", "xfs"}]
    /\ slots \in [Phases -> [SlotIds -> SlotType]]
    /\ limits \in [Phases -> [Projects -> LimitType]]

CommandOK ==
    /\ IsCommand(cmd)
    /\ cmd.state = "running" =>
         /\ cmd.at \in DOMAIN StoragePlan(cmd.layout) /\ cmd.stage \in 1..4
         /\ EffectsUpTo(cmd.layout, cmd.at - 1)
         /\ StageReached(cmd.layout, cmd.at, cmd.stage)
    /\ cmd.state = "done" => EffectsUpTo(cmd.layout, Len(StoragePlan(cmd.layout)))

PreparationInv == HostTypeOK /\ CommandOK

\* A slot step as the plan has it.
LEMMA SlotStepFacts ==
    ASSUME NEW l \in Layouts, NEW st, NEW p \in Phases,
           NEW k \in DOMAIN l.classes, NEW i \in 1..l.perClass, IsSlotStep(l, st, p, k, i)
    PROVE  /\ st.op = "slot" /\ st.vol = p /\ st.slot = <<l.classes[k], i>>
           /\ st.slot \in SlotsOf(l) /\ st.slot \in SlotIds
           /\ st.slot[1] \in Nat /\ st.slot[2] \in Nat
           /\ st.project = ProjectId(l, k, i)
           /\ st.project \in Projects /\ st.project \in Nat /\ st.project # 0
<1>1. /\ st.op = "slot" /\ st.vol = p /\ st.slot = <<l.classes[k], i>>
      /\ st.project = ProjectId(l, k, i)
  BY DEF IsSlotStep
<1>2. l.classes[k] \in Nat /\ i \in Nat /\ k \in Nat \ {0} /\ l.perClass \in Nat
  BY LayoutFacts
<1>3. l.classes[k] \in Range(l.classes)
  BY DEF Range
<1>4. st.slot \in SlotsOf(l) /\ st.slot \in SlotIds
  BY <1>1, <1>3 DEF SlotsOf, SlotIds
<1>5. ProjectId(l, k, i) \in Projects
  BY DEF Projects
<1>6. ProjectId(l, k, i) \in Nat /\ ProjectId(l, k, i) # 0
  BY ProjectIsPositive
<1> QED
  BY <1>1, <1>2, <1>4, <1>5, <1>6

\* A slot has one project, and a project one slot.
LEMMA SlotStepsAgree ==
    ASSUME NEW l \in Layouts, NEW st, NEW su, NEW p \in Phases, NEW q \in Phases,
           NEW k \in DOMAIN l.classes, NEW i \in 1..l.perClass, IsSlotStep(l, st, p, k, i),
           NEW m \in DOMAIN l.classes, NEW j \in 1..l.perClass, IsSlotStep(l, su, q, m, j)
    PROVE  st.slot = su.slot <=> st.project = su.project
<1>1. /\ st.slot = <<l.classes[k], i>> /\ su.slot = <<l.classes[m], j>>
      /\ st.project = ProjectId(l, k, i) /\ su.project = ProjectId(l, m, j)
  BY DEF IsSlotStep
<1>2. ASSUME st.slot = su.slot
      PROVE  st.project = su.project
  <2>1. l.classes[k] = l.classes[m] /\ i = j
    BY <1>1, <1>2
  <2>2. k = m
    BY <2>1, ClassesAreDistinct
  <2> QED
    BY <1>1, <2>1, <2>2
<1>3. ASSUME st.project = su.project
      PROVE  st.slot = su.slot
  <2>1. ProjectId(l, k, i) = ProjectId(l, m, j)
    BY <1>1, <1>3
  <2>2. k = m /\ i = j
    BY <2>1, ProjectsAreDistinct
  <2> QED
    BY <1>1, <2>2
<1> QED
  BY <1>2, <1>3

\* The running command, with names for its layout and its place in the plan.
IsRunning(l, n) ==
    /\ PreparationInv /\ Preparing
    /\ l = cmd.layout /\ n = cmd.at

LEMMA RunningFacts ==
    ASSUME NEW l, NEW n, IsRunning(l, n)
    PROVE  /\ l \in Layouts /\ n \in DOMAIN StoragePlan(l) /\ n \in Nat \ {0}
           /\ n <= Len(StoragePlan(l))
           /\ Step = StoragePlan(l)[n]
           /\ cmd.stage \in 1..4
           /\ EffectsUpTo(l, n - 1) /\ StageReached(l, n, cmd.stage)
           /\ IsCommand(cmd)
           /\ \A m \in 1..n : m \in DOMAIN StoragePlan(l) /\ IsPlanStep(l, StoragePlan(l), m)
<1>1. /\ l \in Layouts /\ n \in DOMAIN StoragePlan(l) /\ Step = StoragePlan(l)[n]
      /\ cmd.stage \in 1..4 /\ EffectsUpTo(l, n - 1) /\ StageReached(l, n, cmd.stage)
      /\ IsCommand(cmd)
  BY DEF IsRunning, PreparationInv, CommandOK, IsCommand, Preparing, Step
<1>2. /\ StoragePlan(l) \in Seq(StepType)
      /\ \A m \in DOMAIN StoragePlan(l) : IsPlanStep(l, StoragePlan(l), m)
  BY <1>1, StoragePlanShape
<1>3. DOMAIN StoragePlan(l) = 1..Len(StoragePlan(l)) /\ Len(StoragePlan(l)) \in Nat
  BY <1>2
<1>4. \A m \in 1..n : m \in DOMAIN StoragePlan(l)
  BY <1>1, <1>3
<1> QED
  BY <1>1, <1>2, <1>3, <1>4

LEMMA NextPhaseFields ==
    ASSUME NEW c, IsCommand(c)
    PROVE  /\ IsCommand(NextPhase(c)) /\ NextPhase(c).layout = c.layout
           /\ c.at = Len(StoragePlan(c.layout)) => NextPhase(c).state = "done"
           /\ c.at # Len(StoragePlan(c.layout)) =>
                /\ NextPhase(c).state = c.state
                /\ NextPhase(c).at = c.at + 1 /\ NextPhase(c).stage = 1
  BY DEF NextPhase, IsCommand, CommandFields

LEMMA WithinFields ==
    ASSUME NEW c, IsCommand(c)
    PROVE  /\ IsCommand(Within(c)) /\ Within(c).layout = c.layout
           /\ Within(c).state = c.state /\ Within(c).at = c.at
           /\ Within(c).stage = c.stage + 1
  BY DEF Within, IsCommand, CommandFields

\* What the rollback log records changes nothing else of a command.
SameWork(c, d) ==
    /\ IsCommand(c) /\ c.state = d.state /\ c.layout = d.layout
    /\ c.at = d.at /\ c.stage = d.stage

LEMMA RecordedFields ==
    ASSUME NEW c, IsCommand(c), NEW kind, NEW path, NEW exists
    PROVE  SameWork(Recorded(c, kind, path, exists), c)
  BY DEF Recorded, SameWork, IsCommand, CommandFields

\* The step is over: its effect and all earlier ones are there.
LEMMA StepEnds ==
    ASSUME NEW l, NEW n, IsRunning(l, n), NEW c, SameWork(c, cmd), cmd' = NextPhase(c),
           EffectsUpTo(l, n)'
    PROVE  CommandOK'
<1>1. /\ IsCommand(c) /\ c.state = "running" /\ c.layout = l /\ c.at = n
  BY DEF SameWork, IsRunning, Preparing
<1>2. l \in Layouts /\ n \in Nat \ {0} /\ n <= Len(StoragePlan(l))
  BY RunningFacts
<1>3. CASE n = Len(StoragePlan(l))
  <2>1. IsCommand(cmd') /\ cmd'.state = "done" /\ cmd'.layout = l
    BY <1>1, <1>3, NextPhaseFields
  <2> QED
    BY <1>3, <2>1 DEF CommandOK
<1>4. CASE n # Len(StoragePlan(l))
  <2>1. /\ IsCommand(cmd') /\ cmd'.state = "running" /\ cmd'.layout = l
        /\ cmd'.at = n + 1 /\ cmd'.stage = 1
    BY <1>1, <1>4, NextPhaseFields
  <2>2. n + 1 \in DOMAIN StoragePlan(l) /\ (n + 1) - 1 = n
    BY <1>2, <1>4, StoragePlanShape
  <2>3. StageReached(l, n + 1, 1)'
    BY DEF StageReached, SlotReached
  <2> QED
    BY <2>1, <2>2, <2>3 DEF CommandOK
<1> QED
  BY <1>3, <1>4

\* A stage of the step is over.
LEMMA StageEnds ==
    ASSUME NEW l, NEW n, IsRunning(l, n), NEW c, SameWork(c, cmd), cmd' = Within(c),
           NEW stage \in 2..4, stage = cmd.stage + 1,
           EffectsUpTo(l, n - 1)', StageReached(l, n, stage)'
    PROVE  CommandOK'
<1>1. /\ IsCommand(c) /\ c.state = "running" /\ c.layout = l /\ c.at = n /\ c.stage = cmd.stage
  BY DEF SameWork, IsRunning, Preparing
<1>2. n \in DOMAIN StoragePlan(l)
  BY RunningFacts
<1>3. /\ IsCommand(cmd') /\ cmd'.state = "running" /\ cmd'.layout = l
      /\ cmd'.at = n /\ cmd'.stage = stage
  BY <1>1, WithinFields
<1> QED
  BY <1>2, <1>3 DEF CommandOK

-----------------------------------------------------------------------------
(* The actions of the plan.                                                *)

\* What the steps before have left stays if directories and mounts stay, images
\* stay, and slots and limits are as they were.
LEMMA EffectsStay ==
    ASSUME NEW l, NEW n, EffectsUpTo(l, n),
           dirs \subseteq dirs', mounted \subseteq mounted',
           \A v : image[v] # "none" => image'[v] # "none",
           UNCHANGED <<slots, limits>>
    PROVE  EffectsUpTo(l, n)'
  BY DEF EffectsUpTo, HasEffect, SlotReached

LEMMA EffectsExtend ==
    ASSUME NEW l, NEW n \in Nat \ {0}, EffectsUpTo(l, n - 1)', HasEffect(l, StoragePlan(l)[n])'
    PROVE  EffectsUpTo(l, n)'
<1>1. \A m \in 1..n : m = n \/ m \in 1..(n - 1)
  OBVIOUS
<1> QED
  BY <1>1 DEF EffectsUpTo

LEMMA DirectoryKeeps ==
    ASSUME NEW l, NEW n, IsRunning(l, n), EnsureDirectory
    PROVE  PreparationInv'
<1>1. n \in Nat \ {0} /\ Step = StoragePlan(l)[n] /\ EffectsUpTo(l, n - 1) /\ IsCommand(cmd)
  BY RunningFacts
<1>2. EffectsUpTo(l, n - 1)'
  BY <1>1, EffectsStay DEF EnsureDirectory
<1>3. HasEffect(l, StoragePlan(l)[n])'
  BY <1>1 DEF EnsureDirectory, AtPhase, HasEffect
<1>4. EffectsUpTo(l, n)'
  BY <1>1, <1>2, <1>3, EffectsExtend
<1>5. CommandOK'
  <2> DEFINE c == Recorded(cmd, "dir", Step.vol, Step.vol \in dirs)
  <2>1. SameWork(c, cmd) /\ cmd' = NextPhase(c)
    BY <1>1, RecordedFields DEF EnsureDirectory
  <2> QED
    BY <1>4, <2>1, StepEnds
<1>6. HostTypeOK'
  BY DEF IsRunning, PreparationInv, EnsureDirectory, HostTypeOK
<1> QED
  BY <1>5, <1>6 DEF PreparationInv

LEMMA SameWorkAgain ==
    ASSUME NEW c, IsCommand(c)
    PROVE  SameWork(c, c)
  BY DEF SameWork

\* The three kinds of plan steps, by their operation.
LEMMA PlanStepKinds ==
    ASSUME NEW l, NEW P, NEW n, IsPlanStep(l, P, n)
    PROVE  /\ P[n].op \in {"image", "mount", "fstab"} =>
                P[n].vol \in Volumes /\ P[n] = Do(P[n].op, P[n].vol)
           /\ P[n].op = "slot" =>
                \E p \in Phases, k \in DOMAIN l.classes, i \in 1..l.perClass :
                   IsSlotStep(l, P[n], p, k, i) /\ \E m \in 1..(n - 1) : P[m] = Do("image", p)
<1>1. CASE P[n].op \in {"dir", "chown"}
  BY <1>1
<1>2. ASSUME NEW v \in Volumes, P[n] \in {Do("image", v), Do("mount", v), Do("fstab", v)}
      PROVE  P[n].op \in {"image", "mount", "fstab"} /\ P[n].vol = v /\ P[n] = Do(P[n].op, v)
  BY <1>2 DEF Do
<1>3. ASSUME NEW p \in Phases, NEW k \in DOMAIN l.classes, NEW i \in 1..l.perClass,
             IsSlotStep(l, P[n], p, k, i)
      PROVE  P[n].op = "slot"
  BY <1>3 DEF IsSlotStep
<1> QED
  BY <1>1, <1>2, <1>3 DEF IsPlanStep

LEMMA ImageStepVolume ==
    ASSUME NEW l, NEW n, IsRunning(l, n), Step.op \in {"image", "mount", "fstab"}
    PROVE  Step.vol \in Volumes /\ Step = Do(Step.op, Step.vol)
<1>1. Step = StoragePlan(l)[n] /\ IsPlanStep(l, StoragePlan(l), n)
  <2>1. n \in 1..n
    BY RunningFacts
  <2> QED
    BY <2>1, RunningFacts
<1> QED
  BY <1>1, PlanStepKinds

LEMMA ImageKeeps ==
    ASSUME NEW l, NEW n, IsRunning(l, n), EnsureImage
    PROVE  PreparationInv'
<1>1. /\ n \in Nat \ {0} /\ Step = StoragePlan(l)[n] /\ EffectsUpTo(l, n - 1) /\ IsCommand(cmd)
      /\ Step.op = "image" /\ cmd.stage = 1
  BY RunningFacts DEF EnsureImage, AtPhase
<1>2. Step.vol \in Volumes
  BY <1>1, ImageStepVolume
<1>3. HostTypeOK
  BY DEF IsRunning, PreparationInv
<1>4. CASE image[Step.vol] # "none"
  <2>1. EffectsUpTo(l, n - 1)'
    BY <1>1, <1>4, EffectsStay DEF EnsureImage
  <2>2. HasEffect(l, StoragePlan(l)[n])'
    BY <1>1, <1>4 DEF EnsureImage, HasEffect
  <2>3. EffectsUpTo(l, n)'
    BY <1>1, <2>1, <2>2, EffectsExtend
  <2>4. CommandOK'
    BY <1>1, <1>4, <2>3, SameWorkAgain, StepEnds DEF EnsureImage
  <2> QED
    BY <1>3, <1>4, <2>4 DEF EnsureImage, HostTypeOK, PreparationInv
<1>5. CASE image[Step.vol] = "none"
  <2>1. /\ image' = [image EXCEPT ![Step.vol] = "raw"]
        /\ cmd' = Within(Recorded(cmd, "image", Step.vol, FALSE))
        /\ UNCHANGED <<dirs, mounted, slots, limits>>
    BY <1>5 DEF EnsureImage
  <2>2. image'[Step.vol] = "raw" /\ \A v : image[v] # "none" => image'[v] # "none"
    BY <1>2, <1>3, <2>1 DEF HostTypeOK
  <2>3. EffectsUpTo(l, n - 1)'
    BY <1>1, <2>1, <2>2, EffectsStay
  <2>4. \A m \in 1..(n - 1) : StoragePlan(l)[m] # Step
    BY <1>1, <1>5 DEF EffectsUpTo, HasEffect
  <2>5. StageReached(l, n, 2)'
    BY <1>1, <2>2, <2>4 DEF StageReached
  <2>6. SameWork(Recorded(cmd, "image", Step.vol, FALSE), cmd)
    BY <1>1, RecordedFields
  <2>7. 2 \in 2..4 /\ 2 = cmd.stage + 1
    BY <1>1
  <2>8. CommandOK'
    BY <2>1, <2>3, <2>5, <2>6, <2>7, StageEnds
  <2> QED
    BY <1>3, <2>1, <2>8 DEF HostTypeOK, PreparationInv
<1> QED
  BY <1>4, <1>5

\* Slots prepared earlier in the plan are on other volumes: theirs have an image.
LEMMA FormatKeeps ==
    ASSUME NEW l, NEW n, IsRunning(l, n), FormatImage
    PROVE  PreparationInv'
<1>1. /\ n \in Nat \ {0} /\ Step = StoragePlan(l)[n] /\ EffectsUpTo(l, n - 1) /\ IsCommand(cmd)
      /\ Step.op = "image" /\ cmd.stage = 2 /\ l \in Layouts
  BY RunningFacts DEF FormatImage, AtPhase
<1>2. Step.vol \in Volumes /\ Step = Do("image", Step.vol)
  BY <1>1, ImageStepVolume
<1>3. HostTypeOK
  BY DEF IsRunning, PreparationInv
<1>4. \A m \in 1..(n - 1) : StoragePlan(l)[m] # Step
  BY <1>1, RunningFacts DEF StageReached
<1>5. image'[Step.vol] = "xfs" /\ \A v : image[v] # "none" => image'[v] # "none"
  BY <1>2, <1>3 DEF HostTypeOK, FormatImage
<1>6. /\ UNCHANGED <<dirs, mounted>>
      /\ \A p \in Phases : p # Step.vol => slots'[p] = slots[p] /\ limits'[p] = limits[p]
  BY <1>3 DEF HostTypeOK, FormatImage
<1>7. ASSUME NEW m \in 1..(n - 1)
      PROVE  HasEffect(l, StoragePlan(l)[m])'
  <2> DEFINE st == StoragePlan(l)[m]
  <2>1. HasEffect(l, st)
    BY <1>1 DEF EffectsUpTo
  <2>2. CASE st.op # "slot"
    BY <1>5, <1>6, <2>1, <2>2 DEF HasEffect
  <2>3. CASE st.op = "slot"
    <3>1. m \in 1..n
      BY <1>1
    <3>2. IsPlanStep(l, StoragePlan(l), m)
      BY <3>1, RunningFacts
    <3>3. PICK p \in Phases, k \in DOMAIN l.classes, i \in 1..l.perClass :
             IsSlotStep(l, st, p, k, i) /\ \E j \in 1..(m - 1) : StoragePlan(l)[j] = Do("image", p)
      BY <2>3, <3>2, PlanStepKinds
    <3>4. st.vol = p
      BY <3>3 DEF IsSlotStep
    <3>5. p # Step.vol
      BY <1>1, <1>2, <1>4, <3>3
    <3> HIDE DEF st
    <3>6. SlotReached(l, st, 5)'
      BY <1>6, <2>1, <2>3, <3>4, <3>5 DEF HasEffect, SlotReached
    <3> QED
      BY <2>3, <3>6 DEF HasEffect, st
  <2> QED
    BY <2>2, <2>3
<1>8. EffectsUpTo(l, n - 1)'
  BY <1>7 DEF EffectsUpTo
<1>9. HasEffect(l, StoragePlan(l)[n])'
  BY <1>1, <1>5 DEF HasEffect
<1>10. EffectsUpTo(l, n)'
  BY <1>1, <1>8, <1>9, EffectsExtend
<1>11. CommandOK'
  BY <1>1, <1>10, SameWorkAgain, StepEnds DEF FormatImage
<1>12. NoSlots \in [SlotIds -> SlotType] /\ NoLimits \in [Projects -> LimitType]
  BY DEF NoSlots, NoSlot, NoMeta, NoLimits, NoLimit, SlotType, MetaType, LimitType
<1>13. HostTypeOK'
  BY <1>3, <1>12 DEF FormatImage, HostTypeOK
<1> QED
  BY <1>11, <1>13 DEF PreparationInv

LEMMA MountKeeps ==
    ASSUME NEW l, NEW n, IsRunning(l, n), EnsureMount
    PROVE  PreparationInv'
<1> DEFINE c == Recorded(cmd, "dir", Step.vol, Step.vol \in dirs)
<1>1. /\ n \in Nat \ {0} /\ Step = StoragePlan(l)[n] /\ EffectsUpTo(l, n - 1) /\ IsCommand(cmd)
      /\ Step.op = "mount" /\ cmd.stage = 1
  BY RunningFacts DEF EnsureMount, AtPhase
<1>2. SameWork(c, cmd)
  BY <1>1, RecordedFields
<1>3. EffectsUpTo(l, n - 1)'
  BY <1>1, EffectsStay DEF EnsureMount
<1>4. CommandOK'
  <2>1. CASE Step.vol \in mounted
    <3>1. HasEffect(l, StoragePlan(l)[n])'
      BY <1>1, <2>1 DEF EnsureMount, HasEffect
    <3>2. EffectsUpTo(l, n)'
      BY <1>1, <1>3, <3>1, EffectsExtend
    <3>3. cmd' = NextPhase(c)
      BY <2>1 DEF EnsureMount
    <3> QED
      BY <1>2, <3>2, <3>3, StepEnds
  <2>2. CASE Step.vol \notin mounted
    <3>1. StageReached(l, n, 2)'
      BY <1>1 DEF EnsureMount, StageReached
    <3>2. cmd' = Within(c)
      BY <2>2 DEF EnsureMount
    <3> QED
      BY <1>1, <1>2, <1>3, <3>1, <3>2, StageEnds
  <2> QED
    BY <2>1, <2>2
<1>5. HostTypeOK'
  BY DEF IsRunning, PreparationInv, EnsureMount, HostTypeOK
<1> QED
  BY <1>4, <1>5 DEF PreparationInv

LEMMA MountVolumeKeeps ==
    ASSUME NEW l, NEW n, IsRunning(l, n), MountVolume
    PROVE  PreparationInv'
<1> DEFINE c == [cmd EXCEPT !.mnts = cmd.mnts \cup {Step.vol}]
<1>1. /\ n \in Nat \ {0} /\ Step = StoragePlan(l)[n] /\ EffectsUpTo(l, n - 1) /\ IsCommand(cmd)
      /\ Step.op = "mount" /\ cmd.stage = 2 /\ StageReached(l, n, cmd.stage)
  BY RunningFacts DEF MountVolume, AtPhase
<1>2. SameWork(c, cmd) /\ cmd' = NextPhase(c)
  BY <1>1 DEF MountVolume, SameWork, IsCommand, CommandFields
<1>3. EffectsUpTo(l, n - 1)'
  BY <1>1, EffectsStay DEF MountVolume
<1>4. HasEffect(l, StoragePlan(l)[n])'
  BY <1>1 DEF MountVolume, HasEffect, StageReached
<1>5. EffectsUpTo(l, n)'
  BY <1>1, <1>3, <1>4, EffectsExtend
<1>6. CommandOK'
  BY <1>2, <1>5, StepEnds
<1>7. HostTypeOK'
  BY DEF IsRunning, PreparationInv, MountVolume, HostTypeOK
<1> QED
  BY <1>6, <1>7 DEF PreparationInv

LEMMA FstabKeeps ==
    ASSUME NEW l, NEW n, IsRunning(l, n), EnsureFstab
    PROVE  PreparationInv'
<1> DEFINE c == IF Step.vol \in fstab \/ cmd.fstabOld # NoBackup THEN cmd
                ELSE [cmd EXCEPT !.fstabOld = <<fstab>>]
<1>1. /\ n \in Nat \ {0} /\ Step = StoragePlan(l)[n] /\ EffectsUpTo(l, n - 1) /\ IsCommand(cmd)
      /\ Step.op = "fstab"
  BY RunningFacts DEF EnsureFstab, AtPhase
<1>2. SameWork(c, cmd) /\ cmd' = NextPhase(c)
  BY <1>1 DEF EnsureFstab, SameWork, IsCommand, CommandFields
<1>3. EffectsUpTo(l, n - 1)'
  BY <1>1, EffectsStay DEF EnsureFstab
<1>4. HasEffect(l, StoragePlan(l)[n])'
  BY <1>1 DEF HasEffect
<1>5. EffectsUpTo(l, n)'
  BY <1>1, <1>3, <1>4, EffectsExtend
<1> HIDE DEF c
<1>6. CommandOK'
  BY <1>2, <1>5, StepEnds
<1>7. HostTypeOK'
  BY DEF IsRunning, PreparationInv, EnsureFstab, HostTypeOK
<1> QED
  BY <1>6, <1>7 DEF PreparationInv

LEMMA ChownKeeps ==
    ASSUME NEW l, NEW n, IsRunning(l, n), ChownOwnedPaths
    PROVE  PreparationInv'
<1>1. /\ n \in Nat \ {0} /\ Step = StoragePlan(l)[n] /\ EffectsUpTo(l, n - 1) /\ IsCommand(cmd)
      /\ Step.op = "chown"
  BY RunningFacts DEF ChownOwnedPaths, AtPhase
<1>2. EffectsUpTo(l, n - 1)'
  BY <1>1, EffectsStay DEF ChownOwnedPaths, storageHostVars
<1>3. HasEffect(l, StoragePlan(l)[n])'
  BY <1>1 DEF HasEffect
<1>4. EffectsUpTo(l, n)'
  BY <1>1, <1>2, <1>3, EffectsExtend
<1>5. CommandOK'
  BY <1>1, <1>4, SameWorkAgain, StepEnds DEF ChownOwnedPaths
<1>6. HostTypeOK'
  BY DEF IsRunning, PreparationInv, ChownOwnedPaths, storageHostVars, HostTypeOK
<1> QED
  BY <1>5, <1>6 DEF PreparationInv

-----------------------------------------------------------------------------
(* The stages of a slot step.                                              *)

LEMMA CurrentSlot ==
    ASSUME NEW l, NEW n, IsRunning(l, n), Step.op = "slot"
    PROVE  /\ Step.vol \in Phases /\ Step.slot \in SlotIds
           /\ Step.slot[1] \in Nat /\ Step.slot[2] \in Nat
           /\ Step.project \in Projects /\ Step.project \in Nat
           /\ l.inodesPerMb \in Nat
           /\ \E p \in Phases, k \in DOMAIN l.classes, i \in 1..l.perClass : IsSlotStep(l, Step, p, k, i)
<1>1. l \in Layouts /\ Step = StoragePlan(l)[n] /\ IsPlanStep(l, StoragePlan(l), n)
  <2>1. n \in 1..n
    BY RunningFacts
  <2> QED
    BY <2>1, RunningFacts
<1>2. PICK p \in Phases, k \in DOMAIN l.classes, i \in 1..l.perClass : IsSlotStep(l, Step, p, k, i)
  BY <1>1, PlanStepKinds
<1> QED
  BY <1>1, <1>2, SlotStepFacts, LayoutFacts

\* A slot step that came before the current one: the same slot of a phase is the
\* same project of its filesystem.
ComesBefore(st) ==
    /\ st.vol \in Phases /\ st.slot \in SlotIds /\ st.project \in Projects
    /\ st.slot = Step.slot <=> st.project = Step.project

LEMMA EarlierSlotsKeep ==
    ASSUME NEW l, NEW n, IsRunning(l, n), Step.op = "slot",
           UNCHANGED <<image, dirs, mounted>>,
           \A st : ComesBefore(st) /\ SlotReached(l, st, 5) => SlotReached(l, st, 5)'
    PROVE  EffectsUpTo(l, n - 1)'
<1>1. l \in Layouts /\ n \in Nat \ {0} /\ EffectsUpTo(l, n - 1)
  BY RunningFacts
<1>2. ASSUME NEW m \in 1..(n - 1)
      PROVE  HasEffect(l, StoragePlan(l)[m])'
  <2> DEFINE st == StoragePlan(l)[m]
  <2>1. HasEffect(l, st)
    BY <1>1 DEF EffectsUpTo
  <2>2. CASE st.op # "slot"
    BY <2>1, <2>2 DEF HasEffect
  <2>3. CASE st.op = "slot"
    <3>1. IsPlanStep(l, StoragePlan(l), m)
      <4>1. m \in 1..n
        BY <1>1
      <4> QED
        BY <4>1, RunningFacts
    <3>2. PICK p \in Phases, k \in DOMAIN l.classes, i \in 1..l.perClass : IsSlotStep(l, st, p, k, i)
      BY <2>3, <3>1, PlanStepKinds
    <3>3. PICK q \in Phases, h \in DOMAIN l.classes, j \in 1..l.perClass : IsSlotStep(l, Step, q, h, j)
      BY CurrentSlot
    <3> HIDE DEF st
    <3>4. st.slot = Step.slot <=> st.project = Step.project
      BY <1>1, <3>2, <3>3, SlotStepsAgree
    <3>5. st.vol \in Phases /\ st.slot \in SlotIds /\ st.project \in Projects
      BY <1>1, <3>2, SlotStepFacts
    <3>6. SlotReached(l, st, 5)
      BY <2>1, <2>3 DEF HasEffect
    <3>7. ComesBefore(st)
      BY <3>4, <3>5 DEF ComesBefore
    <3>8. SlotReached(l, st, 5)'
      BY <3>6, <3>7
    <3> QED
      BY <2>3, <3>8 DEF HasEffect, st
  <2> QED
    BY <2>2, <2>3
<1> QED
  BY <1>2 DEF EffectsUpTo

\* One slot is written, and the others stay.
LEMMA SlotWritten ==
    ASSUME HostTypeOK, NEW p \in Phases, NEW s \in SlotIds, NEW rec \in SlotType,
           slots' = [slots EXCEPT ![p][s] = rec]
    PROVE  /\ slots'[p][s] = rec
           /\ \A q \in Phases, t \in SlotIds :
                q # p \/ t # s => slots'[q][t] = slots[q][t]
           /\ slots' \in [Phases -> [SlotIds -> SlotType]]
<1>1. slots \in [Phases -> [SlotIds -> SlotType]]
  BY DEF HostTypeOK
<1> HIDE DEF HostTypeOK
<1>2. slots' \in [Phases -> [SlotIds -> SlotType]]
  BY <1>1
<1>3. slots'[p][s] = rec
  BY <1>1
<1>4. \A q \in Phases, t \in SlotIds : q # p \/ t # s => slots'[q][t] = slots[q][t]
  BY <1>1
<1> QED
  BY <1>2, <1>3, <1>4

LEMMA EnsureSlotKeeps ==
    ASSUME NEW l, NEW n, IsRunning(l, n), EnsureSlot
    PROVE  PreparationInv'
<1> DEFINE c == Recorded(cmd, "slot", <<Step.vol, Step.slot>>, SlotNow.there)
           rec == [SlotNow EXCEPT !.there = TRUE]
<1>1. /\ Step = StoragePlan(l)[n] /\ IsCommand(cmd) /\ Step.op = "slot" /\ cmd.stage = 1
  BY RunningFacts DEF EnsureSlot, AtPhase
<1>2. /\ HostTypeOK /\ Step.vol \in Phases /\ Step.slot \in SlotIds
      /\ SlotNow \in SlotType /\ rec \in SlotType
      /\ rec.there /\ rec.project = SlotNow.project /\ rec.meta = SlotNow.meta
  <2>1. HostTypeOK /\ Step.vol \in Phases /\ Step.slot \in SlotIds
    BY <1>1, CurrentSlot DEF IsRunning, PreparationInv
  <2>2. SlotNow \in SlotType
    BY <2>1 DEF HostTypeOK, SlotNow
  <2> QED
    BY <2>1, <2>2 DEF SlotType
<1>3. /\ slots' = [slots EXCEPT ![Step.vol][Step.slot] = rec]
      /\ UNCHANGED <<image, dirs, mounted, limits>>
  BY DEF EnsureSlot, SlotNow
<1> HIDE DEF rec
<1>4. /\ slots'[Step.vol][Step.slot] = rec
      /\ \A p \in Phases, s \in SlotIds :
           p # Step.vol \/ s # Step.slot => slots'[p][s] = slots[p][s]
      /\ slots' \in [Phases -> [SlotIds -> SlotType]]
  BY <1>2, <1>3, SlotWritten
<1>5. \A st : ComesBefore(st) /\ SlotReached(l, st, 5) => SlotReached(l, st, 5)'
  <2> SUFFICES ASSUME NEW st, ComesBefore(st), SlotReached(l, st, 5)
               PROVE  SlotReached(l, st, 5)'
    OBVIOUS
  <2>1. /\ slots'[st.vol][st.slot].there
        /\ slots'[st.vol][st.slot].project = slots[st.vol][st.slot].project
        /\ slots'[st.vol][st.slot].meta = slots[st.vol][st.slot].meta
    <3>1. CASE st.vol = Step.vol /\ st.slot = Step.slot
      BY <1>2, <1>4, <3>1 DEF SlotNow
    <3>2. CASE ~(st.vol = Step.vol /\ st.slot = Step.slot)
      BY <1>4, <3>2 DEF ComesBefore, SlotReached
    <3> QED
      BY <3>1, <3>2
  <2> QED
    BY <1>3, <2>1 DEF SlotReached
<1>6. EffectsUpTo(l, n - 1)'
  BY <1>1, <1>3, <1>5, EarlierSlotsKeep
<1>7. StageReached(l, n, 2)'
  BY <1>1, <1>2, <1>4 DEF StageReached, SlotReached
<1>8. SameWork(c, cmd) /\ cmd' = Within(c) /\ 2 \in 2..4 /\ 2 = cmd.stage + 1
  BY <1>1, RecordedFields DEF EnsureSlot
<1>9. CommandOK'
  BY <1>6, <1>7, <1>8, StageEnds
<1> QED
  BY <1>2, <1>3, <1>4, <1>9 DEF HostTypeOK, PreparationInv

LEMMA AssignKeeps ==
    ASSUME NEW l, NEW n, IsRunning(l, n), AssignProject
    PROVE  PreparationInv'
<1> DEFINE rec == [SlotNow EXCEPT !.project = Step.project]
<1>1. /\ Step = StoragePlan(l)[n] /\ IsCommand(cmd) /\ Step.op = "slot" /\ cmd.stage = 2
      /\ StageReached(l, n, 2)
  BY RunningFacts DEF AssignProject, AtPhase
<1>2. /\ HostTypeOK /\ Step.vol \in Phases /\ Step.slot \in SlotIds
      /\ SlotNow \in SlotType /\ rec \in SlotType
      /\ rec.project = Step.project /\ rec.there = SlotNow.there /\ rec.meta = SlotNow.meta
  <2>1. HostTypeOK /\ Step.vol \in Phases /\ Step.slot \in SlotIds /\ Step.project \in Nat
    BY <1>1, CurrentSlot DEF IsRunning, PreparationInv
  <2>2. SlotNow \in SlotType
    BY <2>1 DEF HostTypeOK, SlotNow
  <2> QED
    BY <2>1, <2>2 DEF SlotType
<1>3. /\ slots' = [slots EXCEPT ![Step.vol][Step.slot] = rec]
      /\ UNCHANGED <<image, dirs, mounted, limits>>
  BY DEF AssignProject, SlotNow
<1> HIDE DEF rec
<1>4. /\ slots'[Step.vol][Step.slot] = rec
      /\ \A p \in Phases, s \in SlotIds :
           p # Step.vol \/ s # Step.slot => slots'[p][s] = slots[p][s]
      /\ slots' \in [Phases -> [SlotIds -> SlotType]]
  BY <1>2, <1>3, SlotWritten
<1>5. \A st : ComesBefore(st) /\ SlotReached(l, st, 5) => SlotReached(l, st, 5)'
  <2> SUFFICES ASSUME NEW st, ComesBefore(st), SlotReached(l, st, 5)
               PROVE  SlotReached(l, st, 5)'
    OBVIOUS
  <2>1. /\ slots'[st.vol][st.slot].there
        /\ slots'[st.vol][st.slot].project = st.project
        /\ slots'[st.vol][st.slot].meta = slots[st.vol][st.slot].meta
    <3>1. CASE st.vol = Step.vol /\ st.slot = Step.slot
      <4>1. st.project = Step.project
        BY <3>1 DEF ComesBefore
      <4>2. SlotNow.there
        BY <3>1 DEF SlotReached, SlotNow
      <4> QED
        BY <1>2, <1>4, <3>1, <4>1, <4>2 DEF SlotNow
    <3>2. CASE ~(st.vol = Step.vol /\ st.slot = Step.slot)
      BY <1>4, <3>2 DEF ComesBefore, SlotReached
    <3> QED
      BY <3>1, <3>2
  <2> QED
    BY <1>3, <2>1 DEF SlotReached
<1>6. EffectsUpTo(l, n - 1)'
  BY <1>1, <1>3, <1>5, EarlierSlotsKeep
<1>7. SlotNow.there
  BY <1>1 DEF StageReached, SlotReached, SlotNow
<1>8. StageReached(l, n, 3)'
  <2> DEFINE st == StoragePlan(l)[n]
  <2>1. /\ st.op = "slot" /\ slots'[st.vol][st.slot].there
        /\ slots'[st.vol][st.slot].project = st.project
    BY <1>1, <1>2, <1>4, <1>7
  <2> HIDE DEF st
  <2>2. SlotReached(l, st, 3)'
    BY <2>1 DEF SlotReached
  <2> QED
    BY <2>1, <2>2 DEF StageReached, st
<1>9. SameWork(cmd, cmd) /\ cmd' = Within(cmd) /\ 3 \in 2..4 /\ 3 = cmd.stage + 1
  BY <1>1, SameWorkAgain DEF AssignProject
<1>10. CommandOK'
  BY <1>6, <1>8, <1>9, StageEnds
<1> QED
  BY <1>2, <1>3, <1>4, <1>10 DEF HostTypeOK, PreparationInv

LEMMA LimitsKeep ==
    ASSUME NEW l, NEW n, IsRunning(l, n), ApplyLimits
    PROVE  PreparationInv'
<1> DEFINE limit == [mb |-> Step.slot[1], inodes |-> Step.slot[1] * l.inodesPerMb]
<1>1. /\ Step = StoragePlan(l)[n] /\ IsCommand(cmd) /\ Step.op = "slot" /\ cmd.stage = 3
      /\ StageReached(l, n, 3) /\ l = cmd.layout
  BY RunningFacts DEF ApplyLimits, AtPhase, IsRunning
<1>2. /\ HostTypeOK /\ Step.vol \in Phases /\ Step.slot \in SlotIds /\ Step.project \in Projects
      /\ limit \in LimitType
  <2>1. \A a, b \in Nat : a * b \in Nat
    OBVIOUS
  <2> QED
    BY <1>1, <2>1, CurrentSlot DEF IsRunning, PreparationInv, LimitType
<1>3. /\ limits' = [limits EXCEPT ![Step.vol][Step.project] = limit]
      /\ UNCHANGED <<image, dirs, mounted, slots>>
  BY <1>1 DEF ApplyLimits
<1> HIDE DEF limit
<1>4. /\ limits'[Step.vol][Step.project] = limit
      /\ \A p \in Phases, i \in Projects :
           p # Step.vol \/ i # Step.project => limits'[p][i] = limits[p][i]
      /\ limits' \in [Phases -> [Projects -> LimitType]]
  BY <1>2, <1>3 DEF HostTypeOK
<1>5. \A st : ComesBefore(st) /\ SlotReached(l, st, 5) => SlotReached(l, st, 5)'
  <2> SUFFICES ASSUME NEW st, ComesBefore(st), SlotReached(l, st, 5)
               PROVE  SlotReached(l, st, 5)'
    OBVIOUS
  <2>1. CASE st.vol = Step.vol /\ st.project = Step.project
    <3>1. st.slot = Step.slot
      BY <2>1 DEF ComesBefore
    <3>2. limits'[st.vol][st.project] = [mb |-> st.slot[1], inodes |-> st.slot[1] * l.inodesPerMb]
      BY <1>4, <2>1, <3>1 DEF limit
    <3> QED
      BY <1>3, <3>2 DEF SlotReached
  <2>2. CASE ~(st.vol = Step.vol /\ st.project = Step.project)
    <3>1. limits'[st.vol][st.project] = limits[st.vol][st.project]
      BY <1>4, <2>2 DEF ComesBefore
    <3> QED
      BY <1>3, <3>1 DEF SlotReached
  <2> QED
    BY <2>1, <2>2
<1>6. EffectsUpTo(l, n - 1)'
  BY <1>1, <1>3, <1>5, EarlierSlotsKeep
<1>7. slots[Step.vol][Step.slot].there /\ slots[Step.vol][Step.slot].project = Step.project
  BY <1>1 DEF StageReached, SlotReached
<1>8. StageReached(l, n, 4)'
  <2> DEFINE st == StoragePlan(l)[n]
  <2>1. /\ st.op = "slot" /\ slots[st.vol][st.slot].there /\ slots[st.vol][st.slot].project = st.project
        /\ limits'[st.vol][st.project] = [mb |-> st.slot[1], inodes |-> st.slot[1] * l.inodesPerMb]
    BY <1>1, <1>4, <1>7 DEF limit
  <2> HIDE DEF st
  <2>2. SlotReached(l, st, 4)'
    BY <1>3, <2>1 DEF SlotReached
  <2> QED
    BY <2>1, <2>2 DEF StageReached, st
<1>9. SameWork(cmd, cmd) /\ cmd' = Within(cmd) /\ 4 \in 2..4 /\ 4 = cmd.stage + 1
  BY <1>1, SameWorkAgain DEF ApplyLimits
<1>10. CommandOK'
  BY <1>6, <1>8, <1>9, StageEnds
<1> QED
  BY <1>2, <1>3, <1>4, <1>10 DEF HostTypeOK, PreparationInv

LEMMA MetadataKeeps ==
    ASSUME NEW l, NEW n, IsRunning(l, n), WriteMetadata
    PROVE  PreparationInv'
<1> DEFINE meta == SlotMetadata(l, Step.slot, Step.project)
           rec == [SlotNow EXCEPT !.meta = meta]
           c == IF SlotNow.meta = NoMeta THEN cmd
                ELSE [cmd EXCEPT !.metaOld[Step.vol] = @ \cup {<<Step.slot, SlotNow.meta>>}]
<1>1. /\ Step = StoragePlan(l)[n] /\ IsCommand(cmd) /\ Step.op = "slot" /\ cmd.stage = 4
      /\ StageReached(l, n, 4) /\ l = cmd.layout /\ n \in Nat \ {0}
  BY RunningFacts DEF WriteMetadata, AtPhase, IsRunning
<1>2. HostTypeOK /\ Step.vol \in Phases /\ Step.slot \in SlotIds /\ meta \in MetaType
  <2>1. \A a, b \in Nat : a * b \in Nat
    OBVIOUS
  <2> QED
    BY <1>1, <2>1, CurrentSlot DEF IsRunning, PreparationInv, SlotMetadata, MetaType
<1>3. /\ slots' = [slots EXCEPT ![Step.vol][Step.slot] = rec]
      /\ UNCHANGED <<image, dirs, mounted, limits>>
  BY <1>1 DEF WriteMetadata, SlotNow
<1>14. cmd' = NextPhase(c)
  BY DEF WriteMetadata
<1> HIDE DEF meta
<1>15. SlotNow \in SlotType
  BY <1>2 DEF HostTypeOK, SlotNow
<1>16. /\ rec \in SlotType
       /\ rec.meta = meta /\ rec.there = SlotNow.there /\ rec.project = SlotNow.project
  BY <1>2, <1>15 DEF SlotType
<1> HIDE DEF rec
<1>4. /\ slots'[Step.vol][Step.slot] = rec
      /\ \A p \in Phases, s \in SlotIds :
           p # Step.vol \/ s # Step.slot => slots'[p][s] = slots[p][s]
      /\ slots' \in [Phases -> [SlotIds -> SlotType]]
  BY <1>2, <1>3, <1>16, SlotWritten
<1>5. \A st : ComesBefore(st) /\ SlotReached(l, st, 5) => SlotReached(l, st, 5)'
  <2> SUFFICES ASSUME NEW st, ComesBefore(st), SlotReached(l, st, 5)
               PROVE  SlotReached(l, st, 5)'
    OBVIOUS
  <2>1. /\ slots'[st.vol][st.slot].there
        /\ slots'[st.vol][st.slot].project = st.project
        /\ slots'[st.vol][st.slot].meta = SlotMetadata(l, st.slot, st.project)
    <3>1. CASE st.vol = Step.vol /\ st.slot = Step.slot
      <4>1. st.project = Step.project
        BY <3>1 DEF ComesBefore
      <4>2. SlotNow.there /\ SlotNow.project = st.project
        BY <3>1 DEF SlotReached, SlotNow
      <4> QED
        BY <1>4, <1>16, <3>1, <4>1, <4>2 DEF meta
    <3>2. CASE ~(st.vol = Step.vol /\ st.slot = Step.slot)
      BY <1>4, <3>2 DEF ComesBefore, SlotReached
    <3> QED
      BY <3>1, <3>2
  <2> QED
    BY <1>3, <2>1 DEF SlotReached
<1>6. EffectsUpTo(l, n - 1)'
  BY <1>1, <1>3, <1>5, EarlierSlotsKeep
<1>7. /\ SlotNow.there /\ SlotNow.project = Step.project
      /\ limits[Step.vol][Step.project] =
           [mb |-> Step.slot[1], inodes |-> Step.slot[1] * l.inodesPerMb]
  <2>1. SlotReached(l, Step, 4)
    BY <1>1 DEF StageReached
  <2> QED
    BY <2>1 DEF SlotReached, SlotNow
<1>8. HasEffect(l, StoragePlan(l)[n])'
  <2> DEFINE st == StoragePlan(l)[n]
  <2>1. /\ st.op = "slot" /\ slots'[st.vol][st.slot].there
        /\ slots'[st.vol][st.slot].project = st.project
        /\ slots'[st.vol][st.slot].meta = SlotMetadata(l, st.slot, st.project)
        /\ limits[st.vol][st.project] = [mb |-> st.slot[1], inodes |-> st.slot[1] * l.inodesPerMb]
    BY <1>1, <1>4, <1>7, <1>16 DEF meta
  <2> HIDE DEF st
  <2>2. SlotReached(l, st, 5)'
    BY <1>3, <2>1 DEF SlotReached
  <2> QED
    BY <2>1, <2>2 DEF HasEffect, st
<1>9. EffectsUpTo(l, n)'
  BY <1>1, <1>6, <1>8, EffectsExtend
<1>10. SameWork(c, cmd)
  <2>1. <<Step.slot, SlotNow.meta>> \in SlotIds \X MetaType
    BY <1>2, <1>15 DEF SlotType
  <2> QED
    BY <1>1, <1>2, <2>1 DEF SameWork, IsCommand, CommandFields
<1> HIDE DEF c
<1>11. CommandOK'
  BY <1>9, <1>10, <1>14, StepEnds
<1> QED
  BY <1>2, <1>3, <1>4, <1>11 DEF HostTypeOK, PreparationInv

-----------------------------------------------------------------------------
(* Start, failure, rollback, and the host around the command.              *)

LEMMA EmptySlots ==
    /\ NoSlots \in [SlotIds -> SlotType] /\ NoLimits \in [Projects -> LimitType]
    /\ NoSlot \in SlotType
  BY DEF NoSlots, NoSlot, NoMeta, NoLimits, NoLimit, SlotType, MetaType, LimitType

LEMMA InvocationIsCommand ==
    ASSUME NEW l \in Layouts
    PROVE  IsCommand(Invocation(l))
  BY DEF Invocation, IsCommand, CommandFields

LEMMA StartKeeps ==
    ASSUME PreparationInv, NEW l \in Layouts, StartPreparation(l)
    PROVE  PreparationInv'
<1>1. HostTypeOK'
  BY DEF PreparationInv, HostTypeOK, StartPreparation, storageHostVars
<1>2. IsCommand(cmd') /\ cmd'.state = "running" /\ cmd'.layout = l /\ cmd'.at = 1 /\ cmd'.stage = 1
  BY InvocationIsCommand DEF StartPreparation, Invocation
<1>3. 1 \in DOMAIN StoragePlan(l) /\ StoragePlan(l)[1].op = "dir"
  BY StoragePlanShape DEF Do
<1>4. EffectsUpTo(l, 1 - 1)'
  BY DEF EffectsUpTo
<1>5. StageReached(l, 1, 1)'
  BY <1>3 DEF StageReached
<1>6. CommandOK'
  BY <1>2, <1>3, <1>4, <1>5 DEF CommandOK
<1> QED
  BY <1>1, <1>6 DEF PreparationInv

\* A command that stops, in whatever way, claims nothing of the host.
LEMMA StoppedCommand ==
    ASSUME PreparationInv, NEW state \in {"rollback", "failed", "killed", "idle"},
           cmd' = [cmd EXCEPT !.state = state]
    PROVE  CommandOK'
<1>1. IsCommand(cmd)
  BY DEF PreparationInv, CommandOK
<1>2. IsCommand(cmd') /\ cmd'.state = state
  BY <1>1 DEF IsCommand, CommandFields
<1> QED
  BY <1>2 DEF CommandOK

LEMMA FailureKeeps ==
    ASSUME PreparationInv, PhaseFails \/ PreparationCrash
    PROVE  PreparationInv'
<1>1. HostTypeOK'
  BY DEF PreparationInv, HostTypeOK, PhaseFails, PreparationCrash, storageHostVars
<1>2. CommandOK'
  BY StoppedCommand DEF PhaseFails, PreparationCrash
<1> QED
  BY <1>1, <1>2 DEF PreparationInv

LEMMA StopKeeps ==
    ASSUME PreparationInv, StopAfterTruncate \/ StopAfterMount
    PROVE  PreparationInv'
<1>1. HostTypeOK'
  <2>1. CASE StopAfterTruncate
    BY <2>1 DEF PreparationInv, HostTypeOK, StopAfterTruncate
  <2>2. CASE StopAfterMount
    BY <2>2 DEF PreparationInv, HostTypeOK, StopAfterMount
  <2> QED
    BY <2>1, <2>2
<1>2. CommandOK'
  BY StoppedCommand DEF StopAfterTruncate, StopAfterMount
<1> QED
  BY <1>1, <1>2 DEF PreparationInv

\* A rollback puts back metadata it has saved, and so leaves slots behind it.
LEMMA RollbackKeeps ==
    ASSUME PreparationInv, RollbackRun
    PROVE  PreparationInv'
<1>1. HostTypeOK /\ IsCommand(cmd)
  BY DEF PreparationInv, CommandOK
<1>2. PICK stuck \in SUBSET cmd.mnts : Rollback(stuck)
  BY DEF RollbackRun
<1> DEFINE now == mounted \ (cmd.mnts \ stuck)
           noState == <<"dir", "state">> \in cmd.made /\ now = {}
           goneImg == {v \in Volumes : <<"image", v>> \in cmd.made \/ noState}
           goneDir == {v \in Volumes : \/ <<"dir", v>> \in cmd.made
                                       \/ <<"dir", "state">> \in cmd.made}
           wiped == {v \in now : v \in goneDir}
           Old(p, s) == {m \in cmd.metaOld[p] : m[1] = s}
           Restored(p, s) ==
             IF p \in wiped \/ (<<"slot", <<p, s>>>> \in cmd.made /\ p \in now)
             THEN NoSlot
             ELSE IF p \in now /\ Old(p, s) # {}
                  THEN [slots[p][s] EXCEPT !.meta = (CHOOSE m \in Old(p, s) : TRUE)[2]]
                  ELSE slots[p][s]
           empty(p) == p \in goneImg /\ p \notin now
<1>3. /\ image' = [v \in Volumes |-> IF v \in goneImg THEN "none" ELSE image[v]]
      /\ slots' = [p \in Phases |-> IF empty(p) THEN NoSlots
                                    ELSE [s \in SlotIds |-> Restored(p, s)]]
      /\ limits' = [p \in Phases |-> IF empty(p) THEN NoLimits ELSE limits[p]]
  BY <1>2 DEF Rollback
<1> HIDE DEF goneImg, goneDir, wiped, empty, now
<1>4. ASSUME NEW p \in Phases, NEW s \in SlotIds
      PROVE  Restored(p, s) \in SlotType
  <2>1. slots[p][s] \in SlotType
    BY <1>1 DEF HostTypeOK
  <2>2. ASSUME Old(p, s) # {}
        PROVE  [slots[p][s] EXCEPT !.meta = (CHOOSE m \in Old(p, s) : TRUE)[2]] \in SlotType
    <3> DEFINE m == CHOOSE m \in Old(p, s) : TRUE
    <3>1. m \in cmd.metaOld[p]
      BY <2>2
    <3>2. m \in SlotIds \X MetaType
      BY <1>1, <3>1 DEF IsCommand
    <3>3. m[2] \in MetaType
      BY <3>2
    <3> HIDE DEF m
    <3>4. [slots[p][s] EXCEPT !.meta = m[2]] \in SlotType
      BY <2>1, <3>3 DEF SlotType
    <3> QED
      BY <3>4 DEF m
  <2> HIDE DEF Old
  <2> QED
    BY <2>1, <2>2, EmptySlots
<1> HIDE DEF Restored
<1>5. HostTypeOK'
  <2>1. image' \in [Volumes -> {"none", "raw", "xfs"}]
    BY <1>1, <1>3 DEF HostTypeOK
  <2>2. slots' \in [Phases -> [SlotIds -> SlotType]]
    <3>1. ASSUME NEW p \in Phases
          PROVE  [s \in SlotIds |-> Restored(p, s)] \in [SlotIds -> SlotType]
      BY <1>4
    <3> QED
      BY <1>3, <3>1, EmptySlots
  <2>3. limits' \in [Phases -> [Projects -> LimitType]]
    BY <1>1, <1>3, EmptySlots DEF HostTypeOK
  <2> QED
    BY <2>1, <2>2, <2>3 DEF HostTypeOK
<1>6. CommandOK'
  BY StoppedCommand DEF RollbackRun
<1> QED
  BY <1>5, <1>6 DEF PreparationInv

LEMMA DetachKeeps ==
    ASSUME PreparationInv, NEW now, Detach(now), UNCHANGED image
    PROVE  PreparationInv'
<1>1. HostTypeOK'
  BY EmptySlots DEF PreparationInv, HostTypeOK, Detach
<1>2. CommandOK'
  BY StoppedCommand DEF Detach
<1> QED
  BY <1>1, <1>2 DEF PreparationInv

\* Nothing the invariant speaks of changes.
LEMMA PreparationIdle ==
    ASSUME PreparationInv, UNCHANGED <<image, dirs, mounted, slots, limits, cmd>>
    PROVE  PreparationInv'
<1>1. HostTypeOK'
  BY DEF PreparationInv, HostTypeOK
<1>2. CommandOK'
  <2>1. ASSUME NEW l, NEW st, NEW stage, SlotReached(l, st, stage)
        PROVE  SlotReached(l, st, stage)'
    BY <2>1 DEF SlotReached
  <2>2. ASSUME NEW l, NEW n, EffectsUpTo(l, n)
        PROVE  EffectsUpTo(l, n)'
    BY <2>2, EffectsStay
  <2>3. ASSUME NEW l, NEW n, NEW stage, StageReached(l, n, stage)
        PROVE  StageReached(l, n, stage)'
    BY <2>1, <2>3 DEF StageReached
  <2> QED
    BY <2>2, <2>3 DEF PreparationInv, CommandOK
<1> QED
  BY <1>1, <1>2 DEF PreparationInv

LEMMA PreparationStart ==
    ASSUME StorageInit
    PROVE  PreparationInv
<1>1. PICK l \in Layouts : cmd = [Invocation(l) EXCEPT !.state = "idle"]
  BY DEF StorageInit
<1>2. IsCommand(cmd) /\ cmd.state = "idle"
  BY <1>1, InvocationIsCommand DEF IsCommand, CommandFields
<1>3. HostTypeOK
  BY EmptySlots DEF StorageInit, HostTypeOK
<1> QED
  BY <1>2, <1>3 DEF PreparationInv, CommandOK

LEMMA PreparationStep ==
    ASSUME PreparationInv, [StorageNext]_storageVars
    PROVE  PreparationInv'
<1>1. ASSUME Preparing,
             \/ EnsureDirectory \/ EnsureImage \/ FormatImage \/ EnsureMount \/ MountVolume
             \/ EnsureFstab \/ EnsureSlot \/ AssignProject \/ ApplyLimits \/ WriteMetadata
             \/ ChownOwnedPaths
      PROVE  PreparationInv'
  <2>1. IsRunning(cmd.layout, cmd.at)
    BY <1>1 DEF IsRunning
  <2> QED
    BY <1>1, <2>1, DirectoryKeeps, ImageKeeps, FormatKeeps, MountKeeps, MountVolumeKeeps,
       FstabKeeps, EnsureSlotKeeps, AssignKeeps, LimitsKeep, MetadataKeeps, ChownKeeps
<1>2. ASSUME NEW l \in Layouts, StartPreparation(l)
      PROVE  PreparationInv'
  BY <1>2, StartKeeps
<1>3. CASE PhaseFails \/ PreparationCrash
  BY <1>3, FailureKeeps
<1>4. CASE StopAfterTruncate \/ StopAfterMount
  BY <1>4, StopKeeps
<1>5. CASE RollbackRun
  BY <1>5, RollbackKeeps
<1>6. ASSUME NEW l, NEW mode, NEW privileged, NEW wanted, StoreData(l, mode, privileged, wanted)
      PROVE  PreparationInv'
  BY <1>6, PreparationIdle DEF StoreData
<1>7. CASE Reboot
  BY <1>7, DetachKeeps DEF Reboot
<1>8. CASE MoveMountPoints
  BY <1>8, DetachKeeps DEF MoveMountPoints
<1>9. CASE UNCHANGED storageVars
  BY <1>9, PreparationIdle DEF storageVars
<1>10. ASSUME \/ EnsureDirectory \/ EnsureImage \/ FormatImage \/ EnsureMount \/ MountVolume
              \/ EnsureFstab \/ EnsureSlot \/ AssignProject \/ ApplyLimits \/ WriteMetadata
              \/ ChownOwnedPaths
       PROVE  Preparing
  BY <1>10 DEF EnsureDirectory, EnsureImage, FormatImage, EnsureMount, MountVolume, EnsureFstab,
       EnsureSlot, AssignProject, ApplyLimits, WriteMetadata, ChownOwnedPaths, AtPhase
<1> QED
  BY <1>1, <1>2, <1>3, <1>4, <1>5, <1>6, <1>7, <1>8, <1>9, <1>10 DEF StorageNext

LEMMA PreparationInvariant == StorageSpec => []PreparationInv
<1>1. StorageInit => PreparationInv
  BY PreparationStart
<1>2. PreparationInv /\ [StorageNext]_storageVars => PreparationInv'
  BY PreparationStep
<1> QED
  BY <1>1, <1>2, PTL DEF StorageSpec

\* The slot step of a completed plan, as it left slot s of phase p.
IsPrepared(l, p, s, st) ==
    /\ \E k \in DOMAIN l.classes, i \in 1..l.perClass : IsSlotStep(l, st, p, k, i)
    /\ st.slot = s /\ SlotReached(l, st, 5)

LEMMA CompletedPlan ==
    ASSUME PreparationInv, cmd.state = "done"
    PROVE  /\ "state" \in dirs
           /\ \A v \in Volumes : v \in dirs /\ v \in mounted
           /\ \A p \in Phases : \A s \in SlotsOf(cmd.layout) : \E st : IsPrepared(cmd.layout, p, s, st)
<1>1. PICK l \in Layouts : l = cmd.layout
  BY DEF PreparationInv, CommandOK, IsCommand
<1> DEFINE P == StoragePlan(l)
<1>2. /\ P \in Seq(StepType) /\ 1 \in DOMAIN P /\ P[1] = Do("dir", "state")
      /\ \A v \in Volumes : \E n \in DOMAIN P : P[n] = Do("mount", v)
      /\ \A p \in Phases, k \in DOMAIN l.classes, i \in 1..l.perClass :
            \E n \in DOMAIN P : IsSlotStep(l, P[n], p, k, i)
  BY StoragePlanShape
<1>3. EffectsUpTo(l, Len(P))
  BY <1>1 DEF PreparationInv, CommandOK
<1>4. \A n \in DOMAIN P : HasEffect(l, P[n])
  <2>1. DOMAIN P = 1..Len(P)
    BY <1>2
  <2> QED
    BY <1>3, <2>1 DEF EffectsUpTo
<1> HIDE DEF P
<1>5. "state" \in dirs
  BY <1>2, <1>4 DEF HasEffect, Do
<1>6. ASSUME NEW v \in Volumes
      PROVE  v \in dirs /\ v \in mounted
  <2>1. PICK n \in DOMAIN P : P[n] = Do("mount", v)
    BY <1>2
  <2> QED
    BY <1>4, <2>1 DEF HasEffect, Do
<1>7. ASSUME NEW p \in Phases, NEW s \in SlotsOf(l)
      PROVE  \E st : IsPrepared(l, p, s, st)
  <2>1. PICK k \in DOMAIN l.classes, i \in 1..l.perClass : s = <<l.classes[k], i>>
    BY DEF SlotsOf, Range
  <2>2. PICK n \in DOMAIN P : IsSlotStep(l, P[n], p, k, i)
    BY <1>2
  <2>3. P[n].op = "slot" /\ P[n].slot = s
    BY <2>1, <2>2 DEF IsSlotStep
  <2>4. SlotReached(l, P[n], 5)
    BY <1>4, <2>3 DEF HasEffect
  <2> QED
    BY <2>2, <2>3, <2>4 DEF IsPrepared
<1> QED
  BY <1>1, <1>5, <1>6, <1>7

\* What the profile check reads of a prepared slot.
LEMMA PreparedSlot ==
    ASSUME NEW l \in Layouts, NEW p \in Phases, NEW s, NEW st, IsPrepared(l, p, s, st)
    PROVE  /\ slots[p][s].there /\ MetadataMatches(l, p, s) /\ QuotaMatches(l, p, s, TRUE)
           /\ Bounded(p, s) /\ slots[p][s].project = st.project
<1>1. PICK k \in DOMAIN l.classes, i \in 1..l.perClass : IsSlotStep(l, st, p, k, i)
  BY DEF IsPrepared
<1>2. st.vol = p /\ st.slot = s /\ st.project # 0
  BY <1>1, SlotStepFacts DEF IsPrepared
<1>3. /\ slots[p][s].there /\ slots[p][s].project = st.project
      /\ slots[p][s].meta = SlotMetadata(l, s, st.project)
      /\ limits[p][st.project] = [mb |-> s[1], inodes |-> s[1] * l.inodesPerMb]
  BY <1>2 DEF IsPrepared, SlotReached
<1>4. /\ slots[p][s].meta.class = s[1] /\ slots[p][s].meta.index = s[2]
      /\ slots[p][s].meta.project = st.project
      /\ slots[p][s].meta.inodesPerMb = l.inodesPerMb
      /\ slots[p][s].meta.inodes = s[1] * l.inodesPerMb
  BY <1>3 DEF SlotMetadata
<1>5. LimitOf(p, st.project) = limits[p][st.project]
  BY <1>2 DEF LimitOf
<1> QED
  BY <1>2, <1>3, <1>4, <1>5 DEF MetadataMatches, QuotaMatches, Bounded

LEMMA PreparedSlotsDiffer ==
    ASSUME NEW l \in Layouts, NEW p \in Phases, NEW s, NEW t, s # t,
           NEW st, IsPrepared(l, p, s, st), NEW su, IsPrepared(l, p, t, su)
    PROVE  st.project # su.project
<1>1. PICK k \in DOMAIN l.classes, i \in 1..l.perClass : IsSlotStep(l, st, p, k, i)
  BY DEF IsPrepared
<1>2. PICK m \in DOMAIN l.classes, j \in 1..l.perClass : IsSlotStep(l, su, p, m, j)
  BY DEF IsPrepared
<1>3. st.slot = su.slot <=> st.project = su.project
  BY <1>1, <1>2, SlotStepsAgree
<1> QED
  BY <1>3 DEF IsPrepared

LEMMA PreparationImplies == PreparationInv => PreparedIsUsable
<1> SUFFICES ASSUME PreparationInv, cmd.state = "done"
             PROVE  /\ ProfilePasses(cmd.layout, TRUE)
                    /\ \A p \in Phases : \A s \in SlotsOf(cmd.layout) :
                         /\ Bounded(p, s)
                         /\ \A t \in SlotsOf(cmd.layout) \ {s} :
                              slots[p][t].project # slots[p][s].project
  BY DEF PreparedIsUsable
<1>1. PICK l \in Layouts : l = cmd.layout
  BY DEF PreparationInv, CommandOK, IsCommand
<1>2. /\ "state" \in dirs /\ CheckMounts
      /\ \A p \in Phases : \A s \in SlotsOf(l) : \E st : IsPrepared(l, p, s, st)
  BY <1>1, CompletedPlan DEF CheckMounts
<1>3. CheckSlots(l, TRUE)
  <2> SUFFICES ASSUME NEW p \in Phases, NEW s \in SlotsOf(l)
               PROVE  slots[p][s].there /\ MetadataMatches(l, p, s) /\ QuotaMatches(l, p, s, TRUE)
    BY DEF CheckSlots
  <2>1. PICK st : IsPrepared(l, p, s, st)
    BY <1>2
  <2> QED
    BY <2>1, PreparedSlot
<1>4. ASSUME NEW p \in Phases, NEW s \in SlotsOf(l)
      PROVE  Bounded(p, s)
  <2>1. PICK st : IsPrepared(l, p, s, st)
    BY <1>2
  <2> QED
    BY <2>1, PreparedSlot
<1>5. ASSUME NEW p \in Phases, NEW s \in SlotsOf(l), NEW t \in SlotsOf(l) \ {s}
      PROVE  slots[p][t].project # slots[p][s].project
  <2>1. PICK st : IsPrepared(l, p, s, st)
    BY <1>2
  <2>2. PICK su : IsPrepared(l, p, t, su)
    BY <1>2
  <2>3. st.project # su.project
    BY <2>1, <2>2, PreparedSlotsDiffer
  <2>4. slots[p][s].project = st.project
    BY <2>1, PreparedSlot
  <2>5. slots[p][t].project = su.project
    BY <2>2, PreparedSlot
  <2> QED
    BY <2>3, <2>4, <2>5
<1> QED
  BY <1>1, <1>2, <1>3, <1>4, <1>5 DEF ProfilePasses

\* A host the command reports as prepared passes the privileged profile check of a
\* worker with the same layout, and no two slots of a phase share a project or
\* exceed their class, whatever runs failed, were interrupted or killed before, with
\* whatever other layouts (ensure_quota_slot, StoragePlan::from_config, check_slot).
THEOREM PreparationSafety == StorageSpec => []PreparedIsUsable
  BY PreparationInvariant, PreparationImplies, PTL

=============================================================================
