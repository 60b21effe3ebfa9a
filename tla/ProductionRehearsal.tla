------------------------ MODULE ProductionRehearsal ------------------------
(***************************************************************************)
(* The release rehearsal harness (ops/src/production_rehearsal.rs and its  *)
(* submodules).  One run checks a deployment, creates a one-use pioneer    *)
(* code, registers an agent, writes and seeds three fixture challenges,    *)
(* submits to them, and then takes away what it created.  A call that      *)
(* changes the platform may be answered, refused, or given up by the       *)
(* client's time limit and taken by the platform later; Ctrl-C stops the   *)
(* run anywhere.                                                           *)
(*                                                                         *)
(* All three fixtures enable the private benchmark and carry no            *)
(* agentics.challenge.json, which seeding refuses                          *)
(* (ChallengeContract.SeededBundleAssembles).  So no fixture is ever on    *)
(* the platform: every submission is refused, no fixture can be archived,  *)
(* and every confirmed run that reports at all reports a failure.  What    *)
(* the run leaves behind is then the code and its agent, and its report is *)
(* all an operator has to find them by.                                    *)
(***************************************************************************)
EXTENDS Integers, FiniteSets

VARIABLES
  code,      \* the rehearsal's pioneer code on the platform
  agent,     \* the agent registered with it
  late,      \* the requests given up that the platform may still take
  rehearsal  \* the run: phase, arguments, what it knows, its failed checks

rehearsalVars == <<code, agent, late, rehearsal>>
platformVars == <<code, agent, late>>

-----------------------------------------------------------------------------
(* The run and its report.                                                 *)

\* The phase; --confirm-disposable-staging and --keep-artifacts; whether the
\* run holds the code's id and the agent's token; whether its report lists
\* the fixtures; the required checks that failed.
NotStarted == [at |-> "idle", confirmed |-> FALSE, keep |-> FALSE,
               codeId |-> FALSE, token |-> FALSE, listed |-> FALSE,
               failed |-> {}]

\* The phase's checks: the required ones that fail make the report fail
\* (PhaseEvidence::from_checks, RehearsalReport::failed).
Checked(run, failing) == [run EXCEPT !.failed = @ \cup failing]

\* A variant whose report does not count what fails once cleanup began.
CleanupCheck_Lenient(run, failing) == run

CleanupCheck(run, failing) == Checked(run, failing)

Move(phase) == [rehearsal EXCEPT !.at = phase]

\* What becomes of a request: a reply, a refusal, or the client's time limit.
Replies == {"answered", "refused", "lost"}

\* The one check of a request.
CheckOf(name, reply) == IF reply = "answered" THEN {} ELSE {name}

-----------------------------------------------------------------------------
(* The platform.                                                           *)

\* The code is registered with once (max_uses) and while it is active.
Registrable == code = "active" /\ agent = "none"

\* What a request changes when the platform takes it.
Takes(request) ==
  CASE request = "create"   -> code' = "active" /\ UNCHANGED agent
    [] request = "register" -> agent' = "active" /\ UNCHANGED code
    [] request = "revoke"   ->
         /\ code' = "revoked"
         /\ agent' = IF agent = "active" THEN "disabled" ELSE agent

\* A request that was given up is taken after all, or comes to nothing.
LateCall(request, taken) ==
  /\ request \in late
  /\ late' = late \ {request}
  /\ IF taken
     THEN /\ request = "register" => Registrable
          /\ Takes(request)
     ELSE UNCHANGED <<code, agent>>
  /\ UNCHANGED rehearsal

\* A request of the run.
Sends(request, reply) ==
  /\ IF reply = "answered" THEN Takes(request) ELSE UNCHANGED <<code, agent>>
  /\ late' = IF reply = "lost" THEN late \cup {request} ELSE late

-----------------------------------------------------------------------------
(* Phases.                                                                 *)

Start(confirmed, keep) ==
  /\ rehearsal.at = "idle"
  /\ rehearsal' = [NotStarted EXCEPT !.at = "preflight",
                                     !.confirmed = confirmed, !.keep = keep]
  /\ UNCHANGED platformVars

\* run_preflight_phase and the mutation gate: nothing is changed unless every
\* check passed and the operator confirmed a disposable staging.
Preflight(passed) ==
  /\ rehearsal.at = "preflight"
  /\ rehearsal' = Checked(Move(IF passed /\ rehearsal.confirmed
                               THEN "createCode" ELSE "report"),
                          IF passed THEN {} ELSE {"preflight"})
  /\ UNCHANGED platformVars

\* run_identity_phase: the code.  Its id is known only from the reply, which
\* holds it at /code/id (PioneerCodeDetailResponse).
CreateCode(reply) ==
  /\ rehearsal.at = "createCode"
  /\ Sends("create", reply)
  /\ rehearsal' = [Checked(Move("register"),
                           CheckOf("create pioneer code", reply))
                     EXCEPT !.codeId = reply = "answered"]

\* The registration, tried with or without a known code id.
RegisterAgent(reply) ==
  /\ rehearsal.at = "register"
  /\ reply = "answered" => Registrable
  /\ Sends("register", reply)
  /\ rehearsal' = [Checked(Move("fixtures"),
                           CheckOf("register rehearsal agent", reply))
                     EXCEPT !.token = reply = "answered"]

\* run_fixture_phase: the challenges are listed in the report once their
\* bundles are on disk; the seeding of the first is refused, before anything
\* of it is stored (seeded_private_bundle_dir).
WriteFixtures(written) ==
  /\ rehearsal.at = "fixtures"
  /\ rehearsal' = [Checked(Move("happyPath"),
                           {IF written THEN "seed challenge fixtures"
                            ELSE "write challenge fixtures"})
                     EXCEPT !.listed = written]
  /\ UNCHANGED platformVars

\* run_happy_path_phase: both submissions to every listed challenge are
\* refused, none being seeded; no listed challenge leaves it without checks.
HappyPath ==
  /\ rehearsal.at = "happyPath"
  /\ rehearsal' = Checked(Move("adversarial"),
                          IF ~rehearsal.token THEN {"agent token"}
                          ELSE IF rehearsal.listed
                               THEN {"validation create", "official create"}
                               ELSE {})
  /\ UNCHANGED platformVars

\* run_adversarial_phase: the malformed archives may be refused for the reason
\* the check is about or for the missing challenge; the probes do not run.
Adversarial(hostile) ==
  /\ rehearsal.at = "adversarial"
  /\ rehearsal' = Checked(Move("browser"),
                          IF ~rehearsal.token THEN {"agent token"}
                          ELSE IF ~rehearsal.listed THEN {"separated fixture"}
                          ELSE {"run-stage network probe",
                                "participant private-data probe"} \cup hostile)
  /\ UNCHANGED platformVars

\* The browser phase is skipped after a failure, and there was one; with
\* --keep-artifacts the cleanup phase is skipped as well.
Browser ==
  /\ rehearsal.at = "browser"
  /\ rehearsal.failed # {}
  /\ rehearsal' = Move(IF rehearsal.keep THEN "report" ELSE "revoke")
  /\ UNCHANGED platformVars

\* run_cleanup_phase: revoke the code and its credentials, if its id is known.
RevokeCode(reply) ==
  /\ rehearsal.at = "revoke" /\ rehearsal.codeId
  /\ Sends("revoke", reply)
  /\ rehearsal' = CleanupCheck(Move("archive"),
                               CheckOf("revoke pioneer code", reply))

\* Without the id the check is skipped, which is not a failure.
SkipRevocation ==
  /\ rehearsal.at = "revoke" /\ ~rehearsal.codeId
  /\ rehearsal' = Move("archive")
  /\ UNCHANGED platformVars

\* archive_rehearsal_challenges: the first listed challenge is not found.
ArchiveFixtures ==
  /\ rehearsal.at = "archive"
  /\ rehearsal' = CleanupCheck(Move("report"),
                               IF rehearsal.listed THEN {"fixture archival"}
                               ELSE {})
  /\ UNCHANGED platformVars

\* The report is written, and the exit status says whether it passed.
Report(written) ==
  /\ rehearsal.at = "report"
  /\ rehearsal' = Move(IF ~written THEN "error"
                       ELSE IF rehearsal.failed = {} THEN "passed"
                            ELSE "failed")
  /\ UNCHANGED platformVars

\* run_with_ctrl_c drops the run where it is: nothing is cleaned up.
Interrupt ==
  /\ rehearsal.at \notin {"idle", "passed", "failed", "error", "interrupted"}
  /\ rehearsal' = Move("interrupted")
  /\ UNCHANGED platformVars

RehearsalInit ==
  /\ code = "none"
  /\ agent = "none"
  /\ late = {}
  /\ rehearsal = NotStarted

RehearsalNext ==
  \/ \E confirmed, keep \in BOOLEAN : Start(confirmed, keep)
  \/ \E reply \in Replies : \/ CreateCode(reply)
                            \/ RegisterAgent(reply)
                            \/ RevokeCode(reply)
  \/ \E good \in BOOLEAN : \/ Preflight(good)
                           \/ WriteFixtures(good)
                           \/ Report(good)
  \/ \E hostile \in SUBSET {"oversized manifest note",
                            "archive traversal entry"} : Adversarial(hostile)
  \/ HappyPath \/ Browser \/ SkipRevocation \/ ArchiveFixtures \/ Interrupt
  \/ \E request \in {"create", "register", "revoke"}, taken \in BOOLEAN :
       LateCall(request, taken)

RehearsalSpec == RehearsalInit /\ [][RehearsalNext]_rehearsalVars

-----------------------------------------------------------------------------
(* Properties.                                                             *)

\* Credentials a rehearsal leaves usable on the platform are evidenced by its
\* report, unless it was told to keep its artifacts: while the code or its
\* agent is active after the report, the report holds a failed creation or a
\* failed revocation of the code.  The skipped revocation of an unknown code,
\* a reply given up whose request is taken after the report, and a
\* registration that lands after the revocation must not leave anything the
\* report is silent about (run_identity_phase, run_cleanup_phase).
LeftoversAreReported ==
  rehearsal.at \in {"passed", "failed"} /\ ~rehearsal.keep =>
    (code = "active" \/ agent = "active" =>
       \/ "create pioneer code" \in rehearsal.failed
       \/ "revoke pioneer code" \in rehearsal.failed)

=============================================================================
