--------------------------- MODULE ServiceStartup ---------------------------
(***************************************************************************)
(* From an environment file to running services (crates/config, the mains  *)
(* of the API server and the worker, and the worker's startup probes).  An *)
(* operator edits the file and deploys it with Compose, which checks it    *)
(* against the stage's policy; or starts a service with the variables      *)
(* directly.  Each service checks the policy of its own role, parses the   *)
(* variables into a configuration with defaults, validates that and, as a  *)
(* worker, probes the host before it takes jobs.  A container that ended   *)
(* starts again with the variables it was created with, on a host that may *)
(* have changed.                                                           *)
(***************************************************************************)
EXTENDS Integers

CONSTANTS
  MaxEdits   \* bound on the edits of the environment file

ASSUME EditsAssumption == MaxEdits \in Nat

VARIABLES
  file,      \* the environment file
  edits,     \* how often it was edited
  env,       \* the variables the containers or the shell carry
  managed,   \* whether Compose created the services
  api,       \* the API server: at which step, with which configuration
  worker,    \* the worker, and the host it found when it came up
  gpuBoxes   \* whether GPU probe containers are left on the runner daemon

startupVars == <<file, edits, env, managed, api, worker, gpuBoxes>>

-----------------------------------------------------------------------------
(* Variables and their values.                                             *)

\* A variable is absent, blank, still the example file's placeholder, or
\* holds a value of one of the kinds that the checks tell apart.
Values ==
  [stage        |-> {"dev", "rehearsal", "production", "junk"},
   profile      |-> {"development", "production", "junk"},
   probe        |-> {"off", "warn", "require"},
   pins         |-> {"true", "false"},
   storage      |-> {"unbounded", "slots"},
   layerQuota   |-> {"true", "false"},
   cookieSecure |-> {"true", "false"},
   registration |-> {"pioneer_code", "public"},
   apiHost      |-> {"loopback", "all"},
   clientId     |-> {"set", "placeholder"},
   clientSecret |-> {"set", "placeholder"},
   redirect     |-> {"loopback", "https", "http"},
   admins       |-> {"some", "placeholder"},
   runtimeRoot  |-> {"absolute", "relative"},
   mountRoot    |-> {"absolute", "relative"},
   slotClasses  |-> {"some", "zero"},
   accelerators |-> {"none", "gpu"},
   gpuImage     |-> {"set"},
   apiLimits    |-> {"positive", "zero"},
   runnerLimits |-> {"positive", "zero"},
   workerLimits |-> {"positive", "zero"},
   objectStore  |-> {"good", "bad"},
   removed      |-> {"set"},
   rest         |-> {"set", "placeholder"}]

Settings == DOMAIN Values

\* The example files of the stages: what they set beyond the rest.
Example(stage) ==
  [s \in Settings |->
     CASE s = "stage" -> stage
       [] s = "rest" -> "set"
       [] s = "cookieSecure" -> IF stage = "production" THEN "true" ELSE "false"
       [] s = "registration" -> "pioneer_code"
       [] stage # "dev" /\ s \in {"pins", "layerQuota"} -> "true"
       [] stage # "dev" /\ s = "profile" -> "production"
       [] stage # "dev" /\ s = "probe" -> "require"
       [] stage # "dev" /\ s = "storage" -> "slots"
       [] stage # "dev" /\ s \in {"clientId", "clientSecret"} -> "set"
       [] stage # "dev" /\ s = "redirect" ->
            IF stage = "production" THEN "https" ELSE "loopback"
       [] stage # "dev" /\ s \in {"admins", "slotClasses"} -> "some"
       [] stage # "dev" /\ s = "mountRoot" -> "absolute"
       [] s = "runtimeRoot" -> "absolute"
       [] OTHER -> "unset"]

-----------------------------------------------------------------------------
(* The stage's policy for a role (env_policy.rs).                          *)

Stages == {"dev", "test", "rehearsal", "production"}

Hosted == {"rehearsal", "production"}

\* env_value: a blank variable counts as absent.
IsSet(e, s) == e[s] \notin {"unset", "blank"}

\* collect_required_value_errors: what a hosted stage says of a variable that
\* is set.
RequiredValue(stage, s) ==
  CASE stage \in Hosted /\ s = "profile" -> {"production"}
    [] stage \in Hosted /\ s = "probe" -> {"require"}
    [] stage \in Hosted /\ s \in {"pins", "layerQuota"} -> {"true"}
    [] stage \in Hosted /\ s = "storage" -> {"slots"}
    [] stage = "production" /\ s = "cookieSecure" -> {"true"}
    [] OTHER -> Values[s]

SignInEnvs == {"admins", "cookieSecure", "clientId", "clientSecret", "redirect"}

RunnerEnvs == {"profile", "probe", "pins", "storage", "runtimeRoot",
               "mountRoot", "slotClasses", "layerQuota"}

\* WORKER_COMMON_REQUIRED and WORKER_HOSTED_REQUIRED.
RequiredWorkerEnvs_Common(stage) == {"stage", "rest", "runtimeRoot"}

RequiredWorkerEnvs(stage) ==
  {"stage", "rest"} \cup
    (IF stage \in Hosted THEN RunnerEnvs ELSE {"runtimeRoot"})

\* API_COMMON_REQUIRED and API_HOSTED_REQUIRED.
RequiredApiEnvs(stage) ==
  {"stage", "rest", "apiHost"} \cup
    (IF stage \in Hosted THEN SignInEnvs ELSE {})

\* REHEARSAL_REQUIRED and PRODUCTION_REQUIRED; DEV_REQUIRED otherwise.
RequiredComposeEnvs(stage) ==
  {"stage", "rest"} \cup
    (IF stage \in Hosted THEN SignInEnvs \cup RunnerEnvs ELSE {}) \cup
    (IF stage = "rehearsal" THEN {"registration"} ELSE {})

RequiredEnvs(stage, role) ==
  CASE role = "compose"  -> RequiredComposeEnvs(stage)
    [] role = "api"      -> RequiredApiEnvs(stage)
    [] role = "worker"   -> RequiredWorkerEnvs(stage)
    [] role = "migrate"  -> {"stage", "rest"}

\* validate_env_policy for the roles that start something.  What is optional
\* only warns.
ValidateEnvPolicy(e, role) ==
  /\ e.stage \in Stages
  /\ ~IsSet(e, "removed")
  /\ \A s \in Settings :
       IsSet(e, s) => e[s] \in RequiredValue(e.stage, s)
  /\ \A s \in RequiredEnvs(e.stage, role) :
       /\ IsSet(e, s)
       /\ e.stage \in Hosted => e[s] # "placeholder"

-----------------------------------------------------------------------------
(* The typed configuration (env.rs).                                       *)

\* The defaults of the groups of variables.
ApiWebEnv == [apiHost |-> "loopback", cookieSecure |-> "false"]

StorageEnv == [objectStore |-> "good"]

AuthEnv == [admins |-> "unset", registration |-> "pioneer_code"]

WorkerEnv ==
  [accelerators |-> "none", gpuImage |-> "unset", workerLimits |-> "positive"]

QuotaEnv == [apiLimits |-> "positive"]

GithubAppEnv ==
  [clientId |-> "unset", clientSecret |-> "unset", redirect |-> "unset"]

RunnerEnv ==
  [profile |-> "development", probe |-> "off", pins |-> "false",
   storage |-> "unbounded", layerQuota |-> "false", runtimeRoot |-> "unset",
   mountRoot |-> "unset", slotClasses |-> "some", runnerLimits |-> "positive"]

EnvGroups == {ApiWebEnv, StorageEnv, AuthEnv, WorkerEnv, QuotaEnv,
              GithubAppEnv, RunnerEnv}

\* No variable belongs to two groups.
Defaults ==
  [s \in UNION {DOMAIN group : group \in EnvGroups} |->
     (CHOOSE group \in EnvGroups : s \in DOMAIN group)[s]]

\* Strings for which a blank value means none.
Optional == {"clientId", "clientSecret", "runtimeRoot", "mountRoot",
             "gpuImage", "admins"}

\* The enumerated variables, each with a parser of its own.
Modes == {"profile", "probe", "storage", "registration", "accelerators"}

\* A blank typed variable is refused, an unknown mode, and a list of
\* administrators that is not one of numbers.
Parses(e) ==
  /\ \A s \in DOMAIN Defaults \ Optional : e[s] # "blank"
  /\ \A s \in Modes : e[s] # "junk"
  /\ e.admins # "placeholder"

Config(e) ==
  [s \in Settings |->
     IF s \in DOMAIN Defaults /\ ~IsSet(e, s) THEN Defaults[s] ELSE e[s]]

-----------------------------------------------------------------------------
(* Validation of a configuration (lib.rs).                                 *)

RequiresDigestPinnedImages(c) ==
  \/ c.pins = "true"
  \/ c.probe = "require"
  \/ c.profile = "production"

ValidateHostedImagePolicy(c) == RequiresDigestPinnedImages(c) => c.pins = "true"

GithubAppEnabled(c) ==
  \A s \in {"clientId", "clientSecret", "redirect"} : c[s] # "unset"

\* A part of the sign-in requires all of it, and the callback uses HTTPS or
\* is local.
ValidateGithubApp(c) ==
  \/ \A s \in {"clientId", "clientSecret", "redirect"} : c[s] = "unset"
  \/ GithubAppEnabled(c) /\ c.redirect # "http"

\* A variant that takes any callback for a local one.
ValidateSessionCookie_AnyCallback(c) ==
  c.cookieSecure = "true" \/ c.redirect # "unset" \/ c.apiHost = "loopback"

ValidateSessionCookie(c) ==
  c.cookieSecure = "true" \/ c.redirect = "loopback" \/ c.apiHost = "loopback"

ValidateObjectStorage(c) == c.objectStore = "good"

ValidateApiSecurity(c) ==
  /\ c.apiLimits = "positive"
  /\ c.apiHost = "loopback" \/ c.registration # "public"
  /\ ValidateSessionCookie(c)
  /\ ValidateGithubApp(c)
  /\ c.apiHost # "loopback" \/ c.admins # "unset" => GithubAppEnabled(c)
  /\ ValidateHostedImagePolicy(c)
  /\ ValidateObjectStorage(c)

ValidateAccelerators(c) == c.accelerators = "gpu" => c.gpuImage = "set"

\* validate_private_host_directory: there, a directory, the worker's own and
\* closed to everyone else.
PrivateHostDirectory(c, s, private) == c[s] = "absolute" /\ private

ValidateRunnerStorage(c, private) ==
  /\ ValidateObjectStorage(c)
  /\ c.runnerLimits = "positive" /\ c.slotClasses = "some"
  /\ c.runtimeRoot # "relative" /\ c.mountRoot # "relative"
  /\ ValidateAccelerators(c)
  /\ ValidateHostedImagePolicy(c)
  /\ c.storage = "unbounded" => c.profile # "production"
  /\ c.storage = "slots" => /\ c.layerQuota = "true"
                            /\ c.runtimeRoot = "absolute"
                            /\ c.mountRoot = "absolute"
  /\ c.profile = "production" => c.probe = "require"
  /\ c.probe = "require" => c.layerQuota = "true"
  /\ c.probe # "off" => c.runtimeRoot = "absolute"
  /\ c.profile = "production" =>
       /\ PrivateHostDirectory(c, "runtimeRoot", private)
       /\ c.storage = "slots" => PrivateHostDirectory(c, "mountRoot", private)

-----------------------------------------------------------------------------
(* Steps.                                                                  *)

NoEnv == [s \in Settings |-> "unset"]

Down == [at |-> "down", config |-> NoEnv, found |-> "none"]

EditFile(s, v) ==
  /\ edits < MaxEdits
  /\ v # file[s]
  /\ file' = [file EXCEPT ![s] = v]
  /\ edits' = edits + 1
  /\ UNCHANGED <<env, managed, api, worker, gpuBoxes>>

\* The database migration, which the services wait for.
Migrates(e) == ValidateEnvPolicy(e, "migrate") /\ Parses(e)

\* ComposeContext::from_cli and `compose up`: the file is checked as Compose's,
\* a file that asks for a GPU needs the GPU profile, the migration of the
\* database runs, and every service is created anew.  Compose itself sets the
\* API's address and each worker's accelerator.
Deploy(gpuProfile, accelerators) ==
  /\ ValidateEnvPolicy(file, "compose")
  /\ file.accelerators = "gpu" \/ accelerators = "gpu" => gpuProfile
  /\ env' = [file EXCEPT !.apiHost = "all", !.accelerators = accelerators]
  /\ Migrates(env')
  /\ managed' = TRUE
  /\ api' = Down
  /\ worker' = Down
  /\ UNCHANGED <<file, edits, gpuBoxes>>

\* The variables of the file exported to a shell that starts services itself.
Export ==
  /\ ~managed
  /\ api.at = "down" /\ worker.at = "down"
  /\ env # file
  /\ env' = file
  /\ UNCHANGED <<file, edits, managed, api, worker, gpuBoxes>>

\* main of the API server, up to the listening socket.
StartApi ==
  /\ api.at = "down"
  /\ ValidateEnvPolicy(env, "api")
  /\ Parses(env)
  /\ ValidateApiSecurity(Config(env))
  /\ api' = [at |-> "up", config |-> Config(env), found |-> "none"]
  /\ UNCHANGED <<file, edits, env, managed, worker, gpuBoxes>>

\* main of the worker and Worker::new, up to the host probe; the modes of the
\* runner's directories are whatever they are now.
StartWorker(private) ==
  /\ worker.at = "down"
  /\ ValidateEnvPolicy(env, "worker")
  /\ Parses(env)
  /\ ValidateRunnerStorage(Config(env), private)
  /\ worker' = [at |-> "hostProbe", config |-> Config(env), found |-> "none"]
  /\ UNCHANGED <<file, edits, env, managed, api, gpuBoxes>>

\* enforce_host_probe: a probe that fails, times out or prints a failure stops
\* a worker that requires it and only warns the others.
EnforceHostProbe(passed) ==
  /\ worker.at = "hostProbe"
  /\ LET c == worker.config
         found == IF c.probe = "off" THEN "unprobed"
                  ELSE IF passed THEN "passed" ELSE "failed"
     IN  IF c.probe = "require" /\ ~passed
         THEN worker' = Down
         ELSE worker' = [worker EXCEPT
                !.at = IF c.accelerators = "gpu" THEN "gpuProbe" ELSE "connected",
                !.found = found]
  /\ UNCHANGED <<file, edits, env, managed, api, gpuBoxes>>

\* enforce_worker_gpu_probe: the probe's container, from its creation on.
CreateGpuProbe ==
  /\ worker.at = "gpuProbe"
  /\ gpuBoxes' = TRUE
  /\ worker' = [worker EXCEPT !.at = "gpuProbing"]
  /\ UNCHANGED <<file, edits, env, managed, api>>

\* The container ran and is removed whether or not it passed; a failed probe
\* or a failed removal stops the worker.
EndGpuProbe(passed, removed) ==
  /\ worker.at = "gpuProbing"
  /\ gpuBoxes' = ~removed
  /\ worker' = IF passed /\ removed
               THEN [worker EXCEPT !.at = "connected"] ELSE Down
  /\ UNCHANGED <<file, edits, env, managed, api>>

\* Worker::run: the ticker of a period of zero panics.
Run ==
  /\ worker.at = "connected"
  /\ worker' = [worker EXCEPT
       !.at = IF worker.config.workerLimits = "zero" THEN "panicked" ELSE "up"]
  /\ UNCHANGED <<file, edits, env, managed, api, gpuBoxes>>

\* A service stops or dies, wherever it is; its container, or the operator,
\* starts it again.
Stop(service) ==
  /\ \/ service = "api" /\ api.at # "down" /\ api' = Down /\ UNCHANGED worker
     \/ service = "worker" /\ worker.at # "down" /\ worker' = Down
                           /\ UNCHANGED api
  /\ UNCHANGED <<file, edits, env, managed, gpuBoxes>>

StartupInit ==
  /\ file \in {Example(stage) : stage \in {"dev", "rehearsal", "production"}}
  /\ edits = 0
  /\ env = NoEnv
  /\ managed = FALSE
  /\ api = Down
  /\ worker = Down
  /\ gpuBoxes = FALSE

StartupNext ==
  \/ \E s \in Settings : \E v \in Values[s] \cup {"unset", "blank"} :
       EditFile(s, v)
  \/ \E gpuProfile \in BOOLEAN, accelerators \in {"none", "gpu"} :
       Deploy(gpuProfile, accelerators)
  \/ Export
  \/ StartApi
  \/ \E private \in BOOLEAN : StartWorker(private)
  \/ \E passed \in BOOLEAN : EnforceHostProbe(passed)
  \/ CreateGpuProbe
  \/ \E passed, removed \in BOOLEAN : EndGpuProbe(passed, removed)
  \/ Run
  \/ \E service \in {"api", "worker"} : Stop(service)

StartupSpec == StartupInit /\ [][StartupNext]_startupVars

-----------------------------------------------------------------------------
(* Properties.                                                             *)

\* However a worker of a hosted stage was started, restarted or configured,
\* by the time it takes jobs it runs the production profile on quota-bounded
\* slots, with pinned images and a layer quota, on a host that passed the
\* probe.  The policy only judges variables that are set, the parser fills in
\* lax defaults for the others, and the last checks apply only to a profile
\* that says it is production: no one of the three is enough.
HostedWorkerIsHardened ==
  worker.at = "up" /\ env.stage \in Hosted =>
    /\ worker.config.profile = "production"
    /\ worker.config.storage = "slots"
    /\ worker.config.layerQuota = "true"
    /\ RequiresDigestPinnedImages(worker.config)
    /\ worker.found = "passed"

\* An API that other machines can reach asks for a pioneer code, has working
\* sign-in and keeps its session cookie to HTTPS unless the sign-in callback
\* is local; one that Compose deployed for a hosted stage also insists on
\* pinned images, as its worker does.
PublicApiIsGuarded ==
  api.at = "up" /\ api.config.apiHost = "all" =>
    /\ api.config.registration = "pioneer_code"
    /\ GithubAppEnabled(api.config)
    /\ api.config.cookieSecure = "true" \/ api.config.redirect = "loopback"
    /\ managed /\ env.stage \in Hosted =>
         RequiresDigestPinnedImages(api.config)

\* What each service insists on by itself, together: the worker that runs the
\* submissions and the API that admits them, each configured on its own.
HostedStackIsHardened == HostedWorkerIsHardened /\ PublicApiIsGuarded
=============================================================================
