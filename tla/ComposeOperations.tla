------------------------- MODULE ComposeOperations -------------------------
(***************************************************************************)
(* The command that operates the Compose deployments of one host           *)
(* (ops/src/compose_prod.rs and its submodules) and the restore of the     *)
(* private bundles it starts (ops/src/private_bundle_backups.rs).          *)
(*                                                                         *)
(* The host runs a production and a rehearsal deployment.  A command reads *)
(* its settings from its arguments, the process environment and an env     *)
(* file; nothing keeps the three from naming different deployments.  Every *)
(* command is a plan of steps, each an external program that may fail,     *)
(* while the workers go on starting runner containers and the daemons go   *)
(* on starting, answering and dying.                                       *)
(***************************************************************************)
EXTENDS Integers, Sequences, FiniteSets

CONSTANTS
  EnvFiles,     \* the env files an operator may pass
  ProcessEnvs,  \* the process environments the command may run in
  Backup,       \* the backup objects in key order: destination key and value
  MaxOps        \* bound on the number of commands

Deployments == {"prod", "rehearsal"}
WorkerServices == {"worker-cpu", "worker-gpu"}
Services == {"api"} \cup WorkerServices
Destinations == {Backup[i].dest : i \in DOMAIN Backup}
Absent == "absent"

\* Settings name a deployment; a socket or a Docker host may also be the
\* system's.  `stage` is the deployment stage, `gpu` the Compose profile.
OperatorSettings == {"project", "namespace", "socket", "host", "state", "pidfile",
             "stage", "gpu", "accelerators"}
SettingValues == {"unset", "system", "gpu"} \cup Deployments

ASSUME OperationsAssumption ==
  /\ EnvFiles \cup ProcessEnvs \subseteq [OperatorSettings -> SettingValues]
  /\ MaxOps \in Nat
  /\ \A i \in DOMAIN Backup : Backup[i].value # Absent

VARIABLES
  services,  \* the running services of each deployment
  volumes,   \* the deployments whose Compose volumes exist
  trees,     \* the deployments whose data tree exists under its root
  daemon,    \* each deployment's runner Docker daemon
  runners,   \* the runner containers: the daemon they are on, the namespace
             \* of their label, whether their other labels parse
  egress,    \* the bridges made, and those with forwarding rules installed
  bundles,   \* the private bundle objects of the production bucket
  joined,    \* whether the backup container is on the production network
  op,        \* the command that runs or ran last
  ops        \* the number of commands so far

hostVars == <<services, volumes, trees, daemon, runners, egress, bundles,
              joined>>
opsVars == <<hostVars, op, ops>>

-----------------------------------------------------------------------------
(* The context of a command.                                               *)

\* env_value: the process environment wins over the env file.
EnvValue(process, file, s) ==
  IF process[s] # "unset" THEN process[s] ELSE file[s]

OrElse(v, default) == IF v = "unset" THEN default ELSE v

\* ComposeContext::from_cli.  The stage is read from the file alone; the
\* profiles are those of both; every path and socket defaults to production's.
Context(cli, process, file) ==
  LET Env(s) == EnvValue(process, file, s)
      project == OrElse(cli, OrElse(Env("project"), "prod"))
      socket == Env("socket")
  IN  [project |-> project,
       namespace |-> OrElse(Env("namespace"), project),
       socket |-> socket,
       host |-> Env("host"),
       state |-> OrElse(Env("state"), "prod"),
       pidfile |-> OrElse(Env("pidfile"), "prod"),
       stage |-> file["stage"],
       gpu |-> "gpu" \in {process["gpu"], file["gpu"]}]

\* validate_worker_profile_intent
IntentIsMet(process, file) ==
  EnvValue(process, file, "accelerators") = "gpu" =>
    "gpu" \in {process["gpu"], file["gpu"]}

\* connect_docker: the host, the socket, or the system's daemon.
CleanedDaemon(c) == OrElse(c.host, OrElse(c.socket, "system"))

\* RunnerDockerConfig: the managed socket defaults to production's, must be
\* the Docker host's, and is never the system's.
ManagedSocket(c) == OrElse(c.socket, "prod")
SocketIsManaged(c) ==
  OrElse(c.host, ManagedSocket(c)) = ManagedSocket(c) /\ ManagedSocket(c) # "system"

\* collect_rehearsal_paths: every path a purge would remove.
PurgePaths(c) == {c.state, c.pidfile, OrElse(c.socket, "prod")}

\* build_rehearsal_purge_plan and require_rehearsal_path
PurgeAdmitted_StateRootOnly(c, confirmed) ==
  /\ confirmed
  /\ c.project = "rehearsal" /\ c.stage = "rehearsal"
  /\ c.namespace = "rehearsal" /\ c.state = "rehearsal"
PurgeAdmitted(c, confirmed) ==
  /\ confirmed
  /\ c.project = "rehearsal"
  /\ c.stage = "rehearsal"
  /\ c.namespace = "rehearsal"
  /\ PurgePaths(c) = {"rehearsal"}

-----------------------------------------------------------------------------
(* The plans.                                                              *)

CopySteps == <<"join">> \o [i \in DOMAIN Backup |-> "copy"] \o <<"leave">>

DownCleanPlan ==
  <<"listRunners", "stopWorkers", "cleanRunners", "composeDown">>

Plan(kind) ==
  CASE kind = "up" ->
         <<"composeUp", "requireWorkers", "composeEgress", "runnerEgress">>
    [] kind = "check" ->
         <<"composeEgress", "runCheck", "requireWorkers", "runCheck",
           "runnerEgress", "runCheck">>
    [] kind = "downKeep" -> <<"composeDown">>
    [] kind = "downClean" -> DownCleanPlan
    [] kind = "clean" -> <<"cleanRunners">>
    [] kind = "daemonUp" ->
         <<"askDaemon", "clearStale", "ensureBridge", "spawnDaemon",
           "awaitDaemon", "runnerEgress">>
    [] kind = "daemonDown" -> <<"killDaemon", "awaitExit">>
    [] kind = "purge" ->
         <<"stopWorkers", "cleanIfSocket", "killDaemon", "awaitExit",
           "composeDownVolumes", "removePaths">>
    [] kind = "restore" -> CopySteps

Kinds == {"up", "check", "downKeep", "downClean", "clean", "daemonUp",
          "daemonDown", "purge", "restore"}
DaemonKinds == {"daemonUp", "daemonDown"}

\* A command: its plan position, the flags of a restore, whether its workers
\* really stopped, and the phase of the object copy.
Operation(kind, c, overwrite, dry, state) ==
  [kind |-> kind, ctx |-> c, overwrite |-> overwrite, dry |-> dry, state |-> state,
   at |-> 1, phase |-> "read", stopped |-> FALSE, wasJoined |-> FALSE]

Running == op.state = "running"
At(step) == Running /\ Plan(op.kind)[op.at] = step
c0 == op.ctx

NextStep(o) ==
  IF o.at = Len(Plan(o.kind)) THEN [o EXCEPT !.state = "done"]
  ELSE [o EXCEPT !.at = o.at + 1, !.phase = "read"]
Advance == op' = NextStep(op) /\ UNCHANGED ops
EndWith(result) == op' = [op EXCEPT !.state = result] /\ UNCHANGED ops

\* run: a command is admitted or refused before anything changes.  Dry runs
\* change nothing and are left out, except that of a restore, which joins the
\* network; `down` must name what happens to the runners.
Contexts ==
  {Context(cli, e[1], e[2]) :
     cli \in {"unset"} \cup Deployments,
     e \in {e \in ProcessEnvs \X EnvFiles : IntentIsMet(e[1], e[2])}}

StartOperation(kind) ==
  /\ ~Running /\ ops < MaxOps
  /\ \E c \in Contexts, overwrite, dry, confirmed \in BOOLEAN :
       /\ kind = "purge" => PurgeAdmitted(c, confirmed)
       /\ kind \in DaemonKinds => SocketIsManaged(c)
       /\ kind # "restore" => ~overwrite /\ ~dry
       /\ op' = Operation(kind, c, overwrite, dry, "running")
  /\ ops' = ops + 1
  /\ UNCHANGED hostVars

-----------------------------------------------------------------------------
(* The steps on Compose services.                                          *)

WantedServices(c) ==
  {"api", "worker-cpu"} \cup (IF c.gpu THEN {"worker-gpu"} ELSE {})

\* compose up: it may fail with some of the services started.
ComposeUp ==
  /\ At("composeUp")
  /\ \E started \in SUBSET WantedServices(c0) :
       /\ services' = [services EXCEPT ![c0.project] = @ \cup started]
       /\ IF started = WantedServices(c0) THEN Advance ELSE EndWith("failed")
  /\ volumes' = volumes \cup {c0.project}
  /\ UNCHANGED <<trees, daemon, runners, egress, bundles, joined>>

\* require_expected_workers
RequireWorkers ==
  /\ At("requireWorkers")
  /\ IF WantedServices(c0) \ {"api"} \subseteq services[c0.project]
     THEN Advance ELSE EndWith("failed")
  /\ UNCHANGED hostVars

\* ensure_bridge_egress checks each rule and inserts the missing ones; the
\* runner's bridge is managed only with a dedicated socket.
Egress(step, bridge, guard) ==
  /\ At(step)
  /\ IF guard
     THEN egress' = egress \cup {bridge} /\ Advance
     ELSE EndWith("failed") /\ UNCHANGED egress
  /\ UNCHANGED <<services, volumes, trees, daemon, runners, bundles, joined>>
ComposeEgress == Egress("composeEgress", <<"compose", c0.project>>,
                        services[c0.project] # {})
RunnerEgress == Egress("runnerEgress", <<"runner", ManagedSocket(c0)>>,
                       SocketIsManaged(c0))

\* The check service, and the GitHub and PyPI egress checks, only report.
RunCheck == At("runCheck") /\ Advance /\ UNCHANGED hostVars

\* stop_running_workers: compose ps must answer, but the exit code of
\* compose stop is not looked at.
StopWorkers ==
  /\ At("stopWorkers")
  /\ \E stopped \in SUBSET (services[c0.project] \cap WorkerServices) :
       LET left == services[c0.project] \ stopped
       IN  /\ services' = [services EXCEPT ![c0.project] = left]
           /\ op' = [NextStep(op) EXCEPT !.stopped = (left \cap WorkerServices = {})]
  /\ UNCHANGED <<ops, volumes, trees, daemon, runners, egress, bundles, joined>>

ComposeDown(step, withVolumes) ==
  /\ At(step)
  /\ services' = [services EXCEPT ![c0.project] = {}]
  /\ volumes' = IF withVolumes THEN volumes \ {c0.project} ELSE volumes
  /\ Advance
  /\ UNCHANGED <<trees, daemon, runners, egress, bundles, joined>>

-----------------------------------------------------------------------------
(* The steps on runner containers and their daemon.                        *)

Responds(d) == d \in Deployments /\ daemon[d].ready /\ daemon[d].socket

\* list_runner_containers: by label; a container whose other labels do not
\* parse is left out.
Listed(c) ==
  {r \in runners : r.on = CleanedDaemon(c) /\ r.of = c.namespace /\ r.whole}

ListRunners ==
  /\ At("listRunners")
  /\ IF Responds(CleanedDaemon(c0)) THEN Advance ELSE EndWith("failed")
  /\ UNCHANGED hostVars

\* clean_runners: the removals follow the list and stop at the first failure.
\* A container that finished in the meantime fails the removal.
CleanRunners(step) ==
  /\ At(step)
  /\ IF Responds(CleanedDaemon(c0))
     THEN \E removed \in SUBSET Listed(c0) :
            /\ runners' = runners \ removed
            /\ IF removed = Listed(c0) THEN Advance ELSE EndWith("failed")
     ELSE EndWith("failed") /\ UNCHANGED runners
  /\ UNCHANGED <<services, volumes, trees, daemon, egress, bundles, joined>>

\* unavailable_runner_cleanup_reports: without its socket the daemon is taken
\* as stopped and nothing is cleaned.
CleanIfSocket ==
  \/ /\ c0.socket \in Deployments => daemon[c0.socket].socket
     /\ CleanRunners("cleanIfSocket")
  \/ /\ c0.socket \in Deployments /\ ~daemon[c0.socket].socket
     /\ At("cleanIfSocket")
     /\ Advance
     /\ UNCHANGED hostVars

StoppedDaemon == [alive |-> 0, ready |-> FALSE, socket |-> FALSE, pidfile |-> FALSE]
StartingDaemon == [alive |-> 1, ready |-> FALSE, socket |-> TRUE, pidfile |-> TRUE]
Managed == ManagedSocket(c0)
SetDaemon(d) ==
  /\ daemon' = [daemon EXCEPT ![Managed] = d]
  /\ UNCHANGED <<services, volumes, trees, runners, egress, bundles, joined>>

\* runner_docker_up: a daemon that answers is left alone.
AskDaemon ==
  /\ At("askDaemon")
  /\ IF Responds(Managed)
     THEN op' = [op EXCEPT !.at = Len(Plan(op.kind))] /\ UNCHANGED ops
     ELSE IF c0.state \in trees THEN Advance ELSE EndWith("failed")
  /\ UNCHANGED hostVars

\* remove_stale_runner_docker_files, whether or not a daemon is alive.
ClearStale ==
  /\ At("clearStale")
  /\ SetDaemon([daemon[Managed] EXCEPT !.socket = FALSE, !.pidfile = FALSE])
  /\ Advance

\* ensure_runner_docker_bridge: the bridge the daemon is started on.
EnsureBridge ==
  /\ At("ensureBridge")
  /\ egress' = egress \cup {<<"bridge", Managed>>}
  /\ Advance
  /\ UNCHANGED <<services, volumes, trees, daemon, runners, bundles, joined>>

\* dockerd writes its pid file and its socket; it answers later or never.
SpawnDaemon ==
  /\ At("spawnDaemon")
  /\ daemon[Managed].alive < 2
  /\ SetDaemon([daemon[Managed] EXCEPT !.alive = @ + 1, !.ready = FALSE,
                                       !.socket = TRUE, !.pidfile = TRUE])
  /\ Advance

\* wait_for_runner_docker gives up after thirty tries.
AwaitDaemon ==
  /\ At("awaitDaemon")
  /\ IF Responds(Managed) THEN Advance ELSE EndWith("failed")
  /\ UNCHANGED hostVars

\* runner_docker_down: without a pid file the daemon is taken as stopped.  A
\* daemon that stops takes its containers down with it.
KillDaemon ==
  /\ At("killDaemon")
  /\ IF ~SocketIsManaged(c0)
     THEN EndWith("failed") /\ UNCHANGED hostVars
     ELSE IF ~daemon[c0.pidfile].pidfile
     THEN /\ op' = NextStep(NextStep(op)) /\ UNCHANGED ops
          /\ SetDaemon([daemon[Managed] EXCEPT !.socket = FALSE])
     ELSE /\ Advance
          /\ \E dies \in BOOLEAN :
               daemon' = [daemon EXCEPT
                  ![c0.pidfile].alive = IF dies /\ @ > 0 THEN @ - 1 ELSE @,
                  ![c0.pidfile].ready = @ /\ ~dies]
          /\ UNCHANGED <<services, volumes, trees, runners, egress, bundles,
                         joined>>

AwaitExit ==
  /\ At("awaitExit")
  /\ IF daemon[c0.pidfile].alive = 0
     THEN /\ daemon' = [d \in Deployments |->
                          [daemon[d] EXCEPT
                             !.pidfile = @ /\ d # c0.pidfile,
                             !.socket = @ /\ d # Managed]]
          /\ Advance
     ELSE EndWith("failed") /\ UNCHANGED daemon
  /\ UNCHANGED <<services, volumes, trees, runners, egress, bundles, joined>>

\* remove_rehearsal_path, for the collapsed paths.
RemovePaths ==
  /\ At("removePaths")
  /\ trees' = trees \ PurgePaths(c0)
  /\ runners' = {r \in runners : r.on \notin PurgePaths(c0)}
  /\ daemon' = [d \in Deployments |->
                  IF d \in PurgePaths(c0)
                  THEN [daemon[d] EXCEPT !.socket = FALSE, !.pidfile = FALSE]
                  ELSE daemon[d]]
  /\ Advance
  /\ UNCHANGED <<services, volumes, egress, bundles, joined>>

-----------------------------------------------------------------------------
(* The restore of private bundles into production storage.                 *)

JoinNetwork ==
  /\ At("join")
  /\ joined' = TRUE
  /\ op' = [NextStep(op) EXCEPT !.wasJoined = joined]
  /\ UNCHANGED <<ops, services, volumes, trees, daemon, runners, egress, bundles>>

\* The restore ends: the network is left if it was joined, and a failure to
\* leave it is only a warning.
EndRestore(result) ==
  /\ EndWith(result)
  /\ joined' \in {joined, op.wasJoined}
  /\ UNCHANGED <<services, volumes, trees, daemon, runners, egress>>

LeaveNetwork == At("leave") /\ EndRestore("done") /\ UNCHANGED bundles

Source == Backup[op.at - 1]
Phase(p) == At("copy") /\ op.phase = p

\* copy_one_object, up to the upload: an equal object is skipped, and a
\* different one is replaced only on request.
CopyRead ==
  /\ Phase("read")
  /\ UNCHANGED bundles
  /\ LET there == bundles[Source.dest]
         same == there = Source.value
         copies == there = Absent \/ (~same /\ op.overwrite)
     IN  \/ /\ ~same /\ ~copies
            /\ EndRestore("failed")
         \/ /\ same \/ (copies /\ op.dry)
            /\ Advance
            /\ UNCHANGED <<services, volumes, trees, daemon, runners, egress,
                           joined>>
         \/ /\ copies /\ ~op.dry
            /\ op' = [op EXCEPT !.phase = "put"]
            /\ UNCHANGED <<ops, services, volumes, trees, daemon, runners,
                           egress, joined>>

\* upload_file: without --overwrite the put is conditional on absence.
MayPut(there, overwrite) == overwrite \/ there = Absent

CopyPut ==
  /\ Phase("put")
  /\ \/ /\ MayPut(bundles[Source.dest], op.overwrite)
        /\ bundles' = [bundles EXCEPT ![Source.dest] = Source.value]
        /\ op' = [op EXCEPT !.phase = "verify"]
        /\ UNCHANGED <<ops, services, volumes, trees, daemon, runners, egress,
                       joined>>
     \/ /\ ~MayPut(bundles[Source.dest], op.overwrite)
        /\ EndRestore("failed")
        /\ UNCHANGED bundles

CopyVerify ==
  /\ Phase("verify")
  /\ UNCHANGED bundles
  /\ \/ /\ bundles[Source.dest] = Source.value
        /\ Advance
        /\ UNCHANGED <<services, volumes, trees, daemon, runners, egress, joined>>
     \/ /\ bundles[Source.dest] # Source.value
        /\ EndRestore("failed")

\* Any step's program may fail; a backup object over the size limit is one
\* way for a copy to.
StepFails ==
  /\ Running
  /\ IF op.kind = "restore"
     THEN EndRestore("failed") /\ UNCHANGED bundles
     ELSE EndWith("failed") /\ UNCHANGED hostVars

-----------------------------------------------------------------------------
(* The host around the command.                                            *)

\* A worker of a deployment starts a runner container on its daemon.
LaunchRunner(d) ==
  /\ services[d] \cap WorkerServices # {}
  /\ Responds(d)
  /\ runners' = runners \cup {[on |-> d, of |-> d, whole |-> TRUE]}
  /\ UNCHANGED <<services, volumes, trees, daemon, egress, bundles, joined, op,
                 ops>>

\* A worker removes the container of an attempt that ended.
FinishRunner(d) ==
  /\ services[d] \cap WorkerServices # {}
  /\ Responds(d)
  /\ runners' = runners \ {[on |-> d, of |-> d, whole |-> TRUE]}
  /\ UNCHANGED <<services, volumes, trees, daemon, egress, bundles, joined, op,
                 ops>>

DaemonAnswers(d) ==
  /\ daemon[d].alive > 0 /\ ~daemon[d].ready
  /\ daemon' = [daemon EXCEPT ![d].ready = TRUE]
  /\ UNCHANGED <<services, volumes, trees, runners, egress, bundles, joined, op,
                 ops>>

\* A daemon that dies leaves its pid file and its socket behind.
DaemonDies(d) ==
  /\ daemon[d].alive > 0
  /\ daemon' = [daemon EXCEPT ![d].alive = @ - 1, ![d].ready = FALSE]
  /\ UNCHANGED <<services, volumes, trees, runners, egress, bundles, joined, op,
                 ops>>

\* Another restore, run the same way, writes an object.
OtherWriter(k, v) ==
  /\ MayPut(bundles[k], op.overwrite)
  /\ op.kind = "restore" /\ Running
  /\ bundles' = [bundles EXCEPT ![k] = v]
  /\ UNCHANGED <<services, volumes, trees, daemon, runners, egress, joined, op,
                 ops>>

OperationsInit ==
  /\ services = [d \in Deployments |-> {"api", "worker-cpu"}]
  /\ volumes = Deployments
  /\ trees = Deployments
  /\ daemon \in [Deployments -> {StoppedDaemon, StartingDaemon,
                                [StartingDaemon EXCEPT !.ready = TRUE]}]
  /\ runners = {[on |-> "rehearsal", of |-> "rehearsal", whole |-> FALSE],
                [on |-> "prod", of |-> "prod", whole |-> TRUE]}
  /\ egress = {}
  /\ bundles = [k \in Destinations |-> Absent]
  /\ joined = FALSE
  /\ ops = 0
  /\ op = Operation("check", CHOOSE c \in Contexts : TRUE, FALSE, FALSE, "done")

OperationsNext ==
  \/ \E kind \in Kinds : StartOperation(kind)
  \/ ComposeUp
  \/ RequireWorkers
  \/ ComposeEgress
  \/ RunnerEgress
  \/ RunCheck
  \/ StopWorkers
  \/ ComposeDown("composeDown", FALSE)
  \/ ComposeDown("composeDownVolumes", TRUE)
  \/ ListRunners
  \/ CleanRunners("cleanRunners")
  \/ CleanIfSocket
  \/ AskDaemon
  \/ ClearStale
  \/ EnsureBridge
  \/ SpawnDaemon
  \/ AwaitDaemon
  \/ KillDaemon
  \/ AwaitExit
  \/ RemovePaths
  \/ JoinNetwork
  \/ LeaveNetwork
  \/ CopyRead
  \/ CopyPut
  \/ CopyVerify
  \/ StepFails
  \/ \E d \in Deployments :
       LaunchRunner(d) \/ FinishRunner(d) \/ DaemonAnswers(d) \/ DaemonDies(d)
  \/ \E k \in Destinations, v \in {Backup[i].value : i \in DOMAIN Backup} :
       OtherWriter(k, v)

OperationsSpec == OperationsInit /\ [][OperationsNext]_opsVars

-----------------------------------------------------------------------------
(* Properties.                                                             *)

\* No step of a rehearsal purge touches production: not its services and
\* volumes, not its data tree, its runner daemon or its runner containers,
\* whatever the process environment and the env file mix
\* (build_rehearsal_purge_plan, collect_rehearsal_paths).
PurgeSparesProduction ==
  [][op.kind = "purge" /\ Running /\ op' # op =>
       /\ services'["prod"] = services["prod"]
       /\ volumes \cap {"prod"} \subseteq volumes'
       /\ trees \cap {"prod"} \subseteq trees'
       /\ daemon'["prod"] = daemon["prod"]
       /\ {r \in runners : r.of = "prod"} \subseteq runners']_opsVars

=============================================================================
