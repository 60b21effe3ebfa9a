---------------------------- MODULE MCOperations ----------------------------
(* Small instances, for TLC, of the storage library, the service start-up and  *)
(* the operator's tools. They share no state the models keep, so one of them   *)
(* runs in each behaviour and the others stay as they start.                   *)
EXTENDS ObjectStorage, ServiceStartup, StoragePreparation, ComposeOperations,
        BaselineSubmitter, ProductionRehearsal, TLC

VARIABLE tool

mcVars == <<tool, objectVars, startupVars, storageVars, opsVars, baselineVars, rehearsalVars>>

-----------------------------------------------------------------------------
(* Bundles: one that its padding takes to every limit, one too deep, one with  *)
(* a symbolic link, one with a sparse file.                                    *)
Entry(kind, depth, size) == [kind |-> kind, depth |-> depth, size |-> size]
MCTrees == {{Entry("dir", 1, 0), Entry("file", 2, 513)},
            {Entry("dir", 2, 0), Entry("file", 3, 512)},
            {Entry("symlink", 1, 0)},
            {Entry("sparse", 1, 513)}}

(* Storage layouts: the second one has more slots and is not kept in fstab.   *)
MCPhaseSeq == <<"run">>
MCLayouts ==
    {[classes |-> <<1, 2>>, perClass |-> 1, inodesPerMb |-> 1, persistFstab |-> TRUE],
     [classes |-> <<1, 2>>, perClass |-> 2, inodesPerMb |-> 1, persistFstab |-> FALSE]}

(* Environment files of the two deployments, the one of production with a GPU, *)
(* and one that names no daemon; shells that override one setting of them.     *)
FileOf(d) == [s \in OperatorSettings |-> IF s \in {"gpu", "accelerators"} THEN "unset" ELSE d]
MCEnvFiles == {[FileOf("prod") EXCEPT !["gpu"] = "gpu", !["accelerators"] = "gpu"],
               FileOf("rehearsal"),
               [FileOf("rehearsal") EXCEPT !["socket"] = "unset", !["host"] = "unset"]}
BareShell == [s \in OperatorSettings |-> "unset"]
MCProcessEnvs ==
    {BareShell}
    \cup {[BareShell EXCEPT ![s] = "prod"] : s \in OperatorSettings \ {"gpu", "accelerators"}}
    \cup {[BareShell EXCEPT ![s] = "rehearsal"] : s \in {"project", "namespace", "socket", "host"}}
    \cup {[BareShell EXCEPT !["socket"] = "system", !["host"] = "system"],
          [BareShell EXCEPT !["accelerators"] = "gpu"]}

(* Two backup objects with one destination.                                   *)
MCBackup == <<[dest |-> "x", value |-> "v"], [dest |-> "x", value |-> "w"]>>

MCBaselines == <<"b1", "b2", "b3">>

(* The callers of the storage library are interchangeable.                    *)
CallerSymmetry == Permutations(Callers)

-----------------------------------------------------------------------------
MCInit ==
    /\ tool \in {"objects", "startup", "storage", "compose", "baselines", "rehearsal"}
    /\ ObjectInit /\ StartupInit /\ StorageInit
    /\ OperationsInit /\ BaselineInit /\ RehearsalInit
    /\ tool # "objects" => backend = "local"
    /\ tool # "startup" => file = Example("dev")
    /\ tool # "storage" => cmd = [Invocation(CHOOSE l \in MCLayouts : TRUE) EXCEPT !.state = "idle"]
    /\ daemon["prod"] # StartingDaemon
    /\ tool # "compose" => daemon = [d \in Deployments |-> StoppedDaemon]

MCNext ==
    \/ /\ tool = "objects"
       /\ ObjectNext
       /\ UNCHANGED <<tool, startupVars, storageVars, opsVars, baselineVars, rehearsalVars>>
    \/ /\ tool = "startup"
       /\ StartupNext
       /\ UNCHANGED <<tool, objectVars, storageVars, opsVars, baselineVars, rehearsalVars>>
    \/ /\ tool = "storage"
       /\ StorageNext
       /\ UNCHANGED <<tool, objectVars, startupVars, opsVars, baselineVars, rehearsalVars>>
    \/ /\ tool = "compose"
       /\ OperationsNext
       /\ UNCHANGED <<tool, objectVars, startupVars, storageVars, baselineVars, rehearsalVars>>
    \/ /\ tool = "baselines"
       /\ BaselineNext
       /\ UNCHANGED <<tool, objectVars, startupVars, storageVars, opsVars, rehearsalVars>>
    \/ /\ tool = "rehearsal"
       /\ RehearsalNext
       /\ UNCHANGED <<tool, objectVars, startupVars, storageVars, opsVars, baselineVars>>

MCSpec == MCInit /\ [][MCNext]_mcVars

=============================================================================
