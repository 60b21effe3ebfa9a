------------------------- MODULE StoragePreparation -------------------------
(***************************************************************************)
(* Preparation of the runner's quota storage on a host                     *)
(* (`agentics-dgx-storage`) and the profile check a worker runs before it  *)
(* accepts jobs.                                                           *)
(*                                                                         *)
(* The command walks a plan: directories, one loopback XFS image for the   *)
(* Docker data root and one for each writable phase, their mounts, their   *)
(* fstab lines, and in every phase the quota slots of each size class.  A  *)
(* rollback log records what this invocation created, and an error or      *)
(* Ctrl-C undoes it, best effort.  External commands take effect before    *)
(* the log knows of them, a kill leaves no rollback, and the operator may  *)
(* rerun the command with another layout, reboot, or move the mount        *)
(* points.                                                                 *)
(***************************************************************************)
EXTENDS Integers, Sequences, FiniteSets, SequencesExt

CONSTANTS
  PhaseSeq,      \* the configured phases, in their order
  Layouts,       \* the layouts the operator prepares for
  ProjectBase,   \* AGENTICS_DGX_PHASE_PROJECT_ID_BASE
  MaxCommands    \* bound on the number of invocations

\* A layout: the sorted slot classes, the slots of each, the inodes per MiB,
\* and whether mounts are persisted.
LayoutType == [classes: Seq(Nat \ {0}), perClass: Nat \ {0},
               inodesPerMb: Nat \ {0}, persistFstab: BOOLEAN]

ASSUME StorageAssumption ==
  /\ PhaseSeq \in Seq(STRING)
  /\ ProjectBase \in Nat \ {0}
  /\ MaxCommands \in Nat
  /\ Layouts \subseteq LayoutType
  /\ \A l \in Layouts : \A i, j \in DOMAIN l.classes :
       i < j => l.classes[i] < l.classes[j]

Phases == Range(PhaseSeq)
Volumes == {"docker"} \cup Phases

SlotsOf(l) == Range(l.classes) \X (1..l.perClass)
SlotIds == UNION {SlotsOf(l) : l \in Layouts}

\* project_id_base + class_offset * slots_per_class + slot_index.
ProjectId_NoStride(l, k, i) == ProjectBase + (k - 1) + i
ProjectId(l, k, i) == ProjectBase + (k - 1) * l.perClass + i

Projects ==
  UNION {{ProjectId(l, k, i) : k \in DOMAIN l.classes, i \in 1..l.perClass} :
         l \in Layouts}

\* SlotMetadata::new: what `.agentics-slot.json` says of a slot.
SlotMetadata(l, s, project) ==
  [class |-> s[1], index |-> s[2], project |-> project,
   inodesPerMb |-> l.inodesPerMb, inodes |-> s[1] * l.inodesPerMb]
NoMeta == [class |-> 0, index |-> 0, project |-> 0, inodesPerMb |-> 0,
           inodes |-> 0]

\* A slot directory: the XFS project it is assigned to and its metadata.
NoSlot == [there |-> FALSE, project |-> 0, meta |-> NoMeta]
NoSlots == [s \in SlotIds |-> NoSlot]
NoLimit == [mb |-> 0, inodes |-> 0]
NoLimits == [i \in Projects |-> NoLimit]

VARIABLES
  image,     \* each volume's image file: absent, truncated, or formatted
  dirs,      \* the directories that exist: "state" and the mount points
  mounted,   \* the mount points with an active mount
  orphaned,  \* the mounted volumes whose image file was deleted under them
  fstab,     \* the volumes with a line in /etc/fstab
  slots,     \* the slot directories on each phase's filesystem
  limits,    \* the project limits of each phase's filesystem
  data,      \* the volumes holding data the platform stored before
  cmd,       \* the invocation of the command that runs or ran last
  commands   \* the number of invocations so far

storageVars == <<image, dirs, mounted, orphaned, fstab, slots, limits, data,
                 cmd, commands>>
storageHostVars == <<image, dirs, mounted, orphaned, fstab, slots, limits, data>>

-----------------------------------------------------------------------------
(* The plan.                                                               *)

Do(op, v) == [op |-> op, vol |-> v, slot |-> <<0, 0>>, project |-> 0]

VolumePlan(l, v) ==
  <<Do("image", v), Do("mount", v)>>
    \o (IF l.persistFstab THEN <<Do("fstab", v)>> ELSE <<>>)

SlotPlan(l, p) ==
  [n \in 1..(Len(l.classes) * l.perClass) |->
     LET k == 1 + (n - 1) \div l.perClass
         i == 1 + ((n - 1) % l.perClass)
     IN  [op |-> "slot", vol |-> p, slot |-> <<l.classes[k], i>>,
          project |-> ProjectId(l, k, i)]]

PhasePlan(l, p) == VolumePlan(l, p) \o SlotPlan(l, p)

\* The plans of the phases, all of one length, one after the other.
PhaseSteps(l) == Len(VolumePlan(l, "docker")) + Len(l.classes) * l.perClass

PhasePlans(l) ==
  [n \in 1..(Len(PhaseSeq) * PhaseSteps(l)) |->
     LET k == 1 + (n - 1) \div PhaseSteps(l)
         i == 1 + ((n - 1) % PhaseSteps(l))
     IN  PhasePlan(l, PhaseSeq[k])[i]]

\* StoragePlan::from_config.  The state root stands for the directories that
\* only hold others; the Docker data root is the one that is mounted over.
StoragePlan(l) ==
  <<Do("dir", "state"), Do("dir", "docker")>>
    \o VolumePlan(l, "docker")
    \o PhasePlans(l)
    \o <<Do("chown", "docker")>>

\* An invocation: where it is in its plan, the rollback log (created paths,
\* mounts, the fstab and metadata backups), and what was there before it.
NoBackup == <<>>
Invocation(l) ==
  [state |-> "running", layout |-> l, at |-> 1, stage |-> 1,
   made |-> {}, mnts |-> {}, fstabOld |-> NoBackup,
   metaOld |-> [p \in Phases |-> {}], had |-> dirs, held |-> data]

Preparing == cmd.state = "running"
Step == StoragePlan(cmd.layout)[cmd.at]

\* The action is done: on to the next, or the command succeeded.
NextPhase(c) ==
  IF c.at = Len(StoragePlan(c.layout))
  THEN [c EXCEPT !.state = "done"]
  ELSE [c EXCEPT !.at = c.at + 1, !.stage = 1]
Within(c) == [c EXCEPT !.stage = c.stage + 1]

Recorded(c, kind, path, exists) ==
  IF exists THEN c ELSE [c EXCEPT !.made = c.made \cup {<<kind, path>>}]

-----------------------------------------------------------------------------
(* The actions of the plan, split where an external command may fail or    *)
(* the process may be stopped.                                             *)

AtPhase(op, stage) == Preparing /\ Step.op = op /\ cmd.stage = stage

EnsureDirectory ==
  /\ AtPhase("dir", 1)
  /\ dirs' = dirs \cup {Step.vol}
  /\ cmd' = NextPhase(Recorded(cmd, "dir", Step.vol, Step.vol \in dirs))
  /\ UNCHANGED <<image, mounted, orphaned, fstab, slots, limits, data, commands>>

\* ensure_xfs_image: an image that exists is taken as it is.
EnsureImage ==
  /\ AtPhase("image", 1)
  /\ IF image[Step.vol] # "none"
     THEN cmd' = NextPhase(cmd) /\ UNCHANGED image
     ELSE /\ image' = [image EXCEPT ![Step.vol] = "raw"]
          /\ cmd' = Within(Recorded(cmd, "image", Step.vol, FALSE))
  /\ UNCHANGED <<dirs, mounted, orphaned, fstab, slots, limits, data, commands>>

\* mkfs.xfs: an empty filesystem, unless an earlier one is still mounted.
FormatImage ==
  /\ AtPhase("image", 2)
  /\ image' = [image EXCEPT ![Step.vol] = "xfs"]
  /\ cmd' = NextPhase(cmd)
  /\ IF Step.vol \in Phases /\ Step.vol \notin orphaned
     THEN /\ slots' = [slots EXCEPT ![Step.vol] = NoSlots]
          /\ limits' = [limits EXCEPT ![Step.vol] = NoLimits]
     ELSE UNCHANGED <<slots, limits>>
  /\ UNCHANGED <<dirs, mounted, orphaned, fstab, data, commands>>

EnsureMount ==
  /\ AtPhase("mount", 1)
  /\ dirs' = dirs \cup {Step.vol}
  /\ LET c == Recorded(cmd, "dir", Step.vol, Step.vol \in dirs)
     IN  cmd' = IF Step.vol \in mounted THEN NextPhase(c) ELSE Within(c)
  /\ UNCHANGED <<image, mounted, orphaned, fstab, slots, limits, data, commands>>

MountVolume ==
  /\ AtPhase("mount", 2)
  /\ image[Step.vol] = "xfs"
  /\ mounted' = mounted \cup {Step.vol}
  /\ cmd' = NextPhase([cmd EXCEPT !.mnts = cmd.mnts \cup {Step.vol}])
  /\ UNCHANGED <<image, dirs, orphaned, fstab, slots, limits, data, commands>>

\* ensure_fstab_entry: one backup of the file for the whole invocation.
EnsureFstab ==
  /\ AtPhase("fstab", 1)
  /\ fstab' = fstab \cup {Step.vol}
  /\ cmd' = NextPhase(IF Step.vol \in fstab \/ cmd.fstabOld # NoBackup THEN cmd
                    ELSE [cmd EXCEPT !.fstabOld = <<fstab>>])
  /\ UNCHANGED <<image, dirs, mounted, orphaned, slots, limits, data, commands>>

SlotNow == slots[Step.vol][Step.slot]

EnsureSlot ==
  /\ AtPhase("slot", 1)
  /\ slots' = [slots EXCEPT ![Step.vol][Step.slot].there = TRUE]
  /\ cmd' = Within(Recorded(cmd, "slot", <<Step.vol, Step.slot>>, SlotNow.there))
  /\ UNCHANGED <<image, dirs, mounted, orphaned, fstab, limits, data, commands>>

AssignProject ==
  /\ AtPhase("slot", 2)
  /\ slots' = [slots EXCEPT ![Step.vol][Step.slot].project = Step.project]
  /\ cmd' = Within(cmd)
  /\ UNCHANGED <<image, dirs, mounted, orphaned, fstab, limits, data, commands>>

ApplyLimits ==
  /\ AtPhase("slot", 3)
  /\ limits' = [limits EXCEPT ![Step.vol][Step.project] =
                  [mb |-> Step.slot[1],
                   inodes |-> Step.slot[1] * cmd.layout.inodesPerMb]]
  /\ cmd' = Within(cmd)
  /\ UNCHANGED <<image, dirs, mounted, orphaned, fstab, slots, data, commands>>

WriteMetadata ==
  /\ AtPhase("slot", 4)
  /\ slots' = [slots EXCEPT ![Step.vol][Step.slot].meta =
                 SlotMetadata(cmd.layout, Step.slot, Step.project)]
  /\ cmd' = NextPhase(IF SlotNow.meta = NoMeta THEN cmd
                    ELSE [cmd EXCEPT !.metaOld[Step.vol] =
                            @ \cup {<<Step.slot, SlotNow.meta>>}])
  /\ UNCHANGED <<image, dirs, mounted, orphaned, fstab, limits, data, commands>>

ChownOwnedPaths ==
  /\ AtPhase("chown", 1)
  /\ cmd' = NextPhase(cmd)
  /\ UNCHANGED <<storageHostVars, commands>>

-----------------------------------------------------------------------------
(* Failure, interruption and rollback.                                     *)

\* Any step may fail, and Ctrl-C may win the race before the step's command
\* has had an effect.
PhaseFails ==
  /\ Preparing
  /\ cmd' = [cmd EXCEPT !.state = "rollback"]
  /\ UNCHANGED <<storageHostVars, commands>>

\* Ctrl-C wins after the command took effect and before the log has it.
StopAfterTruncate ==
  /\ AtPhase("image", 1)
  /\ image[Step.vol] = "none"
  /\ image' = [image EXCEPT ![Step.vol] = "raw"]
  /\ cmd' = [cmd EXCEPT !.state = "rollback"]
  /\ UNCHANGED <<dirs, mounted, orphaned, fstab, slots, limits, data, commands>>

StopAfterMount ==
  /\ AtPhase("mount", 2)
  /\ image[Step.vol] = "xfs"
  /\ mounted' = mounted \cup {Step.vol}
  /\ cmd' = [cmd EXCEPT !.state = "rollback"]
  /\ UNCHANGED <<image, dirs, orphaned, fstab, slots, limits, data, commands>>

\* RollbackLog::rollback.  The mounts go first and a failed umount is
\* ignored, so the restored metadata and the removed slots only reach a
\* filesystem that is still mounted, and removing a created directory empties
\* the filesystems mounted below it and stops at their mount points.
Rollback(stuck) ==
  LET now     == mounted \ (cmd.mnts \ stuck)
      noState == <<"dir", "state">> \in cmd.made /\ now = {}
      goneImg == {v \in Volumes : <<"image", v>> \in cmd.made \/ noState}
      goneDir == {v \in Volumes : \/ <<"dir", v>> \in cmd.made
                                  \/ <<"dir", "state">> \in cmd.made}
      wiped   == {v \in now : v \in goneDir}
      restore(p, s) ==
        LET old == {m \in cmd.metaOld[p] : m[1] = s}
        IN  IF p \in wiped \/ (<<"slot", <<p, s>>>> \in cmd.made /\ p \in now)
            THEN NoSlot
            ELSE IF p \in now /\ old # {}
                 THEN [slots[p][s] EXCEPT !.meta = (CHOOSE m \in old : TRUE)[2]]
                 ELSE slots[p][s]
      empty(p) == p \in goneImg /\ p \notin now
  IN  /\ mounted' = now
      /\ fstab' = IF cmd.fstabOld = NoBackup THEN fstab ELSE cmd.fstabOld[1]
      /\ image' = [v \in Volumes |-> IF v \in goneImg THEN "none" ELSE image[v]]
      /\ orphaned' = orphaned \cup (goneImg \cap now)
      /\ dirs' = (dirs \ (goneDir \ now))
                   \ (IF noState THEN {"state"} ELSE {})
      /\ slots' = [p \in Phases |-> IF empty(p) THEN NoSlots
                                    ELSE [s \in SlotIds |-> restore(p, s)]]
      /\ limits' = [p \in Phases |-> IF empty(p) THEN NoLimits ELSE limits[p]]
      /\ data' = data \ (wiped \cup (goneImg \ now))

RollbackRun ==
  /\ cmd.state = "rollback"
  /\ \E stuck \in SUBSET cmd.mnts : Rollback(stuck)
  /\ cmd' = [cmd EXCEPT !.state = "failed"]
  /\ UNCHANGED commands

\* The process is killed: nothing is rolled back.
PreparationCrash ==
  /\ cmd.state \in {"running", "rollback"}
  /\ cmd' = [cmd EXCEPT !.state = "killed"]
  /\ UNCHANGED <<storageHostVars, commands>>

-----------------------------------------------------------------------------
(* The profile check of a worker that starts.                              *)

LimitOf(p, project) == IF project = 0 THEN NoLimit ELSE limits[p][project]

\* check_xfs_mount, on a host whose own root is not an XFS with project quotas.
CheckMounts == \A v \in Volumes : v \in dirs /\ v \in mounted

\* validate_slot_metadata
MetadataMatches(l, p, s) ==
  LET m == slots[p][s].meta
  IN  /\ m.class = s[1] /\ m.index = s[2]
      /\ m.inodesPerMb = l.inodesPerMb
      /\ m.inodes = s[1] * l.inodesPerMb

\* check_project_inode_quota: the hard limit of the project the metadata
\* names; a worker without the privilege to read it takes the slot as it is.
QuotaMatches(l, p, s, privileged) ==
  privileged => LimitOf(p, slots[p][s].meta.project).inodes = s[1] * l.inodesPerMb

CheckSlots(l, privileged) ==
  \A p \in Phases, s \in SlotsOf(l) :
    /\ slots[p][s].there
    /\ MetadataMatches(l, p, s)
    /\ QuotaMatches(l, p, s, privileged)

ProfilePasses(l, privileged) ==
  "state" \in dirs /\ CheckMounts /\ CheckSlots(l, privileged)

\* slot_quota_probe: writing one MiB more than the class into the first slot
\* of the probed class must run out of space.
SlotQuotaProbe(l, p) ==
  LET s == <<l.classes[1], 1>>
      m == LimitOf(p, slots[p][s].project).mb
  IN  slots[p][s].there /\ slots[p][s].project # 0 /\ m # 0 /\ m <= s[1]

\* check_mutating_probe_policy: the probes may be skipped, except in require
\* mode.
MutatingProbes(l, mode, wanted) ==
  IF wanted THEN \A p \in Phases : SlotQuotaProbe(l, p) ELSE mode # "require"

\* enforce_host_probe: only require mode keeps a worker from starting.
WorkerMayStart(l, mode, privileged, wanted) ==
  mode = "require" =>
    ProfilePasses(l, privileged) /\ MutatingProbes(l, mode, wanted)

-----------------------------------------------------------------------------
(* The operator, the platform and the host around the command.             *)

\* prepare_storage_config: Linux and root, the confirmation text, and roots
\* below the allowed ones; a dry run changes nothing.
Admitted(root, confirmed, safeRoots, dryRun) ==
  root /\ confirmed /\ safeRoots /\ ~dryRun

StartPreparation(l) ==
  /\ cmd.state \notin {"running", "rollback"}
  /\ commands < MaxCommands
  /\ \E root, confirmed, safeRoots, dryRun \in BOOLEAN :
       Admitted(root, confirmed, safeRoots, dryRun)
  /\ cmd' = Invocation(l)
  /\ commands' = commands + 1
  /\ UNCHANGED storageHostVars

\* A worker starts, under the layout and the probe mode of its own
\* environment, and its jobs and the Docker daemon store data.
StoreData(l, mode, privileged, wanted) ==
  /\ cmd.state \notin {"running", "rollback"}
  /\ WorkerMayStart(l, mode, privileged, wanted)
  /\ mounted \ data # {}
  /\ data' = data \cup mounted
  /\ UNCHANGED <<image, dirs, mounted, orphaned, fstab, slots, limits, cmd,
                 commands>>

Detach(now) ==
  LET lost == orphaned \ now
  IN  /\ mounted' = now
      /\ orphaned' = orphaned \cap now
      /\ slots' = [p \in Phases |-> IF p \in lost THEN NoSlots ELSE slots[p]]
      /\ limits' = [p \in Phases |-> IF p \in lost THEN NoLimits ELSE limits[p]]
      /\ data' = data \ lost
      /\ cmd' = [cmd EXCEPT !.state = "idle"]

\* A reboot mounts what fstab names.
Reboot ==
  /\ cmd.state \notin {"running", "rollback", "idle"}
  /\ Detach({v \in fstab : image[v] = "xfs" /\ v \in dirs} \ orphaned)
  /\ UNCHANGED <<image, dirs, fstab, commands>>

\* The operator unmounts everything and moves the mount points elsewhere.
MoveMountPoints ==
  /\ cmd.state \notin {"running", "rollback", "idle"}
  /\ Detach({})
  /\ dirs' = dirs \ Volumes
  /\ UNCHANGED <<image, fstab, commands>>

StorageInit ==
  /\ image = [v \in Volumes |-> "none"]
  /\ dirs = {}
  /\ mounted = {}
  /\ orphaned = {}
  /\ fstab = {}
  /\ slots = [p \in Phases |-> NoSlots]
  /\ limits = [p \in Phases |-> NoLimits]
  /\ data = {}
  /\ \E l \in Layouts : cmd = [Invocation(l) EXCEPT !.state = "idle"]
  /\ commands = 0

StorageNext ==
  \/ \E l \in Layouts : StartPreparation(l)
  \/ EnsureDirectory
  \/ EnsureImage
  \/ FormatImage
  \/ EnsureMount
  \/ MountVolume
  \/ EnsureFstab
  \/ EnsureSlot
  \/ AssignProject
  \/ ApplyLimits
  \/ WriteMetadata
  \/ ChownOwnedPaths
  \/ PhaseFails
  \/ StopAfterTruncate
  \/ StopAfterMount
  \/ RollbackRun
  \/ PreparationCrash
  \/ \E l \in Layouts, mode \in {"off", "warn", "require"},
        privileged, wanted \in BOOLEAN :
        StoreData(l, mode, privileged, wanted)
  \/ Reboot
  \/ MoveMountPoints

StorageSpec == StorageInit /\ [][StorageNext]_storageVars

-----------------------------------------------------------------------------
(* Properties.                                                             *)

Bounded(p, s) ==
  /\ slots[p][s].project # 0
  /\ limits[p][slots[p][s].project].mb = s[1]

\* A host the command reports as prepared passes the privileged profile check
\* for the same layout, and every slot of the layout is limited to its class
\* by a project no other slot of the layout shares: a job can neither exceed
\* its slot nor use up the quota of another.  It must hold after any sequence
\* of failed, interrupted and killed runs with other layouts
\* (ensure_quota_slot, StoragePlan::from_config, check_slot).
PreparedIsUsable ==
  cmd.state = "done" =>
    /\ ProfilePasses(cmd.layout, TRUE)
    /\ \A p \in Phases : \A s \in SlotsOf(cmd.layout) :
         /\ Bounded(p, s)
         /\ \A t \in SlotsOf(cmd.layout) \ {s} :
              slots[p][t].project # slots[p][s].project

=============================================================================
