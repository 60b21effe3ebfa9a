--------------------------- MODULE ObjectStorage ---------------------------
(* crates/storage: write-once objects over a local directory or an S3 bucket,  *)
(* and the tar archives challenge bundles are stored as. Callers run their     *)
(* operations against one durable key and one temporary key each; every call   *)
(* to the file system or to the bucket is a step, any of them may fail or lose *)
(* its answer, and a caller may stop between two.                              *)
EXTENDS Integers, FiniteSets, FiniteSetsExt

CONSTANTS
    Callers,          \* API handlers, workers and the clean-up
    Trees,            \* bundle directories: sets of entries
    MaxTarEntries,    \* MAX_BUNDLE_TAR_ENTRIES, scaled
    MaxTarDepth,      \* MAX_BUNDLE_TAR_DEPTH, scaled
    MaxArchiveBytes   \* the intent's cap, the same for writing and for reading

ASSUME ArchiveAssumption == {MaxTarEntries, MaxTarDepth, MaxArchiveBytes} \subseteq Nat

\* A directory has finitely many entries, each at some depth under it.
ASSUME TreesAssumption ==
    \A tree \in Trees :
        IsFiniteSet(tree) /\ \A e \in tree : e.depth \in Nat \ {0} /\ e.size \in Nat

\* The durable key and the mark of no object are no caller's.
ASSUME CallersAssumption == {"durable", "none"} \cap Callers = {}

VARIABLES
    backend,   \* AGENTICS_STORAGE_BACKEND
    objects,   \* the objects, by key
    beside,    \* a caller's .agentics-write file next to the key it writes
    call       \* the callers

objectVars == <<backend, objects, beside, call>>

-----------------------------------------------------------------------------
(* Tar archives.                                                              *)

PaddedTarFileSize(size) == IF size % 512 = 0 THEN size ELSE size + 512 - (size % 512)

\* What the projection knows of a file is its length; a "sparse" file is one hole.
Content(entry) == IF entry.kind \in {"file", "sparse"} THEN PaddedTarFileSize(entry.size) ELSE 0

ProjectedBytes(tree) == 1024 + MapThenSumSet(LAMBDA e : 4096 + Content(e), tree)

\* The tar format: a header block per entry, padded content, two final blocks. The
\* builder writes a sparse file as a GNUSparse entry, without its holes.
Archived(entry) == IF entry.kind = "sparse" THEN 0 ELSE Content(entry)

ArchiveBytes(tree) == 1024 + MapThenSumSet(LAMBDA e : 512 + Archived(e), tree)

\* Mutant: the depth is checked when the archive is unpacked only.
TarSourceIsValid_AnyDepth(tree) ==
    /\ \A e \in tree : e.kind \in {"dir", "file", "sparse"}
    /\ Cardinality(tree) <= MaxTarEntries
    /\ ProjectedBytes(tree) <= MaxArchiveBytes

\* validate_tar_source_limits.
TarSourceIsValid(tree) ==
    /\ \A e \in tree : e.kind \in {"dir", "file", "sparse"} /\ e.depth <= MaxTarDepth
    /\ Cardinality(tree) <= MaxTarEntries
    /\ ProjectedBytes(tree) <= MaxArchiveBytes

\* pack_directory_to_tar_blocking refuses the tree or makes its archive.
Packs(tree) == TarSourceIsValid(tree) /\ ArchiveBytes(tree) <= MaxArchiveBytes

\* validate_tar_path.
TarPathIsSafe(entry) == entry.depth \in 1..MaxTarDepth

\* copy_tar_file_with_limit counts content only.
CopiedBytes(tree) == MapThenSumSet(LAMBDA e : IF e.kind = "file" THEN e.size ELSE 0, tree)

\* unpack_tar_to_directory_blocking takes Regular entries and directories only.
Unpacks(tree) ==
    /\ \A e \in tree : TarPathIsSafe(e) /\ e.kind \in {"dir", "file"}
    /\ Cardinality(tree) <= MaxTarEntries
    /\ CopiedBytes(tree) <= MaxArchiveBytes

-----------------------------------------------------------------------------
(* Keys and calls. Temporary keys hold a fresh UUID, so a caller owns its own.*)

Durable == "durable"
ObjectKeys == Callers \cup {Durable}
NoObject == [by |-> "none", tree |-> {}]
IsObject(content) == content.by # "none"

\* storage_key_is_within_prefix, for the prefix "_tmp".
WithinTmp(key) == key \in Callers

\* A call of c on its way: the key it writes, the archive it holds, the objects
\* a sweep has still to delete.
IdleCall == [op |-> "none", pc |-> "idle", key |-> Durable, holds |-> NoObject, todo |-> {}]

InFlight(c) == call[c].pc \notin {"idle", "stored", "failed", "fetched", "corrupt", "swept", "crashed"}
Goes(c, pc) == call' = [call EXCEPT ![c].pc = pc]

\* A write returned: a promotion's first write goes on with the promotion, and a
\* caller whose promotion failed deletes its temporary object.
Returned(c) == IF call[c].key = Durable THEN "stored" ELSE "promote"
Refused(c) == IF call[c].op = "upload" /\ call[c].key = Durable THEN "drop_temporary" ELSE "failed"

\* Mutant: the write does not ask for the key to be free.
MayCreate_Always(key) == TRUE

\* hard_link fails on an existing name, put_object with if_none_match "*" on an
\* existing key.
MayCreate(key) == ~IsObject(objects[key])

ObjectInit ==
    /\ backend \in {"local", "s3"}
    /\ objects = [k \in ObjectKeys |-> NoObject]
    /\ beside = [c \in Callers |-> "none"]
    /\ call = [c \in Callers |-> IdleCall]

-----------------------------------------------------------------------------
(* Writers: a published bundle is packed and put under the durable key, an     *)
(* upload is put under a temporary key and promoted.                           *)

\* pack_directory_to_tar.
Publish(c) ==
    /\ call[c].pc = "idle"
    /\ \E tree \in Trees :
          call' = [call EXCEPT ![c] = [IdleCall EXCEPT !.op = "publish", !.holds = [by |-> c, tree |-> tree],
                                                   !.pc = IF Packs(tree) THEN "put" ELSE "failed"]]
    /\ UNCHANGED <<backend, objects, beside>>

Upload(c) ==
    /\ call[c].pc = "idle"
    /\ \E tree \in Trees :
          /\ Packs(tree)
          /\ call' = [call EXCEPT ![c] = [IdleCall EXCEPT !.op = "upload", !.key = c, !.pc = "put",
                                                      !.holds = [by |-> c, tree |-> tree]]]
    /\ UNCHANGED <<backend, objects, beside>>

\* LocalStorage::put_file: the name is free, the content goes to a file beside it.
LocalPut(c) ==
    /\ backend = "local"
    /\ call[c].pc = "put"
    /\ IF MayCreate(call[c].key)
       THEN /\ beside' = [beside EXCEPT ![c] = "partial"]
            /\ Goes(c, "write")
       ELSE /\ Goes(c, Refused(c))
            /\ UNCHANGED beside
    /\ UNCHANGED <<backend, objects>>

LocalWrite(c) ==
    /\ call[c].pc = "write"
    /\ IF beside[c] = "partial"
       THEN /\ beside' = [beside EXCEPT ![c] = "whole"]
            /\ Goes(c, "link")
       ELSE /\ UNCHANGED beside
            /\ Goes(c, "unclean")
    /\ UNCHANGED <<backend, objects>>

LocalWriteFails(c) ==
    /\ call[c].pc = "write"
    /\ Goes(c, "unclean")
    /\ UNCHANGED <<backend, objects, beside>>

\* finalize_local_temp_without_overwrite: the link and the removal of the file
\* beside; a failed removal takes the object away again, if it can.
LocalLink(c) ==
    /\ call[c].pc = "link"
    /\ IF MayCreate(call[c].key) /\ beside[c] = "whole"
       THEN /\ objects' = [objects EXCEPT ![call[c].key] = call[c].holds]
            /\ Goes(c, "unlink")
       ELSE /\ Goes(c, "unclean")
            /\ UNCHANGED objects
    /\ UNCHANGED <<backend, beside>>

LocalUnlink(c) ==
    /\ call[c].pc = "unlink"
    /\ \/ /\ beside[c] = "whole"
          /\ beside' = [beside EXCEPT ![c] = "none"]
          /\ Goes(c, Returned(c))
          /\ UNCHANGED objects
       \/ /\ objects' = [objects EXCEPT ![call[c].key] = NoObject] \/ UNCHANGED objects
          /\ Goes(c, "unclean")
          /\ UNCHANGED beside
    /\ UNCHANGED backend

\* cleanup_temp_file_on_error.
LocalCleanup(c) ==
    /\ call[c].pc = "unclean"
    /\ beside' = [beside EXCEPT ![c] = "none"]
    /\ Goes(c, Refused(c))
    /\ UNCHANGED <<backend, objects>>

\* S3Storage::put_file: one conditional request.
S3Put(c) ==
    /\ backend = "s3"
    /\ call[c].pc = "put"
    /\ IF MayCreate(call[c].key)
       THEN /\ objects' = [objects EXCEPT ![call[c].key] = call[c].holds]
            /\ Goes(c, "verify")
       ELSE /\ Goes(c, Refused(c))
            /\ UNCHANGED objects
    /\ UNCHANGED <<backend, beside>>

\* The request or its answer is lost, or the client retried a request whose first
\* answer was lost and took its own object for a conflict.
S3PutFails(c) ==
    /\ backend = "s3"
    /\ call[c].pc = "put"
    /\ \/ UNCHANGED objects
       \/ /\ MayCreate(call[c].key)
          /\ objects' = [objects EXCEPT ![call[c].key] = call[c].holds]
    /\ Goes(c, Refused(c))
    /\ UNCHANGED <<backend, beside>>

\* verify_object_len: the object is there with the length that was sent.
LengthIs(key, content) ==
    IsObject(objects[key]) /\ ArchiveBytes(objects[key].tree) = ArchiveBytes(content.tree)

S3Verify(c) ==
    /\ call[c].pc = "verify"
    /\ LengthIs(call[c].key, call[c].holds)
    /\ Goes(c, IF call[c].op = "upload" /\ call[c].key = Durable THEN "drop_promoted" ELSE Returned(c))
    /\ UNCHANGED <<backend, objects, beside>>

\* A length that differs, or a HEAD that fails, deletes the key; so may that.
S3VerifyFails(c) ==
    /\ call[c].pc = "verify"
    /\ objects' = [objects EXCEPT ![call[c].key] = NoObject] \/ UNCHANGED objects
    /\ Goes(c, Refused(c))
    /\ UNCHANGED <<backend, beside>>

\* LocalStorage::promote, up to its look at both names; S3Storage::promote, up to
\* the download of the temporary object.
LocalPromote(c) ==
    /\ backend = "local"
    /\ call[c].pc = "promote"
    /\ call' = [call EXCEPT ![c].key = Durable,
                            ![c].pc = IF IsObject(objects[c]) /\ MayCreate(Durable)
                                      THEN "promote_link" ELSE "drop_temporary"]
    /\ UNCHANGED <<backend, objects, beside>>

S3Promote(c) ==
    /\ backend = "s3"
    /\ call[c].pc = "promote"
    /\ \E answered \in BOOLEAN :
          call' = [call EXCEPT ![c].key = Durable,
                               ![c].holds = objects[c],
                               ![c].pc = IF answered /\ IsObject(objects[c])
                                         THEN "put" ELSE "drop_temporary"]
    /\ UNCHANGED <<backend, objects, beside>>

LocalPromoteLink(c) ==
    /\ call[c].pc = "promote_link"
    /\ IF IsObject(objects[c]) /\ MayCreate(Durable)
       THEN /\ objects' = [objects EXCEPT ![Durable] = objects[c]]
            /\ Goes(c, "promote_unlink")
       ELSE /\ Goes(c, "drop_temporary")
            /\ UNCHANGED objects
    /\ UNCHANGED <<backend, beside>>

\* A temporary name that cannot be removed, or is gone, undoes the promotion
\* as far as the durable name can be removed.
LocalPromoteUnlink(c) ==
    /\ call[c].pc = "promote_unlink"
    /\ \/ /\ IsObject(objects[c])
          /\ objects' = [objects EXCEPT ![c] = NoObject]
          /\ Goes(c, "stored")
       \/ /\ objects' = [objects EXCEPT ![Durable] = NoObject] \/ UNCHANGED objects
          /\ Goes(c, "drop_temporary")
    /\ UNCHANGED <<backend, beside>>

\* The temporary object of a finished promotion, and of one that failed, is
\* deleted; a failure is ignored.
DropTemporary(c) ==
    /\ call[c].pc \in {"drop_promoted", "drop_temporary"}
    /\ objects' = [objects EXCEPT ![c] = NoObject] \/ UNCHANGED objects
    /\ Goes(c, IF call[c].pc = "drop_promoted" THEN "stored" ELSE "failed")
    /\ UNCHANGED <<backend, beside>>

\* The caller of a stored object could not record it, and deletes its key.
Delete(c) ==
    /\ call[c].pc = "stored"
    /\ objects' = [objects EXCEPT ![Durable] = NoObject]
    /\ Goes(c, "failed")
    /\ UNCHANGED <<backend, beside>>

-----------------------------------------------------------------------------
(* Readers: the runner reads the solution ZIP, or downloads a bundle and       *)
(* unpacks it.                                                                 *)

\* The length of the object is read first, and capped.
Stat(c) ==
    /\ call[c].pc = "idle"
    /\ call' = [call EXCEPT ![c] = [IdleCall EXCEPT !.op = "fetch", !.holds = objects[Durable],
                                                !.pc = IF /\ IsObject(objects[Durable])
                                                          /\ ArchiveBytes(objects[Durable].tree) <= MaxArchiveBytes
                                                       THEN "get" ELSE "failed"]]
    /\ UNCHANGED <<backend, objects, beside>>

Fetched(c) ==
    IF LengthIs(Durable, call[c].holds)
    THEN call' = [call EXCEPT ![c].holds = objects[Durable],
                              ![c].pc = IF Unpacks(objects[Durable].tree) THEN "fetched" ELSE "corrupt"]
    ELSE Goes(c, "failed")

\* get: bytes that do not add up to the length are refused.
LocalGet(c) ==
    /\ backend = "local"
    /\ call[c].pc = "get"
    /\ IF LengthIs(Durable, call[c].holds)
       THEN call' = [call EXCEPT ![c].holds = objects[Durable], ![c].pc = "fetched"]
       ELSE Goes(c, "failed")
    /\ UNCHANGED <<backend, objects, beside>>

\* The body of a response may also end early.
S3Get(c) ==
    /\ backend = "s3"
    /\ call[c].pc = "get"
    /\ \/ /\ LengthIs(Durable, call[c].holds)
          /\ call' = [call EXCEPT ![c].holds = objects[Durable], ![c].pc = "fetched"]
       \/ Goes(c, "failed")
    /\ UNCHANGED <<backend, objects, beside>>

\* get_to_file, then unpack_tar_to_directory.
LocalGetToFile(c) ==
    /\ backend = "local"
    /\ call[c].pc = "get"
    /\ Fetched(c)
    /\ UNCHANGED <<backend, objects, beside>>

S3GetToFile(c) ==
    /\ backend = "s3"
    /\ call[c].pc = "get"
    /\ Fetched(c) \/ Goes(c, "failed")
    /\ UNCHANGED <<backend, objects, beside>>

-----------------------------------------------------------------------------
(* delete_prefix_older_than over "_tmp". Any temporary object may be older than *)
(* the cutoff: its caller may be slow, or long gone.                            *)

TemporaryFiles == {k \in ObjectKeys : WithinTmp(k) /\ IsObject(objects[k])}

\* list_prefix, or list_objects_v2 to its last page.
SweepLists(c) ==
    /\ call[c].pc = "idle"
    /\ \E old \in SUBSET TemporaryFiles :
          call' = [call EXCEPT ![c] = [IdleCall EXCEPT !.op = "sweep", !.pc = "sweep", !.todo = old]]
    /\ UNCHANGED <<backend, objects, beside>>

\* A file that goes away between its metadata and its removal ends a local sweep.
SweepDeletes(c) ==
    /\ call[c].pc = "sweep"
    /\ IF call[c].todo = {}
       THEN Goes(c, "swept") /\ UNCHANGED objects
       ELSE \E k \in call[c].todo :
               \/ /\ objects' = [objects EXCEPT ![k] = NoObject]
                  /\ call' = [call EXCEPT ![c].todo = @ \ {k}]
               \/ Goes(c, "failed") /\ UNCHANGED objects
    /\ UNCHANGED <<backend, beside>>

\* The files beside temporary keys are listed as keys and swept like them.
SweepDeletesBeside(c, d) ==
    /\ backend = "local"
    /\ call[c].pc = "sweep"
    /\ call[d].key = d
    /\ beside[d] # "none"
    /\ beside' = [beside EXCEPT ![d] = "none"]
    /\ UNCHANGED <<backend, objects, call>>

Crash(c) ==
    /\ InFlight(c)
    /\ Goes(c, "crashed")
    /\ UNCHANGED <<backend, objects, beside>>

ObjectNext ==
    \/ \E c \in Callers :
          \/ Publish(c) \/ Upload(c) \/ Stat(c) \/ SweepLists(c)
          \/ LocalPut(c) \/ LocalWrite(c) \/ LocalWriteFails(c)
          \/ LocalLink(c) \/ LocalUnlink(c) \/ LocalCleanup(c)
          \/ S3Put(c) \/ S3PutFails(c) \/ S3Verify(c) \/ S3VerifyFails(c)
          \/ LocalPromote(c) \/ LocalPromoteLink(c) \/ LocalPromoteUnlink(c)
          \/ S3Promote(c) \/ DropTemporary(c) \/ Delete(c)
          \/ LocalGet(c) \/ S3Get(c) \/ LocalGetToFile(c) \/ S3GetToFile(c)
          \/ SweepDeletes(c) \/ Crash(c)
    \/ \E c, d \in Callers : SweepDeletesBeside(c, d)

ObjectSpec == ObjectInit /\ [][ObjectNext]_objectVars

-----------------------------------------------------------------------------
(* Properties.                                                                *)

\* What a put or a promotion acknowledged is under the durable key, unreplaced,
\* until its caller deletes it: whatever other writers of the key, their failed
\* verifications and clean-ups, the sweep of temporary objects and crashes do.
AcknowledgedWriteStays ==
    \A c \in Callers :
        call[c].pc = "stored" => objects[Durable].by = c

\* A bundle that was packed and stored is unpacked whole, unless it has a sparse
\* file: the limits the archive is written under admit nothing else that the limits
\* it is read under refuse, and no reader meets another writer's or a partial object.
StoredBundleUnpacks ==
    \A c \in Callers :
        LET tree == call[c].holds.tree
        IN  /\ call[c].pc = "corrupt" => \E e \in tree : e.kind = "sparse"
            /\ call[c].pc = "fetched" => Packs(tree)

=============================================================================
