--------------------------- MODULE ChallengeReview ---------------------------
(* One challenge review record: the private assets its creator uploads, the    *)
(* validations and decisions of the reviewers, the publication, and the purge  *)
(* of what was not published (crates/services/src/challenge_review_records and *)
(* the transactions of crates/persistence/src/db/challenge_creation). A        *)
(* request handler is a process that takes one step per call to the database   *)
(* or the storage and may stop between two of them.                            *)
(*                                                                             *)
(* The reviewed commit is fixed by the record, so what a bundle digest tells   *)
(* apart is the set of private assets overlaid on it: a digest is that set.    *)
(* "stale" says that updated_at is older than the window the queries of the    *)
(* record's status compare it with: the publish timeout while publishing, the  *)
(* retention days while open or approved, the grace days afterwards.           *)
EXTENDS Integers, FiniteSets

CONSTANTS
    Uploads,       \* upload requests; each makes one row of challenge_private_assets
    Validations,   \* validation requests; bound on the validations of a record
    Claims,        \* publish requests; each has its own publish_claim_id
    AssetKeys,     \* durable storage keys: an asset name with the digest of its bytes
    Names,         \* the asset names the manifest declares
    KeyOf,         \* the key of the name and bytes an upload carries
    NameOf,        \* the asset name in a key
    AssetQuota,    \* challenge_private_asset_bytes_per_review_record, in assets
    NoDigest,      \* a digest column that IS NULL
    NoId           \* a reference column that IS NULL

ASSUME IdsAssumption == NoId \notin Validations \cup Claims
ASSUME KeysAssumption == /\ KeyOf \in [Uploads -> AssetKeys]
                         /\ NameOf \in [AssetKeys -> Names]
                         /\ \A D \in SUBSET AssetKeys : D # NoDigest
ASSUME QuotaAssumption == AssetQuota \in Nat

VARIABLES
    record,      \* the row of challenge_review_records
    asset,       \* challenge_private_assets, by the upload that reserved the row
    object,      \* the durable private-asset objects in storage
    upload,      \* the upload handlers
    validation,  \* the validation handlers and their rows
    publisher,   \* the publish handlers
    bundle,      \* the runtime bundle in storage under the keys of a publish claim
    challenge,   \* the row of challenges for the record's challenge name
    cleaner,     \* the clean-up handler
    contested,   \* history: the keys that two upload handlers worked on at once
    unheard      \* history: uploads and claims that committed unknown to their handler

vars == <<record, asset, object, upload, validation, publisher, bundle, challenge, cleaner,
          contested, unheard>>

-----------------------------------------------------------------------------
OpenStatuses == {"pending_review", "validated"}
ApprovedStatuses == {"approved", "publishing", "published"}
ClosedStatuses == {"rejected", "abandoned"}
Digests == {NoDigest} \cup SUBSET AssetKeys

RequestKinds == {"new_challenge", "archive_challenge"}

RecordType == [kind : RequestKinds,
               status : OpenStatuses \cup ApprovedStatuses \cup ClosedStatuses,
               validated : Digests,
               approved : Digests,
               active : Validations \cup {NoId},
               claim : Claims \cup {NoId},
               stale : BOOLEAN]
AssetType == [status : {"absent", "pending", "active", "failed", "purging", "deleted"},
              fresh : BOOLEAN]
UploadPc == {"none", "reserved", "found", "unreferenced", "clear", "promoted",
             "failing", "undoing", "undo_object", "done"}
ValidationType == [pc : {"none", "read", "begun", "assembled", "done"},
                   row : {"absent", "running", "passed", "failed"},
                   fresh : BOOLEAN,
                   seen : SUBSET AssetKeys,
                   passed : BOOLEAN]
PublisherType == [pc : {"none", "claimed", "read", "checked", "stored", "dropping", "failing", "done"},
                  seen : SUBSET AssetKeys,
                  approved : Digests]
ChallengeType == [status : {"absent", "active", "archived"}, bundle : Claims \cup {NoId}]
CleanerType == [pc : {"idle", "swept", "purging", "marked", "removed"},
                list : SUBSET Uploads,
                current : Uploads \cup {NoId}]

IdleCleaner == [pc |-> "idle", list |-> {}, current |-> NoId]

\* A record that was just created; an archive request names a published challenge.
Init ==
    /\ \E kind \in RequestKinds :
          record = [kind |-> kind, status |-> "pending_review", validated |-> NoDigest,
                    approved |-> NoDigest, active |-> NoId, claim |-> NoId, stale |-> FALSE]
    /\ asset = [u \in Uploads |-> [status |-> "absent", fresh |-> TRUE]]
    /\ object = {}
    /\ upload = [u \in Uploads |-> "none"]
    /\ validation = [v \in Validations |-> [pc |-> "none", row |-> "absent", fresh |-> TRUE,
                                            seen |-> {}, passed |-> FALSE]]
    /\ publisher = [c \in Claims |-> [pc |-> "none", seen |-> {}, approved |-> NoDigest]]
    /\ bundle = [c \in Claims |-> NoDigest]
    /\ challenge = [status |-> IF record.kind = "new_challenge" THEN "absent" ELSE "active",
                    bundle |-> NoId]
    /\ cleaner = IdleCleaner
    /\ contested = {}
    /\ unheard = {}

-----------------------------------------------------------------------------
(* Queries and shared statements.                                             *)

\* The assets that a read of the record returns.
ActiveAssets == {KeyOf[u] : u \in {x \in Uploads : asset[x].status = "active"}}

HasActiveReference(key) == key \in ActiveAssets

\* Only a new challenge reads the objects of its assets.
CanAssemble(keys) == record.kind = "new_challenge" => keys \subseteq object

\* clear_stale_active_validation_tx: the lease a transaction finds stale is
\* failed and cleared before the transaction goes on.
LeaseIsStale ==
    /\ record.active # NoId
    /\ validation[record.active].row # "running" \/ ~validation[record.active].fresh

LeaseFree == record.active = NoId \/ LeaseIsStale

ExpiredLeases ==
    [v \in Validations |->
        IF v = record.active /\ validation[v].row = "running"
        THEN [validation[v] EXCEPT !.row = "failed"]
        ELSE validation[v]]

\* Mutant: new assets do not invalidate the validation.
Reopened_Kept == record

\* A change of the assets takes a validated record back to review.
Reopened ==
    IF record.status = "validated"
    THEN [record EXCEPT !.status = "pending_review", !.validated = NoDigest, !.approved = NoDigest]
    ELSE record

\* Rows that hold their name and count against the quota, once the stale
\* pending ones have been failed.
KeptAssets ==
    {u \in Uploads : \/ asset[u].status = "active"
                     \/ asset[u].status = "pending" /\ asset[u].fresh}

\* Mutant: only active rows are counted.
QuotaLeft_ActiveOnly == Cardinality(ActiveAssets) < AssetQuota

\* sum_private_asset_bytes_for_review_record_tx, every asset being of one size.
QuotaLeft == Cardinality(KeptAssets) < AssetQuota

-----------------------------------------------------------------------------
(* upload_challenge_private_asset.                                            *)

\* reserve_challenge_private_asset.
UploadReserve(u) ==
    /\ upload[u] = "none"
    /\ record.status \in OpenStatuses
    /\ LeaseFree
    /\ \A x \in KeptAssets : NameOf[KeyOf[x]] # NameOf[KeyOf[u]]
    /\ QuotaLeft
    /\ asset' = [x \in Uploads |->
                    IF x = u THEN [status |-> "pending", fresh |-> TRUE]
                    ELSE IF asset[x].status = "pending" /\ ~asset[x].fresh
                         THEN [asset[x] EXCEPT !.status = "failed"]
                         ELSE asset[x]]
    /\ validation' = ExpiredLeases
    /\ record' = [Reopened EXCEPT !.active = NoId, !.stale = FALSE]
    /\ upload' = [upload EXCEPT ![u] = "reserved"]
    /\ UNCHANGED <<object, publisher, bundle, challenge, cleaner>>

\* The bytes are put under a temporary key of the upload's own, and
\* cleanup_unreferenced_private_asset_object asks whether the durable one exists.
UploadProbe(u) ==
    /\ upload[u] = "reserved"
    /\ upload' = [upload EXCEPT ![u] = IF KeyOf[u] \in object THEN "found" ELSE "clear"]
    /\ UNCHANGED <<record, asset, object, validation, publisher, bundle, challenge, cleaner>>

\* private_asset_storage_key_has_active_reference.
UploadCheckReference(u) ==
    /\ upload[u] = "found"
    /\ upload' = [upload EXCEPT ![u] = IF HasActiveReference(KeyOf[u]) THEN "failing" ELSE "unreferenced"]
    /\ UNCHANGED <<record, asset, object, validation, publisher, bundle, challenge, cleaner>>

\* A failed delete is only logged.
UploadRemoveOrphan(u) ==
    /\ upload[u] = "unreferenced"
    /\ object' = object \ {KeyOf[u]} \/ UNCHANGED object
    /\ upload' = [upload EXCEPT ![u] = "clear"]
    /\ UNCHANGED <<record, asset, validation, publisher, bundle, challenge, cleaner>>

\* storage.promote never overwrites.
UploadPromote(u) ==
    /\ upload[u] = "clear"
    /\ IF KeyOf[u] \in object
       THEN /\ upload' = [upload EXCEPT ![u] = "failing"]
            /\ UNCHANGED object
       ELSE /\ upload' = [upload EXCEPT ![u] = "promoted"]
            /\ object' = object \cup {KeyOf[u]}
    /\ UNCHANGED <<record, asset, validation, publisher, bundle, challenge, cleaner>>

\* A storage call or the reference query fails; a promotion that fails may have
\* made the durable object.
UploadErrs(u) ==
    /\ upload[u] \in {"reserved", "found", "clear"}
    /\ \/ UNCHANGED object
       \/ upload[u] = "clear" /\ object' = object \cup {KeyOf[u]}
    /\ upload' = [upload EXCEPT ![u] = "failing"]
    /\ UNCHANGED <<record, asset, validation, publisher, bundle, challenge, cleaner>>

\* activate_challenge_private_asset_tx.
ActivateAsset(u) ==
    /\ asset[u].status = "pending"
    /\ record.status \in OpenStatuses
    /\ record.active = NoId
    /\ asset' = [asset EXCEPT ![u].status = "active"]
    /\ record' = [Reopened EXCEPT !.stale = FALSE]

\* Mutant: an asset is activated before its object is promoted.
UploadActivate_BeforePromote(u) ==
    /\ upload[u] \in {"clear", "promoted"}
    /\ ActivateAsset(u)
    /\ upload' = [upload EXCEPT ![u] = "done"]
    /\ UNCHANGED <<object, validation, publisher, bundle, challenge, cleaner>>

UploadActivate(u) ==
    /\ upload[u] = "promoted"
    /\ ActivateAsset(u)
    /\ upload' = [upload EXCEPT ![u] = "done"]
    /\ UNCHANGED <<object, validation, publisher, bundle, challenge, cleaner>>

\* The activation is refused or fails.
UploadActivateFails(u) ==
    /\ upload[u] = "promoted"
    /\ upload' = [upload EXCEPT ![u] = "undoing"]
    /\ UNCHANGED <<record, asset, object, validation, publisher, bundle, challenge, cleaner>>

\* The transaction commits and its reply is lost.
UploadActivateReplyLost(u) ==
    /\ upload[u] = "promoted"
    /\ ActivateAsset(u)
    /\ upload' = [upload EXCEPT ![u] = "undoing"]
    /\ UNCHANGED <<object, validation, publisher, bundle, challenge, cleaner>>

\* fail_challenge_private_asset; a failure is only logged.
UploadFailRow(u) ==
    /\ upload[u] \in {"failing", "undoing"}
    /\ \/ /\ asset[u].status = "pending"
          /\ asset' = [asset EXCEPT ![u].status = "failed"]
          /\ record' = [record EXCEPT !.stale = FALSE]
       \/ UNCHANGED <<asset, record>>
    /\ upload' = [upload EXCEPT ![u] = IF upload[u] = "undoing" THEN "undo_object" ELSE "done"]
    /\ UNCHANGED <<object, validation, publisher, bundle, challenge, cleaner>>

\* cleanup_storage_key of the durable key; a failure is only logged.
UploadUndoObject(u) ==
    /\ upload[u] = "undo_object"
    /\ object' = object \ {KeyOf[u]} \/ UNCHANGED object
    /\ upload' = [upload EXCEPT ![u] = "done"]
    /\ UNCHANGED <<record, asset, validation, publisher, bundle, challenge, cleaner>>

UploadStops(u) ==
    /\ upload[u] \notin {"none", "done"}
    /\ upload' = [upload EXCEPT ![u] = "done"]
    /\ UNCHANGED <<record, asset, object, validation, publisher, bundle, challenge, cleaner>>

UploadStep(u) ==
    \/ UploadReserve(u)
    \/ UploadProbe(u)
    \/ UploadCheckReference(u)
    \/ UploadRemoveOrphan(u)
    \/ UploadPromote(u)
    \/ UploadErrs(u)
    \/ UploadActivate(u)
    \/ UploadActivateFails(u)
    \/ UploadActivateReplyLost(u)
    \/ UploadFailRow(u)
    \/ UploadUndoObject(u)
    \/ UploadStops(u)

-----------------------------------------------------------------------------
(* validate_challenge_review_record.                                          *)

\* The handler reads the record and its assets before it takes the lease.
ValidateRead(v) ==
    /\ validation[v].pc = "none"
    /\ record.status \in OpenStatuses
    /\ validation' = [validation EXCEPT ![v].pc = "read", ![v].seen = ActiveAssets]
    /\ UNCHANGED <<record, asset, object, upload, publisher, bundle, challenge, cleaner>>

\* begin_challenge_review_record_validation. The daily quota is the bound on
\* Validations.
ValidateBegin(v) ==
    /\ validation[v].pc = "read"
    /\ record.status \in OpenStatuses
    /\ LeaseFree
    /\ \A u \in Uploads : asset[u].status # "pending"
    /\ validation' = [ExpiredLeases EXCEPT ![v].pc = "begun", ![v].row = "running", ![v].fresh = TRUE]
    /\ record' = [record EXCEPT !.active = v, !.stale = FALSE]
    /\ UNCHANGED <<asset, object, upload, publisher, bundle, challenge, cleaner>>

\* validate_review_record_repository: fails when an object is missing, and for
\* reasons of the checkout.
ValidateAssemble(v) ==
    /\ validation[v].pc = "begun"
    /\ \E passed \in BOOLEAN :
          /\ passed => CanAssemble(validation[v].seen)
          /\ validation' = [validation EXCEPT ![v].pc = "assembled", ![v].passed = passed]
    /\ UNCHANGED <<record, asset, object, upload, publisher, bundle, challenge, cleaner>>

\* The validation is still running, and the record is open under its lease.
Decides(v) ==
    /\ validation[v].row = "running"
    /\ record.active = v
    /\ record.status \in OpenStatuses

\* finish_challenge_review_record_validation: nothing when the row is no longer
\* running; the row alone when the record has moved on.
ValidateFinish(v) ==
    /\ validation[v].pc = "assembled"
    /\ LET done == [validation[v] EXCEPT !.pc = "done"]
       IN  IF validation[v].row = "running"
           THEN validation' = [validation EXCEPT ![v] =
                                  [done EXCEPT !.row = IF validation[v].passed THEN "passed" ELSE "failed"]]
           ELSE validation' = [validation EXCEPT ![v] = done]
    /\ record' = IF Decides(v)
                 THEN [record EXCEPT !.status = IF validation[v].passed THEN "validated" ELSE "pending_review",
                                     !.validated = IF validation[v].passed THEN validation[v].seen ELSE NoDigest,
                                     !.active = NoId,
                                     !.stale = FALSE]
                 ELSE record
    /\ UNCHANGED <<asset, object, upload, publisher, bundle, challenge, cleaner>>

ValidateStops(v) ==
    /\ validation[v].pc \notin {"none", "done"}
    /\ validation' = [validation EXCEPT ![v].pc = "done"]
    /\ UNCHANGED <<record, asset, object, upload, publisher, bundle, challenge, cleaner>>

ValidateStep(v) ==
    \/ ValidateRead(v)
    \/ ValidateBegin(v)
    \/ ValidateAssemble(v)
    \/ ValidateFinish(v)
    \/ ValidateStops(v)

-----------------------------------------------------------------------------
(* Decisions of the reviewers.                                                *)

\* approve_validated_challenge_review_record_with_audit; the digest the
\* reviewer expects is the one on the record, or the request is refused.
Approve ==
    /\ record.status = "validated"
    /\ record.validated # NoDigest
    /\ record.active = NoId
    /\ record' = [record EXCEPT !.status = "approved", !.approved = record.validated, !.stale = FALSE]
    /\ UNCHANGED <<asset, object, upload, validation, publisher, bundle, challenge, cleaner>>

\* update_challenge_review_record_status_with_audit, used for rejections only.
Reject ==
    /\ record.status \in OpenStatuses \cup {"approved"}
    /\ record.active = NoId
    /\ record' = [record EXCEPT !.status = "rejected", !.stale = FALSE]
    /\ UNCHANGED <<asset, object, upload, validation, publisher, bundle, challenge, cleaner>>

\* abandon_challenge_review_record_with_audit.
Abandon ==
    /\ record.status \in OpenStatuses \cup {"approved", "rejected"}
    /\ record.active = NoId
    /\ record' = [record EXCEPT !.status = "abandoned", !.stale = FALSE]
    /\ UNCHANGED <<asset, object, upload, validation, publisher, bundle, challenge, cleaner>>

-----------------------------------------------------------------------------
(* publish_challenge_review_record.                                           *)

\* claim_challenge_review_record_for_publish: a stale claim is reset first.
PublishClaim(c) ==
    /\ publisher[c].pc = "none"
    /\ \/ record.status = "approved"
       \/ record.status = "publishing" /\ record.stale
    /\ record.active = NoId
    /\ record' = [record EXCEPT !.status = "publishing", !.claim = c, !.stale = FALSE]
    /\ publisher' = [publisher EXCEPT ![c].pc = "claimed"]
    /\ UNCHANGED <<asset, object, upload, validation, bundle, challenge, cleaner>>

\* The record is read after the claim has committed.
PublishRead(c) ==
    /\ publisher[c].pc = "claimed"
    /\ publisher' = IF record.status = "published"
                    THEN [publisher EXCEPT ![c].pc = "done"]
                    ELSE [publisher EXCEPT ![c] = [pc |-> "read", seen |-> ActiveAssets,
                                                   approved |-> record.approved]]
    /\ UNCHANGED <<record, asset, object, upload, validation, bundle, challenge, cleaner>>

\* Mutant: the bundle is not compared with the approved digest.
IsApproved_Any(c) == CanAssemble(publisher[c].seen)

\* validate_review_record_repository, and the comparison with the approved digest.
IsApproved(c) ==
    /\ CanAssemble(publisher[c].seen)
    /\ publisher[c].approved = publisher[c].seen

PublishCheck(c) ==
    /\ publisher[c].pc = "read"
    /\ publisher' = [publisher EXCEPT ![c].pc = IF IsApproved(c) THEN "checked" ELSE "failing"]
    /\ UNCHANGED <<record, asset, object, upload, validation, bundle, challenge, cleaner>>

\* The bundle is assembled again and its archives and statement are stored under
\* keys that carry the claim id.
PublishStore(c) ==
    /\ publisher[c].pc = "checked"
    /\ record.kind = "new_challenge"
    /\ CanAssemble(publisher[c].seen)
    /\ bundle' = [bundle EXCEPT ![c] = publisher[c].seen]
    /\ publisher' = [publisher EXCEPT ![c].pc = "stored"]
    /\ UNCHANGED <<record, asset, object, upload, validation, challenge, cleaner>>

\* Validation, assembly or storage fails, or the archive transaction: what was
\* stored is removed, and the claim is failed next.
PublishErrs(c) ==
    /\ publisher[c].pc \in {"read", "checked"}
    /\ publisher' = [publisher EXCEPT ![c].pc = "failing"]
    /\ UNCHANGED <<record, asset, object, upload, validation, bundle, challenge, cleaner>>

\* mark_challenge_review_record_published_tx.
MarkPublished(c) ==
    /\ record.status = "publishing"
    /\ record.claim = c
    /\ record.active = NoId
    /\ record' = [record EXCEPT !.status = "published", !.claim = NoId, !.stale = FALSE]

\* publish_new_challenge_review_record: a challenge that has its specification
\* already is a conflict.
PublishNew(c) ==
    /\ publisher[c].pc = "stored"
    /\ challenge.status = "absent"
    /\ challenge' = [status |-> "active", bundle |-> c]
    /\ MarkPublished(c)

\* publish_archive_challenge_review_record.
PublishArchive(c) ==
    /\ publisher[c].pc = "checked"
    /\ record.kind = "archive_challenge"
    /\ challenge.status = "active"
    /\ challenge' = [challenge EXCEPT !.status = "archived"]
    /\ MarkPublished(c)

PublishCommit(c) ==
    /\ PublishNew(c) \/ PublishArchive(c)
    /\ publisher' = [publisher EXCEPT ![c].pc = "done"]
    /\ UNCHANGED <<asset, object, upload, validation, bundle, cleaner>>

\* The claim is lost, the creator is not eligible any more, or the name is taken.
PublishCommitFails(c) ==
    /\ publisher[c].pc = "stored"
    /\ publisher' = [publisher EXCEPT ![c].pc = "dropping"]
    /\ UNCHANGED <<record, asset, object, upload, validation, bundle, challenge, cleaner>>

PublishReplyLost(c) ==
    /\ \/ PublishNew(c) /\ publisher' = [publisher EXCEPT ![c].pc = "dropping"]
       \/ PublishArchive(c) /\ publisher' = [publisher EXCEPT ![c].pc = "failing"]
    /\ UNCHANGED <<asset, object, upload, validation, bundle, cleaner>>

\* Mutant: attempts share the keys of the record.
PublishDrop_SharedKeys(c) ==
    /\ publisher[c].pc = "dropping"
    /\ bundle' = [d \in Claims |-> NoDigest] \/ UNCHANGED bundle
    /\ publisher' = [publisher EXCEPT ![c].pc = "failing"]
    /\ UNCHANGED <<record, asset, object, upload, validation, challenge, cleaner>>

\* cleanup_storage_key of the claim's keys; a failure is only logged.
PublishDrop(c) ==
    /\ publisher[c].pc = "dropping"
    /\ bundle' = [bundle EXCEPT ![c] = NoDigest] \/ UNCHANGED bundle
    /\ publisher' = [publisher EXCEPT ![c].pc = "failing"]
    /\ UNCHANGED <<record, asset, object, upload, validation, challenge, cleaner>>

CanRelease(c) == record.status = "publishing" /\ record.claim = c

\* fail_challenge_review_record_publish.
PublishFail(c) ==
    /\ publisher[c].pc = "failing"
    /\ record' = IF CanRelease(c)
                 THEN [record EXCEPT !.status = "approved", !.claim = NoId, !.stale = FALSE]
                 ELSE record
    /\ publisher' = [publisher EXCEPT ![c].pc = "done"]
    /\ UNCHANGED <<asset, object, upload, validation, bundle, challenge, cleaner>>

PublishStops(c) ==
    /\ publisher[c].pc \notin {"none", "done"}
    /\ publisher' = [publisher EXCEPT ![c].pc = "done"]
    /\ UNCHANGED <<record, asset, object, upload, validation, bundle, challenge, cleaner>>

PublishStep(c) ==
    \/ PublishClaim(c)
    \/ PublishRead(c)
    \/ PublishCheck(c)
    \/ PublishStore(c)
    \/ PublishErrs(c)
    \/ PublishCommit(c)
    \/ PublishCommitFails(c)
    \/ PublishReplyLost(c)
    \/ PublishDrop(c)
    \/ PublishFail(c)
    \/ PublishStops(c)

-----------------------------------------------------------------------------
(* cleanup_challenge_review_records.                                          *)

\* abandon_stale_challenge_review_records, whether or not a validation is active.
CleanerSweep ==
    /\ cleaner.pc = "idle"
    /\ record' = IF record.status \in OpenStatuses \cup {"approved"} /\ record.stale
                 THEN [record EXCEPT !.status = "abandoned", !.stale = FALSE]
                 ELSE record
    /\ cleaner' = [cleaner EXCEPT !.pc = "swept"]
    /\ UNCHANGED <<asset, object, upload, validation, publisher, bundle, challenge>>

\* Mutant: the records of a challenge that was published are purged as well.
Purgeable_AnyStatus == record.stale

Purgeable == record.status \in ClosedStatuses /\ record.stale

HasPurgeStatus(u) == asset[u].status \in {"pending", "active", "failed", "purging"}

\* list_unpublished_private_assets_for_purge.
CleanerList ==
    /\ cleaner.pc = "swept"
    /\ cleaner' = [pc |-> "purging", list |-> {u \in Uploads : Purgeable /\ HasPurgeStatus(u)},
                   current |-> NoId]
    /\ UNCHANGED <<record, asset, object, upload, validation, publisher, bundle, challenge>>

\* mark_challenge_private_asset_purging.
CleanerMark(u) ==
    /\ cleaner.pc = "purging"
    /\ u \in cleaner.list
    /\ IF HasPurgeStatus(u)
       THEN /\ asset' = [asset EXCEPT ![u].status = "purging"]
            /\ cleaner' = [pc |-> "marked", list |-> cleaner.list \ {u}, current |-> u]
       ELSE /\ cleaner' = [cleaner EXCEPT !.list = cleaner.list \ {u}]
            /\ UNCHANGED asset
    /\ UNCHANGED <<record, object, upload, validation, publisher, bundle, challenge>>

CleanerDeleteObject ==
    /\ cleaner.pc = "marked"
    /\ object' = object \ {KeyOf[cleaner.current]}
    /\ cleaner' = [cleaner EXCEPT !.pc = "removed"]
    /\ UNCHANGED <<record, asset, upload, validation, publisher, bundle, challenge>>

\* delete_challenge_private_asset, which touches the record.
CleanerDeleteRow ==
    /\ cleaner.pc = "removed"
    /\ IF asset[cleaner.current].status = "deleted"
       THEN UNCHANGED <<asset, record>>
       ELSE /\ asset' = [asset EXCEPT ![cleaner.current].status = "deleted"]
            /\ record' = [record EXCEPT !.stale = FALSE]
    /\ cleaner' = [cleaner EXCEPT !.pc = "purging", !.current = NoId]
    /\ UNCHANGED <<object, upload, validation, publisher, bundle, challenge>>

\* The handler ends, stops, or gives up on a failed call.
CleanerEnds ==
    /\ cleaner.pc # "idle"
    /\ cleaner' = IdleCleaner
    /\ UNCHANGED <<record, asset, object, upload, validation, publisher, bundle, challenge>>

CleanerStep ==
    \/ CleanerSweep
    \/ CleanerList
    \/ \E u \in Uploads : CleanerMark(u)
    \/ CleanerDeleteObject
    \/ CleanerDeleteRow
    \/ CleanerEnds

-----------------------------------------------------------------------------
(* Time passing.                                                              *)

RecordAges ==
    /\ ~record.stale
    /\ record' = [record EXCEPT !.stale = TRUE]
    /\ UNCHANGED <<asset, object, upload, validation, publisher, bundle, challenge, cleaner>>

PendingExpires(u) ==
    /\ asset[u].status = "pending"
    /\ asset[u].fresh
    /\ asset' = [asset EXCEPT ![u].fresh = FALSE]
    /\ UNCHANGED <<record, object, upload, validation, publisher, bundle, challenge, cleaner>>

LeaseExpires(v) ==
    /\ validation[v].row = "running"
    /\ validation[v].fresh
    /\ validation' = [validation EXCEPT ![v].fresh = FALSE]
    /\ UNCHANGED <<record, asset, object, upload, publisher, bundle, challenge, cleaner>>

Step ==
    \/ \E u \in Uploads : UploadStep(u) \/ PendingExpires(u)
    \/ \E v \in Validations : ValidateStep(v) \/ LeaseExpires(v)
    \/ \E c \in Claims : PublishStep(c)
    \/ Approve
    \/ Reject
    \/ Abandon
    \/ CleanerStep
    \/ RecordAges

\* The keys that two handlers have in hand, and what was committed unknown to a
\* handler that still runs.
InFlight(u) == upload[u] \notin {"none", "done"}
Contested == {KeyOf[u] : u \in {x \in Uploads : /\ InFlight(x)
                                               /\ \E y \in Uploads \ {x} : InFlight(y) /\ KeyOf[y] = KeyOf[x]}}
Unheard == {u \in Uploads : InFlight(u) /\ asset[u].status = "active"}
           \cup {c \in Claims : publisher[c].pc # "done" /\ challenge.bundle = c}

Next ==
    /\ Step
    /\ contested' = contested \cup Contested'
    /\ unheard' = unheard \cup Unheard'

Spec == Init /\ [][Next]_vars

-----------------------------------------------------------------------------
(* Properties.                                                                *)

\* Every row and every handler has its type.
RowTypes ==
    /\ record \in RecordType
    /\ asset \in [Uploads -> AssetType]
    /\ object \subseteq AssetKeys
    /\ upload \in [Uploads -> UploadPc]
    /\ validation \in [Validations -> ValidationType]
    /\ publisher \in [Claims -> PublisherType]
    /\ bundle \in [Claims -> Digests]
    /\ challenge \in ChallengeType
    /\ cleaner \in CleanerType

TypeOK == RowTypes /\ contested \subseteq AssetKeys /\ unheard \subseteq Uploads \cup Claims

\* The digest columns say what the status says: none while pending, the validated
\* one from validation on, the same one approved from approval on.
DigestsFollowStatus ==
    /\ record.status = "pending_review" => record.validated = NoDigest
    /\ record.status \in {"validated"} \cup ApprovedStatuses => record.validated # NoDigest
    /\ record.status \in OpenStatuses => record.approved = NoDigest
    /\ record.status \in ApprovedStatuses => record.approved = record.validated

\* A lease on an open record is that of a running validation, and no record is
\* approved, published or rejected under a lease.
LeaseFollowsStatus ==
    record.active # NoId =>
        /\ record.status \in OpenStatuses \cup {"abandoned"}
        /\ record.status \in OpenStatuses => validation[record.active].row = "running"

\* A record has a publish claim exactly while it is publishing.
ClaimFollowsStatus == record.claim # NoId <=> record.status = "publishing"

\* No upload is pending on a record that is being validated, or whose validation
\* or approval stands: every later activation meets a record that is open and
\* takes its validation back.
NoPendingUnderReview ==
    \/ record.status = "validated"
    \/ record.status \in ApprovedStatuses
    \/ record.status = "pending_review" /\ record.active # NoId
    => \A u \in Uploads : asset[u].status # "pending"

\* Uploads in flight are counted, so that the assets of a record never exceed
\* its quota, however many are activated at once.
WithinAssetQuota ==
    Cardinality({u \in Uploads : asset[u].status \in {"pending", "active"}}) <= AssetQuota

\* A publish attempt works on a record that was approved, knows the digest that
\* was approved, and gets past the check with that content only.
PublisherKnowsApproval ==
    \A c \in Claims :
        /\ publisher[c].pc # "none" => record.status \notin OpenStatuses
        /\ publisher[c].pc \in {"read", "checked", "stored"} => publisher[c].approved = record.approved
        /\ publisher[c].pc \in {"checked", "stored"} => publisher[c].approved = publisher[c].seen

\* What a challenge is published with is what the reviewers approved, also when
\* the claim was taken over or the record changed while the bundle was built.
PublishedAsApproved ==
    challenge.bundle # NoId =>
        /\ record.status = "published"
        /\ publisher[challenge.bundle].seen = record.approved
        /\ publisher[challenge.bundle].pc \in {"dropping", "failing", "done"}

\* The clean-up holds assets of a record that was given up only.
PurgesClosedRecords ==
    /\ cleaner.list # {} => record.status \in ClosedStatuses
    /\ cleaner.pc \in {"marked", "removed"} =>
          /\ record.status \in ClosedStatuses
          /\ cleaner.current \in Uploads

\* The inductive invariant.
ReviewInv ==
    /\ RowTypes
    /\ DigestsFollowStatus
    /\ LeaseFollowsStatus
    /\ ClaimFollowsStatus
    /\ NoPendingUnderReview
    /\ PublisherKnowsApproval
    /\ PublishedAsApproved
    /\ PurgesClosedRecords

\* The archives that a published challenge points to are in storage and hold the
\* approved content: no failed or late publish attempt removes them, but one whose
\* commit was not heard of.
PublishedBundleExists ==
    challenge.bundle # NoId =>
        bundle[challenge.bundle] = record.approved \/ challenge.bundle \in unheard

\* The private assets of an approved or published record stay as they are; in
\* particular the purge never takes those of a published challenge.
ApprovedAssetsFrozen ==
    [][record.status \in ApprovedStatuses /\ record'.status \in ApprovedStatuses =>
          ActiveAssets' = ActiveAssets]_vars

\* An active asset of a record that was not given up has its object in storage, also
\* after crashes and retries of the same bytes. The exceptions are a key that two
\* handlers had in hand at once, and an upload that did not hear of its activation.
ActiveAssetHasObject ==
    record.status \notin ClosedStatuses =>
        \A u \in Uploads : asset[u].status = "active" =>
            KeyOf[u] \in object \cup contested \/ u \in unheard

\* The clean-up before a promotion removes "an unreferenced durable object left by
\* a stale pending private asset" (private_assets.rs:240).
OrphanIsUnreferenced ==
    [][\A u \in Uploads : UploadRemoveOrphan(u) =>
          UNCHANGED object \/ ~HasActiveReference(KeyOf[u])]_vars

=============================================================================
