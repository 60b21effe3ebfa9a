------------------------ MODULE ChallengeReviewProofs ------------------------
(* Proofs about ChallengeReview: ReviewInv is inductive, for any numbers of    *)
(* uploads, validations, publish claims and assets, with lost replies and      *)
(* shared keys included. There is one lemma per action; its first step is the  *)
(* types of the variables the action changes, the next ones the conjuncts of   *)
(* the invariant it can disturb, the last one the conjuncts it leaves alone.   *)
EXTENDS ChallengeReview, FiniteSetTheorems, TLAPS

\* The active assets are keys of the record.
LEMMA ActiveAssetsType == ActiveAssets \in SUBSET AssetKeys
BY KeysAssumption DEF ActiveAssets

\* The invariant does not look at the objects, the upload handlers or the bundles.
LEMMA FrameInv ==
    ASSUME ReviewInv,
           UNCHANGED <<record, asset, validation, publisher, challenge, cleaner>>,
           object' \subseteq AssetKeys,
           upload' \in [Uploads -> UploadPc],
           bundle' \in [Claims -> Digests]
    PROVE  ReviewInv'
BY DEF ReviewInv, RowTypes, DigestsFollowStatus, LeaseFollowsStatus, ClaimFollowsStatus,
       NoPendingUnderReview, PublisherKnowsApproval, PublishedAsApproved, PurgesClosedRecords


\* UploadReserve preserves the invariant.
LEMMA UploadReserveInv ==
    ASSUME NEW u \in Uploads, ReviewInv, UploadReserve(u)
    PROVE  ReviewInv'
<1>1. RowTypes'
  <2>1. record' \in RecordType
    BY KeysAssumption DEF ReviewInv, RowTypes, UploadReserve, RecordType, RequestKinds, Digests,
        OpenStatuses, ApprovedStatuses, ClosedStatuses, Reopened, ExpiredLeases, LeaseFree,
        KeptAssets
  <2>2. asset' \in [Uploads -> AssetType]
    BY KeysAssumption DEF ReviewInv, RowTypes, UploadReserve, AssetType, Reopened, ExpiredLeases,
        LeaseFree, KeptAssets
  <2>3. validation' \in [Validations -> ValidationType]
    BY KeysAssumption DEF ReviewInv, RowTypes, UploadReserve, ValidationType, Reopened,
        ExpiredLeases, LeaseFree, KeptAssets
  <2>4. upload' \in [Uploads -> UploadPc]
    BY KeysAssumption DEF ReviewInv, RowTypes, UploadReserve, UploadPc, Reopened, ExpiredLeases,
        LeaseFree, KeptAssets
  <2> QED BY <2>1, <2>2, <2>3, <2>4 DEF ReviewInv, RowTypes, UploadReserve, Reopened,
      ExpiredLeases, LeaseFree, KeptAssets
<1>2. DigestsFollowStatus'
  BY IdsAssumption, KeysAssumption, <1>1 DEF ReviewInv, DigestsFollowStatus, UploadReserve,
      RowTypes, RecordType, RequestKinds, AssetType, ValidationType, PublisherType, ChallengeType,
      CleanerType, Digests, OpenStatuses, ApprovedStatuses, ClosedStatuses, Reopened,
      ExpiredLeases, LeaseFree, KeptAssets
<1>3. LeaseFollowsStatus'
  BY IdsAssumption, KeysAssumption, <1>1 DEF ReviewInv, LeaseFollowsStatus, UploadReserve,
      RowTypes, RecordType, RequestKinds, AssetType, ValidationType, PublisherType, ChallengeType,
      CleanerType, Digests, OpenStatuses, ApprovedStatuses, ClosedStatuses, Reopened,
      ExpiredLeases, LeaseFree, KeptAssets
<1>4. ClaimFollowsStatus'
  BY IdsAssumption, KeysAssumption, <1>1 DEF ReviewInv, ClaimFollowsStatus, UploadReserve,
      RowTypes, RecordType, RequestKinds, AssetType, ValidationType, PublisherType, ChallengeType,
      CleanerType, Digests, OpenStatuses, ApprovedStatuses, ClosedStatuses, Reopened,
      ExpiredLeases, LeaseFree, KeptAssets
<1>5. NoPendingUnderReview'
  BY IdsAssumption, KeysAssumption, <1>1 DEF ReviewInv, NoPendingUnderReview, UploadReserve,
      RowTypes, RecordType, RequestKinds, AssetType, ValidationType, PublisherType, ChallengeType,
      CleanerType, Digests, OpenStatuses, ApprovedStatuses, ClosedStatuses, Reopened,
      ExpiredLeases, LeaseFree, KeptAssets
<1>6. PublisherKnowsApproval'
  BY IdsAssumption, KeysAssumption, <1>1 DEF ReviewInv, PublisherKnowsApproval, UploadReserve,
      RowTypes, RecordType, RequestKinds, AssetType, ValidationType, PublisherType, ChallengeType,
      CleanerType, Digests, OpenStatuses, ApprovedStatuses, ClosedStatuses, Reopened,
      ExpiredLeases, LeaseFree, KeptAssets
<1>7. PublishedAsApproved'
  BY IdsAssumption, KeysAssumption, <1>1 DEF ReviewInv, PublishedAsApproved, UploadReserve,
      RowTypes, RecordType, RequestKinds, AssetType, ValidationType, PublisherType, ChallengeType,
      CleanerType, Digests, OpenStatuses, ApprovedStatuses, ClosedStatuses, Reopened,
      ExpiredLeases, LeaseFree, KeptAssets
<1>8. PurgesClosedRecords'
  BY IdsAssumption, KeysAssumption, <1>1 DEF ReviewInv, PurgesClosedRecords, UploadReserve,
      RowTypes, RecordType, RequestKinds, AssetType, ValidationType, PublisherType, ChallengeType,
      CleanerType, Digests, OpenStatuses, ApprovedStatuses, ClosedStatuses, Reopened,
      ExpiredLeases, LeaseFree, KeptAssets
<1> QED BY <1>1, <1>2, <1>3, <1>4, <1>5, <1>6, <1>7, <1>8 DEF ReviewInv

\* UploadProbe preserves the invariant.
LEMMA UploadProbeInv ==
    ASSUME NEW u \in Uploads, ReviewInv, UploadProbe(u)
    PROVE  ReviewInv'
BY FrameInv, KeysAssumption DEF ReviewInv, RowTypes, UploadPc, UploadProbe

\* UploadCheckReference preserves the invariant.
LEMMA UploadCheckReferenceInv ==
    ASSUME NEW u \in Uploads, ReviewInv, UploadCheckReference(u)
    PROVE  ReviewInv'
BY FrameInv, KeysAssumption DEF ReviewInv, RowTypes, UploadPc, UploadCheckReference

\* UploadRemoveOrphan preserves the invariant.
LEMMA UploadRemoveOrphanInv ==
    ASSUME NEW u \in Uploads, ReviewInv, UploadRemoveOrphan(u)
    PROVE  ReviewInv'
BY FrameInv, KeysAssumption DEF ReviewInv, RowTypes, UploadPc, UploadRemoveOrphan

\* UploadPromote preserves the invariant.
LEMMA UploadPromoteInv ==
    ASSUME NEW u \in Uploads, ReviewInv, UploadPromote(u)
    PROVE  ReviewInv'
BY FrameInv, KeysAssumption DEF ReviewInv, RowTypes, UploadPc, UploadPromote

\* UploadErrs preserves the invariant.
LEMMA UploadErrsInv ==
    ASSUME NEW u \in Uploads, ReviewInv, UploadErrs(u)
    PROVE  ReviewInv'
BY FrameInv, KeysAssumption DEF ReviewInv, RowTypes, UploadPc, UploadErrs

\* UploadActivate preserves the invariant.
LEMMA UploadActivateInv ==
    ASSUME NEW u \in Uploads, ReviewInv, UploadActivate(u)
    PROVE  ReviewInv'
<1>1. RowTypes'
  <2>1. record' \in RecordType
    BY KeysAssumption DEF ReviewInv, RowTypes, UploadActivate, RecordType, RequestKinds, Digests,
        OpenStatuses, ApprovedStatuses, ClosedStatuses, ActivateAsset, Reopened
  <2>2. asset' \in [Uploads -> AssetType]
    BY KeysAssumption DEF ReviewInv, RowTypes, UploadActivate, AssetType, ActivateAsset, Reopened
  <2>3. upload' \in [Uploads -> UploadPc]
    BY KeysAssumption DEF ReviewInv, RowTypes, UploadActivate, UploadPc, ActivateAsset, Reopened
  <2> QED BY <2>1, <2>2, <2>3 DEF ReviewInv, RowTypes, UploadActivate, ActivateAsset, Reopened
<1>2. DigestsFollowStatus'
  BY IdsAssumption, KeysAssumption, <1>1 DEF ReviewInv, DigestsFollowStatus, UploadActivate,
      RowTypes, RecordType, RequestKinds, AssetType, ValidationType, PublisherType, ChallengeType,
      CleanerType, Digests, OpenStatuses, ApprovedStatuses, ClosedStatuses, ActivateAsset, Reopened
<1>3. LeaseFollowsStatus'
  BY IdsAssumption, KeysAssumption, <1>1 DEF ReviewInv, LeaseFollowsStatus, UploadActivate,
      RowTypes, RecordType, RequestKinds, AssetType, ValidationType, PublisherType, ChallengeType,
      CleanerType, Digests, OpenStatuses, ApprovedStatuses, ClosedStatuses, ActivateAsset, Reopened
<1>4. ClaimFollowsStatus'
  BY IdsAssumption, KeysAssumption, <1>1 DEF ReviewInv, ClaimFollowsStatus, UploadActivate,
      RowTypes, RecordType, RequestKinds, AssetType, ValidationType, PublisherType, ChallengeType,
      CleanerType, Digests, OpenStatuses, ApprovedStatuses, ClosedStatuses, ActivateAsset, Reopened
<1>5. NoPendingUnderReview'
  BY IdsAssumption, KeysAssumption, <1>1 DEF ReviewInv, NoPendingUnderReview, UploadActivate,
      RowTypes, RecordType, RequestKinds, AssetType, ValidationType, PublisherType, ChallengeType,
      CleanerType, Digests, OpenStatuses, ApprovedStatuses, ClosedStatuses, ActivateAsset, Reopened
<1>6. PublisherKnowsApproval'
  BY IdsAssumption, KeysAssumption, <1>1 DEF ReviewInv, PublisherKnowsApproval, UploadActivate,
      RowTypes, RecordType, RequestKinds, AssetType, ValidationType, PublisherType, ChallengeType,
      CleanerType, Digests, OpenStatuses, ApprovedStatuses, ClosedStatuses, ActivateAsset, Reopened
<1>7. PublishedAsApproved'
  BY IdsAssumption, KeysAssumption, <1>1 DEF ReviewInv, PublishedAsApproved, UploadActivate,
      RowTypes, RecordType, RequestKinds, AssetType, ValidationType, PublisherType, ChallengeType,
      CleanerType, Digests, OpenStatuses, ApprovedStatuses, ClosedStatuses, ActivateAsset, Reopened
<1>8. PurgesClosedRecords'
  BY IdsAssumption, KeysAssumption, <1>1 DEF ReviewInv, PurgesClosedRecords, UploadActivate,
      RowTypes, RecordType, RequestKinds, AssetType, ValidationType, PublisherType, ChallengeType,
      CleanerType, Digests, OpenStatuses, ApprovedStatuses, ClosedStatuses, ActivateAsset, Reopened
<1> QED BY <1>1, <1>2, <1>3, <1>4, <1>5, <1>6, <1>7, <1>8 DEF ReviewInv

\* UploadActivateFails preserves the invariant.
LEMMA UploadActivateFailsInv ==
    ASSUME NEW u \in Uploads, ReviewInv, UploadActivateFails(u)
    PROVE  ReviewInv'
BY FrameInv, KeysAssumption DEF ReviewInv, RowTypes, UploadPc, UploadActivateFails

\* UploadActivateReplyLost preserves the invariant.
LEMMA UploadActivateReplyLostInv ==
    ASSUME NEW u \in Uploads, ReviewInv, UploadActivateReplyLost(u)
    PROVE  ReviewInv'
<1>1. RowTypes'
  <2>1. record' \in RecordType
    BY KeysAssumption DEF ReviewInv, RowTypes, UploadActivateReplyLost, RecordType, RequestKinds,
        Digests, OpenStatuses, ApprovedStatuses, ClosedStatuses, ActivateAsset, Reopened
  <2>2. asset' \in [Uploads -> AssetType]
    BY KeysAssumption DEF ReviewInv, RowTypes, UploadActivateReplyLost, AssetType, ActivateAsset,
        Reopened
  <2>3. upload' \in [Uploads -> UploadPc]
    BY KeysAssumption DEF ReviewInv, RowTypes, UploadActivateReplyLost, UploadPc, ActivateAsset,
        Reopened
  <2> QED BY <2>1, <2>2, <2>3 DEF ReviewInv, RowTypes, UploadActivateReplyLost, ActivateAsset,
      Reopened
<1>2. DigestsFollowStatus'
  BY IdsAssumption, KeysAssumption, <1>1 DEF ReviewInv, DigestsFollowStatus,
      UploadActivateReplyLost, RowTypes, RecordType, RequestKinds, AssetType, ValidationType,
      PublisherType, ChallengeType, CleanerType, Digests, OpenStatuses, ApprovedStatuses,
      ClosedStatuses, ActivateAsset, Reopened
<1>3. LeaseFollowsStatus'
  BY IdsAssumption, KeysAssumption, <1>1 DEF ReviewInv, LeaseFollowsStatus,
      UploadActivateReplyLost, RowTypes, RecordType, RequestKinds, AssetType, ValidationType,
      PublisherType, ChallengeType, CleanerType, Digests, OpenStatuses, ApprovedStatuses,
      ClosedStatuses, ActivateAsset, Reopened
<1>4. ClaimFollowsStatus'
  BY IdsAssumption, KeysAssumption, <1>1 DEF ReviewInv, ClaimFollowsStatus,
      UploadActivateReplyLost, RowTypes, RecordType, RequestKinds, AssetType, ValidationType,
      PublisherType, ChallengeType, CleanerType, Digests, OpenStatuses, ApprovedStatuses,
      ClosedStatuses, ActivateAsset, Reopened
<1>5. NoPendingUnderReview'
  BY IdsAssumption, KeysAssumption, <1>1 DEF ReviewInv, NoPendingUnderReview,
      UploadActivateReplyLost, RowTypes, RecordType, RequestKinds, AssetType, ValidationType,
      PublisherType, ChallengeType, CleanerType, Digests, OpenStatuses, ApprovedStatuses,
      ClosedStatuses, ActivateAsset, Reopened
<1>6. PublisherKnowsApproval'
  BY IdsAssumption, KeysAssumption, <1>1 DEF ReviewInv, PublisherKnowsApproval,
      UploadActivateReplyLost, RowTypes, RecordType, RequestKinds, AssetType, ValidationType,
      PublisherType, ChallengeType, CleanerType, Digests, OpenStatuses, ApprovedStatuses,
      ClosedStatuses, ActivateAsset, Reopened
<1>7. PublishedAsApproved'
  BY IdsAssumption, KeysAssumption, <1>1 DEF ReviewInv, PublishedAsApproved,
      UploadActivateReplyLost, RowTypes, RecordType, RequestKinds, AssetType, ValidationType,
      PublisherType, ChallengeType, CleanerType, Digests, OpenStatuses, ApprovedStatuses,
      ClosedStatuses, ActivateAsset, Reopened
<1>8. PurgesClosedRecords'
  BY IdsAssumption, KeysAssumption, <1>1 DEF ReviewInv, PurgesClosedRecords,
      UploadActivateReplyLost, RowTypes, RecordType, RequestKinds, AssetType, ValidationType,
      PublisherType, ChallengeType, CleanerType, Digests, OpenStatuses, ApprovedStatuses,
      ClosedStatuses, ActivateAsset, Reopened
<1> QED BY <1>1, <1>2, <1>3, <1>4, <1>5, <1>6, <1>7, <1>8 DEF ReviewInv

\* UploadFailRow preserves the invariant.
LEMMA UploadFailRowInv ==
    ASSUME NEW u \in Uploads, ReviewInv, UploadFailRow(u)
    PROVE  ReviewInv'
<1>1. RowTypes'
  <2>1. record' \in RecordType
    BY KeysAssumption DEF ReviewInv, RowTypes, UploadFailRow, RecordType, RequestKinds, Digests,
        OpenStatuses, ApprovedStatuses, ClosedStatuses
  <2>2. asset' \in [Uploads -> AssetType]
    BY KeysAssumption DEF ReviewInv, RowTypes, UploadFailRow, AssetType
  <2>3. upload' \in [Uploads -> UploadPc]
    BY KeysAssumption DEF ReviewInv, RowTypes, UploadFailRow, UploadPc
  <2> QED BY <2>1, <2>2, <2>3 DEF ReviewInv, RowTypes, UploadFailRow
<1>2. DigestsFollowStatus'
  BY IdsAssumption, KeysAssumption, <1>1 DEF ReviewInv, DigestsFollowStatus, UploadFailRow,
      RowTypes, RecordType, RequestKinds, AssetType, ValidationType, PublisherType, ChallengeType,
      CleanerType, Digests, OpenStatuses, ApprovedStatuses, ClosedStatuses
<1>3. LeaseFollowsStatus'
  BY IdsAssumption, KeysAssumption, <1>1 DEF ReviewInv, LeaseFollowsStatus, UploadFailRow,
      RowTypes, RecordType, RequestKinds, AssetType, ValidationType, PublisherType, ChallengeType,
      CleanerType, Digests, OpenStatuses, ApprovedStatuses, ClosedStatuses
<1>4. ClaimFollowsStatus'
  BY IdsAssumption, KeysAssumption, <1>1 DEF ReviewInv, ClaimFollowsStatus, UploadFailRow,
      RowTypes, RecordType, RequestKinds, AssetType, ValidationType, PublisherType, ChallengeType,
      CleanerType, Digests, OpenStatuses, ApprovedStatuses, ClosedStatuses
<1>5. NoPendingUnderReview'
  BY IdsAssumption, KeysAssumption, <1>1 DEF ReviewInv, NoPendingUnderReview, UploadFailRow,
      RowTypes, RecordType, RequestKinds, AssetType, ValidationType, PublisherType, ChallengeType,
      CleanerType, Digests, OpenStatuses, ApprovedStatuses, ClosedStatuses
<1>6. PublisherKnowsApproval'
  BY IdsAssumption, KeysAssumption, <1>1 DEF ReviewInv, PublisherKnowsApproval, UploadFailRow,
      RowTypes, RecordType, RequestKinds, AssetType, ValidationType, PublisherType, ChallengeType,
      CleanerType, Digests, OpenStatuses, ApprovedStatuses, ClosedStatuses
<1>7. PublishedAsApproved'
  BY IdsAssumption, KeysAssumption, <1>1 DEF ReviewInv, PublishedAsApproved, UploadFailRow,
      RowTypes, RecordType, RequestKinds, AssetType, ValidationType, PublisherType, ChallengeType,
      CleanerType, Digests, OpenStatuses, ApprovedStatuses, ClosedStatuses
<1>8. PurgesClosedRecords'
  BY IdsAssumption, KeysAssumption, <1>1 DEF ReviewInv, PurgesClosedRecords, UploadFailRow,
      RowTypes, RecordType, RequestKinds, AssetType, ValidationType, PublisherType, ChallengeType,
      CleanerType, Digests, OpenStatuses, ApprovedStatuses, ClosedStatuses
<1> QED BY <1>1, <1>2, <1>3, <1>4, <1>5, <1>6, <1>7, <1>8 DEF ReviewInv

\* UploadUndoObject preserves the invariant.
LEMMA UploadUndoObjectInv ==
    ASSUME NEW u \in Uploads, ReviewInv, UploadUndoObject(u)
    PROVE  ReviewInv'
BY FrameInv, KeysAssumption DEF ReviewInv, RowTypes, UploadPc, UploadUndoObject

\* UploadStops preserves the invariant.
LEMMA UploadStopsInv ==
    ASSUME NEW u \in Uploads, ReviewInv, UploadStops(u)
    PROVE  ReviewInv'
BY FrameInv, KeysAssumption DEF ReviewInv, RowTypes, UploadPc, UploadStops

\* PendingExpires preserves the invariant.
LEMMA PendingExpiresInv ==
    ASSUME NEW u \in Uploads, ReviewInv, PendingExpires(u)
    PROVE  ReviewInv'
<1>1. RowTypes'
  <2>1. asset' \in [Uploads -> AssetType]
    BY KeysAssumption DEF ReviewInv, RowTypes, PendingExpires, AssetType
  <2> QED BY <2>1 DEF ReviewInv, RowTypes, PendingExpires
<1>2. NoPendingUnderReview'
  BY IdsAssumption, KeysAssumption, <1>1 DEF ReviewInv, NoPendingUnderReview, PendingExpires,
      RowTypes, RecordType, RequestKinds, AssetType, ValidationType, PublisherType, ChallengeType,
      CleanerType, Digests, OpenStatuses, ApprovedStatuses, ClosedStatuses
<1>3. DigestsFollowStatus' /\ LeaseFollowsStatus' /\ ClaimFollowsStatus' /\
    PublisherKnowsApproval' /\ PublishedAsApproved' /\ PurgesClosedRecords'
  BY DEF ReviewInv, DigestsFollowStatus, LeaseFollowsStatus, ClaimFollowsStatus,
      PublisherKnowsApproval, PublishedAsApproved, PurgesClosedRecords, PendingExpires
<1> QED BY <1>1, <1>2, <1>3 DEF ReviewInv

\* ValidateRead preserves the invariant.
LEMMA ValidateReadInv ==
    ASSUME NEW v \in Validations, ReviewInv, ValidateRead(v)
    PROVE  ReviewInv'
<1>1. RowTypes'
  <2>1. validation' \in [Validations -> ValidationType]
    <3>1. [validation[v] EXCEPT !.pc = "read", !.seen = ActiveAssets] \in ValidationType
      BY ActiveAssetsType DEF ReviewInv, RowTypes, ValidationType
    <3> QED BY <3>1 DEF ReviewInv, RowTypes, ValidateRead
  <2> QED BY <2>1 DEF ReviewInv, RowTypes, ValidateRead, ActiveAssets
<1>2. LeaseFollowsStatus'
  <2>1. \A x \in Validations : validation'[x].row = validation[x].row
    BY DEF ReviewInv, RowTypes, ValidationType, ValidateRead
  <2> QED BY <2>1 DEF ReviewInv, RowTypes, RecordType, RequestKinds, LeaseFollowsStatus, ValidateRead
<1>3. DigestsFollowStatus' /\ ClaimFollowsStatus' /\ NoPendingUnderReview' /\
    PublisherKnowsApproval' /\ PublishedAsApproved' /\ PurgesClosedRecords'
  BY DEF ReviewInv, DigestsFollowStatus, ClaimFollowsStatus, NoPendingUnderReview,
      PublisherKnowsApproval, PublishedAsApproved, PurgesClosedRecords, ValidateRead,
      ActiveAssets
<1> QED BY <1>1, <1>2, <1>3 DEF ReviewInv

\* ValidateBegin preserves the invariant.
LEMMA ValidateBeginInv ==
    ASSUME NEW v \in Validations, ReviewInv, ValidateBegin(v)
    PROVE  ReviewInv'
<1>1. RowTypes'
  <2>1. record' \in RecordType
    BY KeysAssumption DEF ReviewInv, RowTypes, ValidateBegin, RecordType, RequestKinds, Digests,
        OpenStatuses, ApprovedStatuses, ClosedStatuses, ExpiredLeases, LeaseFree
  <2>2. validation' \in [Validations -> ValidationType]
    <3>1. ExpiredLeases \in [Validations -> ValidationType]
      BY DEF ReviewInv, RowTypes, ValidationType, ExpiredLeases
    <3>2. [ExpiredLeases[v] EXCEPT !.pc = "begun", !.row = "running", !.fresh = TRUE] \in
    ValidationType
      BY <3>1 DEF ValidationType
    <3>3. validation' = [ExpiredLeases EXCEPT ![v] =
                            [ExpiredLeases[v] EXCEPT !.pc = "begun", !.row = "running", !.fresh =
                            TRUE]]
      BY <3>1 DEF ValidateBegin, ValidationType
    <3> QED BY <3>1, <3>2, <3>3
  <2> QED BY <2>1, <2>2 DEF ReviewInv, RowTypes, ValidateBegin, ExpiredLeases, LeaseFree
<1>2. DigestsFollowStatus'
  BY IdsAssumption, KeysAssumption, <1>1 DEF ReviewInv, DigestsFollowStatus, ValidateBegin,
      RowTypes, RecordType, RequestKinds, AssetType, ValidationType, PublisherType, ChallengeType,
      CleanerType, Digests, OpenStatuses, ApprovedStatuses, ClosedStatuses, ExpiredLeases,
      LeaseFree
<1>3. LeaseFollowsStatus'
  BY SMTT(90), IdsAssumption, KeysAssumption, <1>1 DEF ReviewInv, LeaseFollowsStatus, ValidateBegin,
      RowTypes, RecordType, RequestKinds, AssetType, ValidationType, PublisherType, ChallengeType,
      CleanerType, Digests, OpenStatuses, ApprovedStatuses, ClosedStatuses, ExpiredLeases,
      LeaseFree
<1>4. ClaimFollowsStatus'
  BY IdsAssumption, KeysAssumption, <1>1 DEF ReviewInv, ClaimFollowsStatus, ValidateBegin,
      RowTypes, RecordType, RequestKinds, AssetType, ValidationType, PublisherType, ChallengeType,
      CleanerType, Digests, OpenStatuses, ApprovedStatuses, ClosedStatuses, ExpiredLeases,
      LeaseFree
<1>5. NoPendingUnderReview'
  BY SMTT(90), IdsAssumption, KeysAssumption, <1>1 DEF ReviewInv, NoPendingUnderReview, ValidateBegin,
      RowTypes, RecordType, RequestKinds, AssetType, ValidationType, PublisherType, ChallengeType,
      CleanerType, Digests, OpenStatuses, ApprovedStatuses, ClosedStatuses, ExpiredLeases,
      LeaseFree
<1>6. PublisherKnowsApproval'
  BY SMTT(90), IdsAssumption, KeysAssumption, <1>1 DEF ReviewInv, PublisherKnowsApproval, ValidateBegin,
      RowTypes, RecordType, RequestKinds, AssetType, ValidationType, PublisherType, ChallengeType,
      CleanerType, Digests, OpenStatuses, ApprovedStatuses, ClosedStatuses, ExpiredLeases,
      LeaseFree
<1>7. PublishedAsApproved'
  BY IdsAssumption, KeysAssumption, <1>1 DEF ReviewInv, PublishedAsApproved, ValidateBegin,
      RowTypes, RecordType, RequestKinds, AssetType, ValidationType, PublisherType, ChallengeType,
      CleanerType, Digests, OpenStatuses, ApprovedStatuses, ClosedStatuses, ExpiredLeases,
      LeaseFree
<1>8. PurgesClosedRecords'
  BY IdsAssumption, KeysAssumption, <1>1 DEF ReviewInv, PurgesClosedRecords, ValidateBegin,
      RowTypes, RecordType, RequestKinds, AssetType, ValidationType, PublisherType, ChallengeType,
      CleanerType, Digests, OpenStatuses, ApprovedStatuses, ClosedStatuses, ExpiredLeases,
      LeaseFree
<1> QED BY <1>1, <1>2, <1>3, <1>4, <1>5, <1>6, <1>7, <1>8 DEF ReviewInv

\* ValidateAssemble preserves the invariant.
LEMMA ValidateAssembleInv ==
    ASSUME NEW v \in Validations, ReviewInv, ValidateAssemble(v)
    PROVE  ReviewInv'
<1>1. RowTypes'
  <2>1. validation' \in [Validations -> ValidationType]
    <3>1. PICK passed \in BOOLEAN :
              validation' = [validation EXCEPT ![v].pc = "assembled", ![v].passed = passed]
      BY DEF ValidateAssemble
    <3>2. /\ [validation[v] EXCEPT !.pc = "assembled", !.passed = TRUE] \in ValidationType
          /\ [validation[v] EXCEPT !.pc = "assembled", !.passed = FALSE] \in ValidationType
      BY DEF ReviewInv, RowTypes, ValidationType
    <3>3. CASE passed = TRUE
      BY <3>1, <3>2, <3>3 DEF ReviewInv, RowTypes
    <3>4. CASE passed = FALSE
      BY <3>1, <3>2, <3>4 DEF ReviewInv, RowTypes
    <3> QED BY <3>3, <3>4
  <2> QED BY <2>1 DEF ReviewInv, RowTypes, ValidateAssemble
<1>2. LeaseFollowsStatus'
  BY IdsAssumption, KeysAssumption, <1>1 DEF ReviewInv, LeaseFollowsStatus, ValidateAssemble,
      RowTypes, RecordType, RequestKinds, AssetType, ValidationType, PublisherType, ChallengeType,
      CleanerType, Digests, OpenStatuses, ApprovedStatuses, ClosedStatuses
<1>3. DigestsFollowStatus' /\ ClaimFollowsStatus' /\ NoPendingUnderReview' /\
    PublisherKnowsApproval' /\ PublishedAsApproved' /\ PurgesClosedRecords'
  BY DEF ReviewInv, DigestsFollowStatus, ClaimFollowsStatus, NoPendingUnderReview,
      PublisherKnowsApproval, PublishedAsApproved, PurgesClosedRecords, ValidateAssemble
<1> QED BY <1>1, <1>2, <1>3 DEF ReviewInv

\* ValidateFinish preserves the invariant.
LEMMA ValidateFinishInv ==
    ASSUME NEW v \in Validations, ReviewInv, ValidateFinish(v)
    PROVE  ReviewInv'
<1>1. RowTypes'
  <2>1. record' \in RecordType
    <3>1. validation[v].seen \in SUBSET AssetKeys /\ validation[v] \in ValidationType
      BY DEF ReviewInv, RowTypes, ValidationType
    <3>2. CASE Decides(v) /\ validation[v].passed
      <4>1. record' = [record EXCEPT !.status = "validated", !.validated = validation[v].seen,
                                     !.active = NoId, !.stale = FALSE]
        BY <3>2 DEF ValidateFinish
      <4> QED BY <4>1, <3>1 DEF ReviewInv, RowTypes, RecordType, RequestKinds, Digests, OpenStatuses
    <3>3. CASE Decides(v) /\ ~validation[v].passed
      <4>1. record' = [record EXCEPT !.status = "pending_review", !.validated = NoDigest,
                                     !.active = NoId, !.stale = FALSE]
        BY <3>3 DEF ValidateFinish
      <4> QED BY <4>1 DEF ReviewInv, RowTypes, RecordType, RequestKinds, Digests, OpenStatuses
    <3>4. CASE ~Decides(v)
      BY <3>4 DEF ReviewInv, RowTypes, ValidateFinish
    <3> QED BY <3>2, <3>3, <3>4
  <2>2. validation' \in [Validations -> ValidationType]
    <3>1. validation[v] \in ValidationType
      BY DEF ReviewInv, RowTypes
    <3>2. \A row \in {"passed", "failed"} :
              [[validation[v] EXCEPT !.pc = "done"] EXCEPT !.row = row] \in ValidationType
      BY <3>1 DEF ValidationType
    <3>3. [validation[v] EXCEPT !.pc = "done"] \in ValidationType
      BY <3>1 DEF ValidationType
    <3>4. CASE validation[v].row = "running"
      <4>1. PICK row \in {"passed", "failed"} :
                validation' = [validation EXCEPT ![v] = [[validation[v] EXCEPT !.pc = "done"]
                EXCEPT !.row = row]]
        BY <3>4 DEF ValidateFinish
      <4> QED BY <4>1, <3>2 DEF ReviewInv, RowTypes
    <3>5. CASE validation[v].row # "running"
      BY <3>5, <3>3 DEF ReviewInv, RowTypes, ValidateFinish
    <3> QED BY <3>4, <3>5
  <2> QED BY <2>1, <2>2 DEF ReviewInv, RowTypes, ValidateFinish, Decides
<1>2. DigestsFollowStatus'
  BY IdsAssumption, KeysAssumption, <1>1 DEF ReviewInv, DigestsFollowStatus, ValidateFinish,
      RowTypes, RecordType, RequestKinds, AssetType, ValidationType, PublisherType, ChallengeType,
      CleanerType, Digests, OpenStatuses, ApprovedStatuses, ClosedStatuses, Decides
<1>3. LeaseFollowsStatus'
  BY IdsAssumption, KeysAssumption, <1>1 DEF ReviewInv, LeaseFollowsStatus, ValidateFinish,
      RowTypes, RecordType, RequestKinds, AssetType, ValidationType, PublisherType, ChallengeType,
      CleanerType, Digests, OpenStatuses, ApprovedStatuses, ClosedStatuses, Decides
<1>4. ClaimFollowsStatus'
  BY IdsAssumption, KeysAssumption, <1>1 DEF ReviewInv, ClaimFollowsStatus, ValidateFinish,
      RowTypes, RecordType, RequestKinds, AssetType, ValidationType, PublisherType, ChallengeType,
      CleanerType, Digests, OpenStatuses, ApprovedStatuses, ClosedStatuses, Decides
<1>5. NoPendingUnderReview'
  BY IdsAssumption, KeysAssumption, <1>1 DEF ReviewInv, NoPendingUnderReview, ValidateFinish,
      RowTypes, RecordType, RequestKinds, AssetType, ValidationType, PublisherType, ChallengeType,
      CleanerType, Digests, OpenStatuses, ApprovedStatuses, ClosedStatuses, Decides
<1>6. PublisherKnowsApproval'
  BY IdsAssumption, KeysAssumption, <1>1 DEF ReviewInv, PublisherKnowsApproval, ValidateFinish,
      RowTypes, RecordType, RequestKinds, AssetType, ValidationType, PublisherType, ChallengeType,
      CleanerType, Digests, OpenStatuses, ApprovedStatuses, ClosedStatuses, Decides
<1>7. PublishedAsApproved'
  BY IdsAssumption, KeysAssumption, <1>1 DEF ReviewInv, PublishedAsApproved, ValidateFinish,
      RowTypes, RecordType, RequestKinds, AssetType, ValidationType, PublisherType, ChallengeType,
      CleanerType, Digests, OpenStatuses, ApprovedStatuses, ClosedStatuses, Decides
<1>8. PurgesClosedRecords'
  BY IdsAssumption, KeysAssumption, <1>1 DEF ReviewInv, PurgesClosedRecords, ValidateFinish,
      RowTypes, RecordType, RequestKinds, AssetType, ValidationType, PublisherType, ChallengeType,
      CleanerType, Digests, OpenStatuses, ApprovedStatuses, ClosedStatuses, Decides
<1> QED BY <1>1, <1>2, <1>3, <1>4, <1>5, <1>6, <1>7, <1>8 DEF ReviewInv

\* ValidateStops preserves the invariant.
LEMMA ValidateStopsInv ==
    ASSUME NEW v \in Validations, ReviewInv, ValidateStops(v)
    PROVE  ReviewInv'
<1>1. RowTypes'
  <2>1. validation' \in [Validations -> ValidationType]
    BY KeysAssumption DEF ReviewInv, RowTypes, ValidateStops, ValidationType
  <2> QED BY <2>1 DEF ReviewInv, RowTypes, ValidateStops
<1>2. LeaseFollowsStatus'
  BY IdsAssumption, KeysAssumption, <1>1 DEF ReviewInv, LeaseFollowsStatus, ValidateStops,
      RowTypes, RecordType, RequestKinds, AssetType, ValidationType, PublisherType, ChallengeType,
      CleanerType, Digests, OpenStatuses, ApprovedStatuses, ClosedStatuses
<1>3. DigestsFollowStatus' /\ ClaimFollowsStatus' /\ NoPendingUnderReview' /\
    PublisherKnowsApproval' /\ PublishedAsApproved' /\ PurgesClosedRecords'
  BY DEF ReviewInv, DigestsFollowStatus, ClaimFollowsStatus, NoPendingUnderReview,
      PublisherKnowsApproval, PublishedAsApproved, PurgesClosedRecords, ValidateStops
<1> QED BY <1>1, <1>2, <1>3 DEF ReviewInv

\* LeaseExpires preserves the invariant.
LEMMA LeaseExpiresInv ==
    ASSUME NEW v \in Validations, ReviewInv, LeaseExpires(v)
    PROVE  ReviewInv'
<1>1. RowTypes'
  <2>1. validation' \in [Validations -> ValidationType]
    BY ZenonT(40), KeysAssumption DEF ReviewInv, RowTypes, LeaseExpires, ValidationType
  <2> QED BY <2>1 DEF ReviewInv, RowTypes, LeaseExpires
<1>2. LeaseFollowsStatus'
  BY IdsAssumption, KeysAssumption, <1>1 DEF ReviewInv, LeaseFollowsStatus, LeaseExpires,
      RowTypes, RecordType, RequestKinds, AssetType, ValidationType, PublisherType, ChallengeType,
      CleanerType, Digests, OpenStatuses, ApprovedStatuses, ClosedStatuses
<1>3. DigestsFollowStatus' /\ ClaimFollowsStatus' /\ NoPendingUnderReview' /\
    PublisherKnowsApproval' /\ PublishedAsApproved' /\ PurgesClosedRecords'
  BY DEF ReviewInv, DigestsFollowStatus, ClaimFollowsStatus, NoPendingUnderReview,
      PublisherKnowsApproval, PublishedAsApproved, PurgesClosedRecords, LeaseExpires
<1> QED BY <1>1, <1>2, <1>3 DEF ReviewInv

\* Approve preserves the invariant.
LEMMA ApproveInv ==
    ASSUME ReviewInv, Approve
    PROVE  ReviewInv'
<1>1. RowTypes'
  <2>1. record' \in RecordType
    BY KeysAssumption DEF ReviewInv, RowTypes, Approve, RecordType, RequestKinds, Digests,
        OpenStatuses, ApprovedStatuses, ClosedStatuses
  <2> QED BY <2>1 DEF ReviewInv, RowTypes, Approve
<1>2. DigestsFollowStatus'
  BY IdsAssumption, KeysAssumption, <1>1 DEF ReviewInv, DigestsFollowStatus, Approve, RowTypes,
      RecordType, RequestKinds, AssetType, ValidationType, PublisherType, ChallengeType,
      CleanerType, Digests, OpenStatuses, ApprovedStatuses, ClosedStatuses
<1>3. LeaseFollowsStatus'
  BY IdsAssumption, KeysAssumption, <1>1 DEF ReviewInv, LeaseFollowsStatus, Approve, RowTypes,
      RecordType, RequestKinds, AssetType, ValidationType, PublisherType, ChallengeType,
      CleanerType, Digests, OpenStatuses, ApprovedStatuses, ClosedStatuses
<1>4. ClaimFollowsStatus'
  BY IdsAssumption, KeysAssumption, <1>1 DEF ReviewInv, ClaimFollowsStatus, Approve, RowTypes,
      RecordType, RequestKinds, AssetType, ValidationType, PublisherType, ChallengeType,
      CleanerType, Digests, OpenStatuses, ApprovedStatuses, ClosedStatuses
<1>5. NoPendingUnderReview'
  BY IdsAssumption, KeysAssumption, <1>1 DEF ReviewInv, NoPendingUnderReview, Approve, RowTypes,
      RecordType, RequestKinds, AssetType, ValidationType, PublisherType, ChallengeType,
      CleanerType, Digests, OpenStatuses, ApprovedStatuses, ClosedStatuses
<1>6. PublisherKnowsApproval'
  BY IdsAssumption, KeysAssumption, <1>1 DEF ReviewInv, PublisherKnowsApproval, Approve, RowTypes,
      RecordType, RequestKinds, AssetType, ValidationType, PublisherType, ChallengeType,
      CleanerType, Digests, OpenStatuses, ApprovedStatuses, ClosedStatuses
<1>7. PublishedAsApproved'
  BY IdsAssumption, KeysAssumption, <1>1 DEF ReviewInv, PublishedAsApproved, Approve, RowTypes,
      RecordType, RequestKinds, AssetType, ValidationType, PublisherType, ChallengeType,
      CleanerType, Digests, OpenStatuses, ApprovedStatuses, ClosedStatuses
<1>8. PurgesClosedRecords'
  BY IdsAssumption, KeysAssumption, <1>1 DEF ReviewInv, PurgesClosedRecords, Approve, RowTypes,
      RecordType, RequestKinds, AssetType, ValidationType, PublisherType, ChallengeType,
      CleanerType, Digests, OpenStatuses, ApprovedStatuses, ClosedStatuses
<1> QED BY <1>1, <1>2, <1>3, <1>4, <1>5, <1>6, <1>7, <1>8 DEF ReviewInv

\* Reject preserves the invariant.
LEMMA RejectInv ==
    ASSUME ReviewInv, Reject
    PROVE  ReviewInv'
<1>1. RowTypes'
  <2>1. record' \in RecordType
    BY KeysAssumption DEF ReviewInv, RowTypes, Reject, RecordType, RequestKinds, Digests,
        OpenStatuses, ApprovedStatuses, ClosedStatuses
  <2> QED BY <2>1 DEF ReviewInv, RowTypes, Reject
<1>2. DigestsFollowStatus'
  BY IdsAssumption, KeysAssumption, <1>1 DEF ReviewInv, DigestsFollowStatus, Reject, RowTypes,
      RecordType, RequestKinds, AssetType, ValidationType, PublisherType, ChallengeType,
      CleanerType, Digests, OpenStatuses, ApprovedStatuses, ClosedStatuses
<1>3. LeaseFollowsStatus'
  BY IdsAssumption, KeysAssumption, <1>1 DEF ReviewInv, LeaseFollowsStatus, Reject, RowTypes,
      RecordType, RequestKinds, AssetType, ValidationType, PublisherType, ChallengeType,
      CleanerType, Digests, OpenStatuses, ApprovedStatuses, ClosedStatuses
<1>4. ClaimFollowsStatus'
  BY IdsAssumption, KeysAssumption, <1>1 DEF ReviewInv, ClaimFollowsStatus, Reject, RowTypes,
      RecordType, RequestKinds, AssetType, ValidationType, PublisherType, ChallengeType,
      CleanerType, Digests, OpenStatuses, ApprovedStatuses, ClosedStatuses
<1>5. NoPendingUnderReview'
  BY IdsAssumption, KeysAssumption, <1>1 DEF ReviewInv, NoPendingUnderReview, Reject, RowTypes,
      RecordType, RequestKinds, AssetType, ValidationType, PublisherType, ChallengeType,
      CleanerType, Digests, OpenStatuses, ApprovedStatuses, ClosedStatuses
<1>6. PublisherKnowsApproval'
  BY IdsAssumption, KeysAssumption, <1>1 DEF ReviewInv, PublisherKnowsApproval, Reject, RowTypes,
      RecordType, RequestKinds, AssetType, ValidationType, PublisherType, ChallengeType,
      CleanerType, Digests, OpenStatuses, ApprovedStatuses, ClosedStatuses
<1>7. PublishedAsApproved'
  BY IdsAssumption, KeysAssumption, <1>1 DEF ReviewInv, PublishedAsApproved, Reject, RowTypes,
      RecordType, RequestKinds, AssetType, ValidationType, PublisherType, ChallengeType,
      CleanerType, Digests, OpenStatuses, ApprovedStatuses, ClosedStatuses
<1>8. PurgesClosedRecords'
  BY IdsAssumption, KeysAssumption, <1>1 DEF ReviewInv, PurgesClosedRecords, Reject, RowTypes,
      RecordType, RequestKinds, AssetType, ValidationType, PublisherType, ChallengeType,
      CleanerType, Digests, OpenStatuses, ApprovedStatuses, ClosedStatuses
<1> QED BY <1>1, <1>2, <1>3, <1>4, <1>5, <1>6, <1>7, <1>8 DEF ReviewInv

\* Abandon preserves the invariant.
LEMMA AbandonInv ==
    ASSUME ReviewInv, Abandon
    PROVE  ReviewInv'
<1>1. RowTypes'
  <2>1. record' \in RecordType
    BY KeysAssumption DEF ReviewInv, RowTypes, Abandon, RecordType, RequestKinds, Digests,
        OpenStatuses, ApprovedStatuses, ClosedStatuses
  <2> QED BY <2>1 DEF ReviewInv, RowTypes, Abandon
<1>2. DigestsFollowStatus'
  BY IdsAssumption, KeysAssumption, <1>1 DEF ReviewInv, DigestsFollowStatus, Abandon, RowTypes,
      RecordType, RequestKinds, AssetType, ValidationType, PublisherType, ChallengeType,
      CleanerType, Digests, OpenStatuses, ApprovedStatuses, ClosedStatuses
<1>3. LeaseFollowsStatus'
  BY IdsAssumption, KeysAssumption, <1>1 DEF ReviewInv, LeaseFollowsStatus, Abandon, RowTypes,
      RecordType, RequestKinds, AssetType, ValidationType, PublisherType, ChallengeType,
      CleanerType, Digests, OpenStatuses, ApprovedStatuses, ClosedStatuses
<1>4. ClaimFollowsStatus'
  BY IdsAssumption, KeysAssumption, <1>1 DEF ReviewInv, ClaimFollowsStatus, Abandon, RowTypes,
      RecordType, RequestKinds, AssetType, ValidationType, PublisherType, ChallengeType,
      CleanerType, Digests, OpenStatuses, ApprovedStatuses, ClosedStatuses
<1>5. NoPendingUnderReview'
  BY IdsAssumption, KeysAssumption, <1>1 DEF ReviewInv, NoPendingUnderReview, Abandon, RowTypes,
      RecordType, RequestKinds, AssetType, ValidationType, PublisherType, ChallengeType,
      CleanerType, Digests, OpenStatuses, ApprovedStatuses, ClosedStatuses
<1>6. PublisherKnowsApproval'
  BY IdsAssumption, KeysAssumption, <1>1 DEF ReviewInv, PublisherKnowsApproval, Abandon, RowTypes,
      RecordType, RequestKinds, AssetType, ValidationType, PublisherType, ChallengeType,
      CleanerType, Digests, OpenStatuses, ApprovedStatuses, ClosedStatuses
<1>7. PublishedAsApproved'
  BY IdsAssumption, KeysAssumption, <1>1 DEF ReviewInv, PublishedAsApproved, Abandon, RowTypes,
      RecordType, RequestKinds, AssetType, ValidationType, PublisherType, ChallengeType,
      CleanerType, Digests, OpenStatuses, ApprovedStatuses, ClosedStatuses
<1>8. PurgesClosedRecords'
  BY IdsAssumption, KeysAssumption, <1>1 DEF ReviewInv, PurgesClosedRecords, Abandon, RowTypes,
      RecordType, RequestKinds, AssetType, ValidationType, PublisherType, ChallengeType,
      CleanerType, Digests, OpenStatuses, ApprovedStatuses, ClosedStatuses
<1> QED BY <1>1, <1>2, <1>3, <1>4, <1>5, <1>6, <1>7, <1>8 DEF ReviewInv

\* PublishClaim preserves the invariant.
LEMMA PublishClaimInv ==
    ASSUME NEW c \in Claims, ReviewInv, PublishClaim(c)
    PROVE  ReviewInv'
<1>1. RowTypes'
  <2>1. record' \in RecordType
    BY KeysAssumption DEF ReviewInv, RowTypes, PublishClaim, RecordType, RequestKinds, Digests,
        OpenStatuses, ApprovedStatuses, ClosedStatuses
  <2>2. publisher' \in [Claims -> PublisherType]
    BY KeysAssumption DEF ReviewInv, RowTypes, PublishClaim, PublisherType, Digests, RecordType
  <2> QED BY <2>1, <2>2 DEF ReviewInv, RowTypes, PublishClaim
<1>2. DigestsFollowStatus'
  BY IdsAssumption, KeysAssumption, <1>1 DEF ReviewInv, DigestsFollowStatus, PublishClaim,
      RowTypes, RecordType, RequestKinds, AssetType, ValidationType, PublisherType, ChallengeType,
      CleanerType, Digests, OpenStatuses, ApprovedStatuses, ClosedStatuses
<1>3. LeaseFollowsStatus'
  BY IdsAssumption, KeysAssumption, <1>1 DEF ReviewInv, LeaseFollowsStatus, PublishClaim,
      RowTypes, RecordType, RequestKinds, AssetType, ValidationType, PublisherType, ChallengeType,
      CleanerType, Digests, OpenStatuses, ApprovedStatuses, ClosedStatuses
<1>4. ClaimFollowsStatus'
  BY IdsAssumption, KeysAssumption, <1>1 DEF ReviewInv, ClaimFollowsStatus, PublishClaim,
      RowTypes, RecordType, RequestKinds, AssetType, ValidationType, PublisherType, ChallengeType,
      CleanerType, Digests, OpenStatuses, ApprovedStatuses, ClosedStatuses
<1>5. NoPendingUnderReview'
  BY IdsAssumption, KeysAssumption, <1>1 DEF ReviewInv, NoPendingUnderReview, PublishClaim,
      RowTypes, RecordType, RequestKinds, AssetType, ValidationType, PublisherType, ChallengeType,
      CleanerType, Digests, OpenStatuses, ApprovedStatuses, ClosedStatuses
<1>6. PublisherKnowsApproval'
  BY IdsAssumption, KeysAssumption, <1>1 DEF ReviewInv, PublisherKnowsApproval, PublishClaim,
      RowTypes, RecordType, RequestKinds, AssetType, ValidationType, PublisherType, ChallengeType,
      CleanerType, Digests, OpenStatuses, ApprovedStatuses, ClosedStatuses
<1>7. PublishedAsApproved'
  BY IdsAssumption, KeysAssumption, <1>1 DEF ReviewInv, PublishedAsApproved, PublishClaim,
      RowTypes, RecordType, RequestKinds, AssetType, ValidationType, PublisherType, ChallengeType,
      CleanerType, Digests, OpenStatuses, ApprovedStatuses, ClosedStatuses
<1>8. PurgesClosedRecords'
  BY IdsAssumption, KeysAssumption, <1>1 DEF ReviewInv, PurgesClosedRecords, PublishClaim,
      RowTypes, RecordType, RequestKinds, AssetType, ValidationType, PublisherType, ChallengeType,
      CleanerType, Digests, OpenStatuses, ApprovedStatuses, ClosedStatuses
<1> QED BY <1>1, <1>2, <1>3, <1>4, <1>5, <1>6, <1>7, <1>8 DEF ReviewInv

\* PublishRead preserves the invariant.
LEMMA PublishReadInv ==
    ASSUME NEW c \in Claims, ReviewInv, PublishRead(c)
    PROVE  ReviewInv'
<1>1. RowTypes'
  <2>1. publisher' \in [Claims -> PublisherType]
    BY KeysAssumption DEF ReviewInv, RowTypes, PublishRead, PublisherType, Digests, RecordType,
        RequestKinds, ActiveAssets
  <2> QED BY <2>1 DEF ReviewInv, RowTypes, PublishRead, ActiveAssets
<1>2. PublisherKnowsApproval'
  BY IdsAssumption, KeysAssumption, <1>1 DEF ReviewInv, PublisherKnowsApproval, PublishRead,
      RowTypes, RecordType, RequestKinds, AssetType, ValidationType, PublisherType, ChallengeType,
      CleanerType, Digests, OpenStatuses, ApprovedStatuses, ClosedStatuses, ActiveAssets
<1>3. PublishedAsApproved'
  BY IdsAssumption, KeysAssumption, <1>1 DEF ReviewInv, PublishedAsApproved, PublishRead,
      RowTypes, RecordType, RequestKinds, AssetType, ValidationType, PublisherType, ChallengeType,
      CleanerType, Digests, OpenStatuses, ApprovedStatuses, ClosedStatuses, ActiveAssets
<1>4. DigestsFollowStatus' /\ LeaseFollowsStatus' /\ ClaimFollowsStatus' /\
    NoPendingUnderReview' /\ PurgesClosedRecords'
  BY DEF ReviewInv, DigestsFollowStatus, LeaseFollowsStatus, ClaimFollowsStatus,
      NoPendingUnderReview, PurgesClosedRecords, PublishRead, ActiveAssets
<1> QED BY <1>1, <1>2, <1>3, <1>4 DEF ReviewInv

\* PublishCheck preserves the invariant.
LEMMA PublishCheckInv ==
    ASSUME NEW c \in Claims, ReviewInv, PublishCheck(c)
    PROVE  ReviewInv'
<1>1. RowTypes'
  <2>1. publisher' \in [Claims -> PublisherType]
    BY KeysAssumption DEF ReviewInv, RowTypes, PublishCheck, PublisherType, Digests, RecordType,
        RequestKinds, IsApproved
  <2> QED BY <2>1 DEF ReviewInv, RowTypes, PublishCheck, IsApproved
<1>2. PublisherKnowsApproval'
  BY IdsAssumption, KeysAssumption, <1>1 DEF ReviewInv, PublisherKnowsApproval, PublishCheck,
      RowTypes, RecordType, RequestKinds, AssetType, ValidationType, PublisherType, ChallengeType,
      CleanerType, Digests, OpenStatuses, ApprovedStatuses, ClosedStatuses, IsApproved
<1>3. PublishedAsApproved'
  BY IdsAssumption, KeysAssumption, <1>1 DEF ReviewInv, PublishedAsApproved, PublishCheck,
      RowTypes, RecordType, RequestKinds, AssetType, ValidationType, PublisherType, ChallengeType,
      CleanerType, Digests, OpenStatuses, ApprovedStatuses, ClosedStatuses, IsApproved
<1>4. DigestsFollowStatus' /\ LeaseFollowsStatus' /\ ClaimFollowsStatus' /\
    NoPendingUnderReview' /\ PurgesClosedRecords'
  BY DEF ReviewInv, DigestsFollowStatus, LeaseFollowsStatus, ClaimFollowsStatus,
      NoPendingUnderReview, PurgesClosedRecords, PublishCheck, IsApproved
<1> QED BY <1>1, <1>2, <1>3, <1>4 DEF ReviewInv

\* PublishStore preserves the invariant.
LEMMA PublishStoreInv ==
    ASSUME NEW c \in Claims, ReviewInv, PublishStore(c)
    PROVE  ReviewInv'
<1>1. RowTypes'
  <2>1. publisher' \in [Claims -> PublisherType]
    BY KeysAssumption DEF ReviewInv, RowTypes, PublishStore, PublisherType
  <2>2. bundle' \in [Claims -> Digests]
    <3>1. publisher[c].seen \in SUBSET AssetKeys
      BY DEF ReviewInv, RowTypes, PublisherType
    <3> QED BY <3>1 DEF ReviewInv, RowTypes, PublishStore, Digests
  <2> QED BY <2>1, <2>2 DEF ReviewInv, RowTypes, PublishStore
<1>2. PublisherKnowsApproval'
  BY IdsAssumption, KeysAssumption, <1>1 DEF ReviewInv, PublisherKnowsApproval, PublishStore,
      RowTypes, RecordType, RequestKinds, AssetType, ValidationType, PublisherType, ChallengeType,
      CleanerType, Digests, OpenStatuses, ApprovedStatuses, ClosedStatuses
<1>3. PublishedAsApproved'
  BY IdsAssumption, KeysAssumption, <1>1 DEF ReviewInv, PublishedAsApproved, PublishStore,
      RowTypes, RecordType, RequestKinds, AssetType, ValidationType, PublisherType, ChallengeType,
      CleanerType, Digests, OpenStatuses, ApprovedStatuses, ClosedStatuses
<1>4. DigestsFollowStatus' /\ LeaseFollowsStatus' /\ ClaimFollowsStatus' /\
    NoPendingUnderReview' /\ PurgesClosedRecords'
  BY DEF ReviewInv, DigestsFollowStatus, LeaseFollowsStatus, ClaimFollowsStatus,
      NoPendingUnderReview, PurgesClosedRecords, PublishStore
<1> QED BY <1>1, <1>2, <1>3, <1>4 DEF ReviewInv

\* PublishErrs preserves the invariant.
LEMMA PublishErrsInv ==
    ASSUME NEW c \in Claims, ReviewInv, PublishErrs(c)
    PROVE  ReviewInv'
<1>1. RowTypes'
  <2>1. publisher' \in [Claims -> PublisherType]
    BY KeysAssumption DEF ReviewInv, RowTypes, PublishErrs, PublisherType
  <2> QED BY <2>1 DEF ReviewInv, RowTypes, PublishErrs
<1>2. PublisherKnowsApproval'
  BY IdsAssumption, KeysAssumption, <1>1 DEF ReviewInv, PublisherKnowsApproval, PublishErrs,
      RowTypes, RecordType, RequestKinds, AssetType, ValidationType, PublisherType, ChallengeType,
      CleanerType, Digests, OpenStatuses, ApprovedStatuses, ClosedStatuses
<1>3. PublishedAsApproved'
  BY IdsAssumption, KeysAssumption, <1>1 DEF ReviewInv, PublishedAsApproved, PublishErrs,
      RowTypes, RecordType, RequestKinds, AssetType, ValidationType, PublisherType, ChallengeType,
      CleanerType, Digests, OpenStatuses, ApprovedStatuses, ClosedStatuses
<1>4. DigestsFollowStatus' /\ LeaseFollowsStatus' /\ ClaimFollowsStatus' /\
    NoPendingUnderReview' /\ PurgesClosedRecords'
  BY DEF ReviewInv, DigestsFollowStatus, LeaseFollowsStatus, ClaimFollowsStatus,
      NoPendingUnderReview, PurgesClosedRecords, PublishErrs
<1> QED BY <1>1, <1>2, <1>3, <1>4 DEF ReviewInv

\* A publish transaction preserves the invariant, whatever its handler does next.
LEMMA PublishedInv ==
    ASSUME NEW c \in Claims, ReviewInv,
           NEW pc \in {"done", "dropping", "failing"},
           PublishNew(c) \/ PublishArchive(c),
           publisher' = [publisher EXCEPT ![c].pc = pc],
           UNCHANGED <<asset, object, upload, validation, bundle, cleaner>>
    PROVE  ReviewInv'
<1>1. /\ record.status = "publishing" /\ record.active = NoId
      /\ record' = [record EXCEPT !.status = "published", !.claim = NoId, !.stale = FALSE]
  BY DEF PublishNew, PublishArchive, MarkPublished
<1>2. /\ record'.status = "published" /\ record'.claim = NoId /\ record'.active = NoId
      /\ record'.validated = record.validated /\ record'.approved = record.approved
  BY <1>1 DEF ReviewInv, RowTypes, RecordType
<1>3. RowTypes'
  <2>1. record' \in RecordType
    BY <1>1 DEF ReviewInv, RowTypes, RecordType, RequestKinds, ApprovedStatuses
  <2>2. [publisher[c] EXCEPT !.pc = pc] \in PublisherType
    BY DEF ReviewInv, RowTypes, PublisherType
  <2>3. challenge' \in ChallengeType
    BY DEF ReviewInv, RowTypes, ChallengeType, PublishNew, PublishArchive
  <2> QED BY <2>1, <2>2, <2>3 DEF ReviewInv, RowTypes
<1>4. \A d \in Claims : /\ publisher'[d].seen = publisher[d].seen
                        /\ publisher'[d].approved = publisher[d].approved
                        /\ publisher'[d].pc = IF d = c THEN pc ELSE publisher[d].pc
  BY DEF ReviewInv, RowTypes, PublisherType
<1>5. DigestsFollowStatus' /\ LeaseFollowsStatus' /\ ClaimFollowsStatus'
  BY <1>1, <1>2 DEF ReviewInv, DigestsFollowStatus, LeaseFollowsStatus, ClaimFollowsStatus,
      OpenStatuses, ApprovedStatuses
<1>6. NoPendingUnderReview'
  BY <1>1, <1>2 DEF ReviewInv, NoPendingUnderReview, ApprovedStatuses
<1>7. PublisherKnowsApproval'
  BY <1>1, <1>2, <1>4 DEF ReviewInv, PublisherKnowsApproval, OpenStatuses
<1>8. PublishedAsApproved'
  <2>1. CASE PublishNew(c)
    <3>1. publisher[c].seen = record.approved
      BY <2>1 DEF ReviewInv, PublisherKnowsApproval, PublishNew
    <3>2. challenge'.bundle = c
      BY <2>1 DEF PublishNew
    <3> QED BY <3>1, <3>2, <1>2, <1>4 DEF PublishedAsApproved
  <2>2. CASE PublishArchive(c)
    <3>1. challenge'.bundle = challenge.bundle
      BY <2>2 DEF ReviewInv, RowTypes, ChallengeType, PublishArchive
    <3>2. challenge.bundle = NoId
      BY <1>1 DEF ReviewInv, PublishedAsApproved
    <3> QED BY <3>1, <3>2 DEF PublishedAsApproved
  <2> QED BY <2>1, <2>2
<1>9. PurgesClosedRecords'
  BY <1>1, <1>2 DEF ReviewInv, PurgesClosedRecords, ClosedStatuses
<1> QED BY <1>3, <1>5, <1>6, <1>7, <1>8, <1>9 DEF ReviewInv

\* PublishCommit preserves the invariant.
LEMMA PublishCommitInv ==
    ASSUME NEW c \in Claims, ReviewInv, PublishCommit(c)
    PROVE  ReviewInv'
BY PublishedInv DEF PublishCommit

\* PublishCommitFails preserves the invariant.
LEMMA PublishCommitFailsInv ==
    ASSUME NEW c \in Claims, ReviewInv, PublishCommitFails(c)
    PROVE  ReviewInv'
<1>1. RowTypes'
  <2>1. publisher' \in [Claims -> PublisherType]
    BY KeysAssumption DEF ReviewInv, RowTypes, PublishCommitFails, PublisherType, Digests,
        RecordType
  <2> QED BY <2>1 DEF ReviewInv, RowTypes, PublishCommitFails
<1>2. PublisherKnowsApproval'
  BY IdsAssumption, KeysAssumption, <1>1 DEF ReviewInv, PublisherKnowsApproval,
      PublishCommitFails, RowTypes, RecordType, RequestKinds, AssetType, ValidationType,
      PublisherType, ChallengeType, CleanerType, Digests, OpenStatuses, ApprovedStatuses,
      ClosedStatuses
<1>3. PublishedAsApproved'
  BY IdsAssumption, KeysAssumption, <1>1 DEF ReviewInv, PublishedAsApproved, PublishCommitFails,
      RowTypes, RecordType, RequestKinds, AssetType, ValidationType, PublisherType, ChallengeType,
      CleanerType, Digests, OpenStatuses, ApprovedStatuses, ClosedStatuses
<1>4. DigestsFollowStatus' /\ LeaseFollowsStatus' /\ ClaimFollowsStatus' /\
    NoPendingUnderReview' /\ PurgesClosedRecords'
  BY DEF ReviewInv, DigestsFollowStatus, LeaseFollowsStatus, ClaimFollowsStatus,
      NoPendingUnderReview, PurgesClosedRecords, PublishCommitFails
<1> QED BY <1>1, <1>2, <1>3, <1>4 DEF ReviewInv

\* PublishReplyLost preserves the invariant.
LEMMA PublishReplyLostInv ==
    ASSUME NEW c \in Claims, ReviewInv, PublishReplyLost(c)
    PROVE  ReviewInv'
BY PublishedInv DEF PublishReplyLost

\* PublishDrop preserves the invariant.
LEMMA PublishDropInv ==
    ASSUME NEW c \in Claims, ReviewInv, PublishDrop(c)
    PROVE  ReviewInv'
<1>1. RowTypes'
  <2>1. publisher' \in [Claims -> PublisherType]
    BY KeysAssumption DEF ReviewInv, RowTypes, PublishDrop, PublisherType
  <2>2. bundle' \in [Claims -> Digests]
    BY KeysAssumption DEF ReviewInv, RowTypes, PublishDrop, Digests
  <2> QED BY <2>1, <2>2 DEF ReviewInv, RowTypes, PublishDrop
<1>2. PublisherKnowsApproval'
  BY IdsAssumption, KeysAssumption, <1>1 DEF ReviewInv, PublisherKnowsApproval, PublishDrop,
      RowTypes, RecordType, RequestKinds, AssetType, ValidationType, PublisherType, ChallengeType,
      CleanerType, Digests, OpenStatuses, ApprovedStatuses, ClosedStatuses
<1>3. PublishedAsApproved'
  BY IdsAssumption, KeysAssumption, <1>1 DEF ReviewInv, PublishedAsApproved, PublishDrop,
      RowTypes, RecordType, RequestKinds, AssetType, ValidationType, PublisherType, ChallengeType,
      CleanerType, Digests, OpenStatuses, ApprovedStatuses, ClosedStatuses
<1>4. DigestsFollowStatus' /\ LeaseFollowsStatus' /\ ClaimFollowsStatus' /\
    NoPendingUnderReview' /\ PurgesClosedRecords'
  BY DEF ReviewInv, DigestsFollowStatus, LeaseFollowsStatus, ClaimFollowsStatus,
      NoPendingUnderReview, PurgesClosedRecords, PublishDrop
<1> QED BY <1>1, <1>2, <1>3, <1>4 DEF ReviewInv

\* PublishFail preserves the invariant.
LEMMA PublishFailInv ==
    ASSUME NEW c \in Claims, ReviewInv, PublishFail(c)
    PROVE  ReviewInv'
<1>1. RowTypes'
  <2>1. record' \in RecordType
    BY KeysAssumption DEF ReviewInv, RowTypes, PublishFail, RecordType, RequestKinds, Digests,
        OpenStatuses, ApprovedStatuses, ClosedStatuses, CanRelease
  <2>2. publisher' \in [Claims -> PublisherType]
    BY KeysAssumption DEF ReviewInv, RowTypes, PublishFail, PublisherType, Digests, RecordType,
        RequestKinds, CanRelease
  <2> QED BY <2>1, <2>2 DEF ReviewInv, RowTypes, PublishFail, CanRelease
<1>2. DigestsFollowStatus'
  BY IdsAssumption, KeysAssumption, <1>1 DEF ReviewInv, DigestsFollowStatus, PublishFail,
      RowTypes, RecordType, RequestKinds, AssetType, ValidationType, PublisherType, ChallengeType,
      CleanerType, Digests, OpenStatuses, ApprovedStatuses, ClosedStatuses, CanRelease
<1>3. LeaseFollowsStatus'
  BY IdsAssumption, KeysAssumption, <1>1 DEF ReviewInv, LeaseFollowsStatus, PublishFail, RowTypes,
      RecordType, RequestKinds, AssetType, ValidationType, PublisherType, ChallengeType,
      CleanerType, Digests, OpenStatuses, ApprovedStatuses, ClosedStatuses, CanRelease
<1>4. ClaimFollowsStatus'
  BY IdsAssumption, KeysAssumption, <1>1 DEF ReviewInv, ClaimFollowsStatus, PublishFail, RowTypes,
      RecordType, RequestKinds, AssetType, ValidationType, PublisherType, ChallengeType,
      CleanerType, Digests, OpenStatuses, ApprovedStatuses, ClosedStatuses, CanRelease
<1>5. NoPendingUnderReview'
  BY IdsAssumption, KeysAssumption, <1>1 DEF ReviewInv, NoPendingUnderReview, PublishFail,
      RowTypes, RecordType, RequestKinds, AssetType, ValidationType, PublisherType, ChallengeType,
      CleanerType, Digests, OpenStatuses, ApprovedStatuses, ClosedStatuses, CanRelease
<1>6. PublisherKnowsApproval'
  BY IdsAssumption, KeysAssumption, <1>1 DEF ReviewInv, PublisherKnowsApproval, PublishFail,
      RowTypes, RecordType, RequestKinds, AssetType, ValidationType, PublisherType, ChallengeType,
      CleanerType, Digests, OpenStatuses, ApprovedStatuses, ClosedStatuses, CanRelease
<1>7. PublishedAsApproved'
  BY IdsAssumption, KeysAssumption, <1>1 DEF ReviewInv, PublishedAsApproved, PublishFail,
      RowTypes, RecordType, RequestKinds, AssetType, ValidationType, PublisherType, ChallengeType,
      CleanerType, Digests, OpenStatuses, ApprovedStatuses, ClosedStatuses, CanRelease
<1>8. PurgesClosedRecords'
  BY IdsAssumption, KeysAssumption, <1>1 DEF ReviewInv, PurgesClosedRecords, PublishFail,
      RowTypes, RecordType, RequestKinds, AssetType, ValidationType, PublisherType, ChallengeType,
      CleanerType, Digests, OpenStatuses, ApprovedStatuses, ClosedStatuses, CanRelease
<1> QED BY <1>1, <1>2, <1>3, <1>4, <1>5, <1>6, <1>7, <1>8 DEF ReviewInv

\* PublishStops preserves the invariant.
LEMMA PublishStopsInv ==
    ASSUME NEW c \in Claims, ReviewInv, PublishStops(c)
    PROVE  ReviewInv'
<1>1. RowTypes'
  <2>1. publisher' \in [Claims -> PublisherType]
    BY KeysAssumption DEF ReviewInv, RowTypes, PublishStops, PublisherType
  <2> QED BY <2>1 DEF ReviewInv, RowTypes, PublishStops
<1>2. PublisherKnowsApproval'
  BY IdsAssumption, KeysAssumption, <1>1 DEF ReviewInv, PublisherKnowsApproval, PublishStops,
      RowTypes, RecordType, RequestKinds, AssetType, ValidationType, PublisherType, ChallengeType,
      CleanerType, Digests, OpenStatuses, ApprovedStatuses, ClosedStatuses
<1>3. PublishedAsApproved'
  BY IdsAssumption, KeysAssumption, <1>1 DEF ReviewInv, PublishedAsApproved, PublishStops,
      RowTypes, RecordType, RequestKinds, AssetType, ValidationType, PublisherType, ChallengeType,
      CleanerType, Digests, OpenStatuses, ApprovedStatuses, ClosedStatuses
<1>4. DigestsFollowStatus' /\ LeaseFollowsStatus' /\ ClaimFollowsStatus' /\
    NoPendingUnderReview' /\ PurgesClosedRecords'
  BY DEF ReviewInv, DigestsFollowStatus, LeaseFollowsStatus, ClaimFollowsStatus,
      NoPendingUnderReview, PurgesClosedRecords, PublishStops
<1> QED BY <1>1, <1>2, <1>3, <1>4 DEF ReviewInv

\* CleanerSweep preserves the invariant.
LEMMA CleanerSweepInv ==
    ASSUME ReviewInv, CleanerSweep
    PROVE  ReviewInv'
<1>1. RowTypes'
  <2>1. record' \in RecordType
    BY KeysAssumption DEF ReviewInv, RowTypes, CleanerSweep, RecordType, RequestKinds, Digests,
        OpenStatuses, ApprovedStatuses, ClosedStatuses
  <2>2. cleaner' \in CleanerType
    BY KeysAssumption DEF ReviewInv, RowTypes, CleanerSweep, CleanerType
  <2> QED BY <2>1, <2>2 DEF ReviewInv, RowTypes, CleanerSweep
<1>2. DigestsFollowStatus'
  BY IdsAssumption, KeysAssumption, <1>1 DEF ReviewInv, DigestsFollowStatus, CleanerSweep,
      RowTypes, RecordType, RequestKinds, AssetType, ValidationType, PublisherType, ChallengeType,
      CleanerType, Digests, OpenStatuses, ApprovedStatuses, ClosedStatuses
<1>3. LeaseFollowsStatus'
  BY IdsAssumption, KeysAssumption, <1>1 DEF ReviewInv, LeaseFollowsStatus, CleanerSweep,
      RowTypes, RecordType, RequestKinds, AssetType, ValidationType, PublisherType, ChallengeType,
      CleanerType, Digests, OpenStatuses, ApprovedStatuses, ClosedStatuses
<1>4. ClaimFollowsStatus'
  BY IdsAssumption, KeysAssumption, <1>1 DEF ReviewInv, ClaimFollowsStatus, CleanerSweep,
      RowTypes, RecordType, RequestKinds, AssetType, ValidationType, PublisherType, ChallengeType,
      CleanerType, Digests, OpenStatuses, ApprovedStatuses, ClosedStatuses
<1>5. NoPendingUnderReview'
  BY IdsAssumption, KeysAssumption, <1>1 DEF ReviewInv, NoPendingUnderReview, CleanerSweep,
      RowTypes, RecordType, RequestKinds, AssetType, ValidationType, PublisherType, ChallengeType,
      CleanerType, Digests, OpenStatuses, ApprovedStatuses, ClosedStatuses
<1>6. PublisherKnowsApproval'
  BY IdsAssumption, KeysAssumption, <1>1 DEF ReviewInv, PublisherKnowsApproval, CleanerSweep,
      RowTypes, RecordType, RequestKinds, AssetType, ValidationType, PublisherType, ChallengeType,
      CleanerType, Digests, OpenStatuses, ApprovedStatuses, ClosedStatuses
<1>7. PublishedAsApproved'
  BY IdsAssumption, KeysAssumption, <1>1 DEF ReviewInv, PublishedAsApproved, CleanerSweep,
      RowTypes, RecordType, RequestKinds, AssetType, ValidationType, PublisherType, ChallengeType,
      CleanerType, Digests, OpenStatuses, ApprovedStatuses, ClosedStatuses
<1>8. PurgesClosedRecords'
  BY IdsAssumption, KeysAssumption, <1>1 DEF ReviewInv, PurgesClosedRecords, CleanerSweep,
      RowTypes, RecordType, RequestKinds, AssetType, ValidationType, PublisherType, ChallengeType,
      CleanerType, Digests, OpenStatuses, ApprovedStatuses, ClosedStatuses
<1> QED BY <1>1, <1>2, <1>3, <1>4, <1>5, <1>6, <1>7, <1>8 DEF ReviewInv

\* CleanerList preserves the invariant.
LEMMA CleanerListInv ==
    ASSUME ReviewInv, CleanerList
    PROVE  ReviewInv'
<1>1. RowTypes'
  <2>1. cleaner' \in CleanerType
    BY KeysAssumption DEF ReviewInv, RowTypes, CleanerList, CleanerType, Purgeable
  <2> QED BY <2>1 DEF ReviewInv, RowTypes, CleanerList, Purgeable
<1>2. PurgesClosedRecords'
  BY IdsAssumption, KeysAssumption, <1>1 DEF ReviewInv, PurgesClosedRecords, CleanerList,
      RowTypes, RecordType, RequestKinds, AssetType, ValidationType, PublisherType, ChallengeType,
      CleanerType, Digests, OpenStatuses, ApprovedStatuses, ClosedStatuses, Purgeable
<1>3. DigestsFollowStatus' /\ LeaseFollowsStatus' /\ ClaimFollowsStatus' /\
    NoPendingUnderReview' /\ PublisherKnowsApproval' /\ PublishedAsApproved'
  BY DEF ReviewInv, DigestsFollowStatus, LeaseFollowsStatus, ClaimFollowsStatus,
      NoPendingUnderReview, PublisherKnowsApproval, PublishedAsApproved, CleanerList, Purgeable
<1> QED BY <1>1, <1>2, <1>3 DEF ReviewInv

\* CleanerMark preserves the invariant.
LEMMA CleanerMarkInv ==
    ASSUME NEW u \in Uploads, ReviewInv, CleanerMark(u)
    PROVE  ReviewInv'
<1>1. RowTypes'
  <2>1. asset' \in [Uploads -> AssetType]
    BY KeysAssumption DEF ReviewInv, RowTypes, CleanerMark, AssetType
  <2>2. cleaner' \in CleanerType
    BY KeysAssumption DEF ReviewInv, RowTypes, CleanerMark, CleanerType
  <2> QED BY <2>1, <2>2 DEF ReviewInv, RowTypes, CleanerMark
<1>2. NoPendingUnderReview'
  <2>1. \A x \in Uploads : asset'[x].status = "pending" => asset[x].status = "pending"
    BY DEF ReviewInv, RowTypes, AssetType, CleanerMark
  <2> QED BY <2>1 DEF ReviewInv, NoPendingUnderReview, CleanerMark
<1>3. PurgesClosedRecords'
  BY IdsAssumption, KeysAssumption, <1>1 DEF ReviewInv, PurgesClosedRecords, CleanerMark,
      RowTypes, RecordType, RequestKinds, AssetType, ValidationType, PublisherType, ChallengeType,
      CleanerType, Digests, OpenStatuses, ApprovedStatuses, ClosedStatuses
<1>4. DigestsFollowStatus' /\ LeaseFollowsStatus' /\ ClaimFollowsStatus' /\
    PublisherKnowsApproval' /\ PublishedAsApproved'
  BY DEF ReviewInv, DigestsFollowStatus, LeaseFollowsStatus, ClaimFollowsStatus,
      PublisherKnowsApproval, PublishedAsApproved, CleanerMark
<1> QED BY <1>1, <1>2, <1>3, <1>4 DEF ReviewInv

\* CleanerDeleteObject preserves the invariant.
LEMMA CleanerDeleteObjectInv ==
    ASSUME ReviewInv, CleanerDeleteObject
    PROVE  ReviewInv'
<1>1. RowTypes'
  <2>1. object' \subseteq AssetKeys
    BY KeysAssumption DEF ReviewInv, RowTypes, CleanerDeleteObject
  <2>2. cleaner' \in CleanerType
    BY KeysAssumption DEF ReviewInv, RowTypes, CleanerDeleteObject, CleanerType
  <2> QED BY <2>1, <2>2 DEF ReviewInv, RowTypes, CleanerDeleteObject
<1>2. PurgesClosedRecords'
  BY IdsAssumption, KeysAssumption, <1>1 DEF ReviewInv, PurgesClosedRecords,
      CleanerDeleteObject, RowTypes, RecordType, RequestKinds, AssetType, ValidationType,
      PublisherType, ChallengeType, CleanerType, Digests, OpenStatuses, ApprovedStatuses,
      ClosedStatuses
<1>3. DigestsFollowStatus' /\ LeaseFollowsStatus' /\ ClaimFollowsStatus' /\
    NoPendingUnderReview' /\ PublisherKnowsApproval' /\ PublishedAsApproved'
  BY DEF ReviewInv, DigestsFollowStatus, LeaseFollowsStatus, ClaimFollowsStatus,
      NoPendingUnderReview, PublisherKnowsApproval, PublishedAsApproved, CleanerDeleteObject
<1> QED BY <1>1, <1>2, <1>3 DEF ReviewInv

\* CleanerDeleteRow preserves the invariant.
LEMMA CleanerDeleteRowInv ==
    ASSUME ReviewInv, CleanerDeleteRow
    PROVE  ReviewInv'
<1>1. RowTypes'
  <2>1. record' \in RecordType
    BY ZenonT(40), KeysAssumption DEF ReviewInv, RowTypes, CleanerDeleteRow, RecordType, RequestKinds, Digests,
        OpenStatuses, ApprovedStatuses, ClosedStatuses
  <2>2. asset' \in [Uploads -> AssetType]
    BY KeysAssumption DEF ReviewInv, RowTypes, CleanerDeleteRow, AssetType
  <2>3. cleaner' \in CleanerType
    BY KeysAssumption DEF ReviewInv, RowTypes, CleanerDeleteRow, CleanerType
  <2> QED BY <2>1, <2>2, <2>3 DEF ReviewInv, RowTypes, CleanerDeleteRow
<1>2. DigestsFollowStatus'
  BY IdsAssumption, KeysAssumption, <1>1 DEF ReviewInv, DigestsFollowStatus, CleanerDeleteRow,
      RowTypes, RecordType, RequestKinds, AssetType, ValidationType, PublisherType, ChallengeType,
      CleanerType, Digests, OpenStatuses, ApprovedStatuses, ClosedStatuses
<1>3. LeaseFollowsStatus'
  BY IdsAssumption, KeysAssumption, <1>1 DEF ReviewInv, LeaseFollowsStatus, CleanerDeleteRow,
      RowTypes, RecordType, RequestKinds, AssetType, ValidationType, PublisherType, ChallengeType,
      CleanerType, Digests, OpenStatuses, ApprovedStatuses, ClosedStatuses
<1>4. ClaimFollowsStatus'
  BY IdsAssumption, KeysAssumption, <1>1 DEF ReviewInv, ClaimFollowsStatus, CleanerDeleteRow,
      RowTypes, RecordType, RequestKinds, AssetType, ValidationType, PublisherType, ChallengeType,
      CleanerType, Digests, OpenStatuses, ApprovedStatuses, ClosedStatuses
<1>5. NoPendingUnderReview'
  BY IdsAssumption, KeysAssumption, <1>1 DEF ReviewInv, NoPendingUnderReview, CleanerDeleteRow,
      RowTypes, RecordType, RequestKinds, AssetType, ValidationType, PublisherType, ChallengeType,
      CleanerType, Digests, OpenStatuses, ApprovedStatuses, ClosedStatuses
<1>6. PublisherKnowsApproval'
  BY IdsAssumption, KeysAssumption, <1>1 DEF ReviewInv, PublisherKnowsApproval,
      CleanerDeleteRow, RowTypes, RecordType, RequestKinds, AssetType, ValidationType, PublisherType,
      ChallengeType, CleanerType, Digests, OpenStatuses, ApprovedStatuses, ClosedStatuses
<1>7. PublishedAsApproved'
  BY IdsAssumption, KeysAssumption, <1>1 DEF ReviewInv, PublishedAsApproved, CleanerDeleteRow,
      RowTypes, RecordType, RequestKinds, AssetType, ValidationType, PublisherType, ChallengeType,
      CleanerType, Digests, OpenStatuses, ApprovedStatuses, ClosedStatuses
<1>8. PurgesClosedRecords'
  BY IdsAssumption, KeysAssumption, <1>1 DEF ReviewInv, PurgesClosedRecords, CleanerDeleteRow,
      RowTypes, RecordType, RequestKinds, AssetType, ValidationType, PublisherType, ChallengeType,
      CleanerType, Digests, OpenStatuses, ApprovedStatuses, ClosedStatuses
<1> QED BY <1>1, <1>2, <1>3, <1>4, <1>5, <1>6, <1>7, <1>8 DEF ReviewInv

\* CleanerEnds preserves the invariant.
LEMMA CleanerEndsInv ==
    ASSUME ReviewInv, CleanerEnds
    PROVE  ReviewInv'
<1>1. RowTypes'
  <2>1. cleaner' \in CleanerType
    BY KeysAssumption DEF ReviewInv, RowTypes, CleanerEnds, CleanerType, IdleCleaner
  <2> QED BY <2>1 DEF ReviewInv, RowTypes, CleanerEnds, IdleCleaner
<1>2. PurgesClosedRecords'
  BY IdsAssumption, KeysAssumption, <1>1 DEF ReviewInv, PurgesClosedRecords, CleanerEnds,
      RowTypes, RecordType, RequestKinds, AssetType, ValidationType, PublisherType, ChallengeType,
      CleanerType, Digests, OpenStatuses, ApprovedStatuses, ClosedStatuses, IdleCleaner
<1>3. DigestsFollowStatus' /\ LeaseFollowsStatus' /\ ClaimFollowsStatus' /\
    NoPendingUnderReview' /\ PublisherKnowsApproval' /\ PublishedAsApproved'
  BY DEF ReviewInv, DigestsFollowStatus, LeaseFollowsStatus, ClaimFollowsStatus,
      NoPendingUnderReview, PublisherKnowsApproval, PublishedAsApproved, CleanerEnds,
      IdleCleaner
<1> QED BY <1>1, <1>2, <1>3 DEF ReviewInv

\* RecordAges preserves the invariant.
LEMMA RecordAgesInv ==
    ASSUME ReviewInv, RecordAges
    PROVE  ReviewInv'
<1>1. RowTypes'
  <2>1. record' \in RecordType
    BY KeysAssumption DEF ReviewInv, RowTypes, RecordAges, RecordType, RequestKinds, Digests,
        OpenStatuses, ApprovedStatuses, ClosedStatuses
  <2> QED BY <2>1 DEF ReviewInv, RowTypes, RecordAges
<1>2. DigestsFollowStatus'
  BY IdsAssumption, KeysAssumption, <1>1 DEF ReviewInv, DigestsFollowStatus, RecordAges, RowTypes,
      RecordType, RequestKinds, AssetType, ValidationType, PublisherType, ChallengeType,
      CleanerType, Digests, OpenStatuses, ApprovedStatuses, ClosedStatuses
<1>3. LeaseFollowsStatus'
  BY IdsAssumption, KeysAssumption, <1>1 DEF ReviewInv, LeaseFollowsStatus, RecordAges, RowTypes,
      RecordType, RequestKinds, AssetType, ValidationType, PublisherType, ChallengeType,
      CleanerType, Digests, OpenStatuses, ApprovedStatuses, ClosedStatuses
<1>4. ClaimFollowsStatus'
  BY IdsAssumption, KeysAssumption, <1>1 DEF ReviewInv, ClaimFollowsStatus, RecordAges, RowTypes,
      RecordType, RequestKinds, AssetType, ValidationType, PublisherType, ChallengeType,
      CleanerType, Digests, OpenStatuses, ApprovedStatuses, ClosedStatuses
<1>5. NoPendingUnderReview'
  BY IdsAssumption, KeysAssumption, <1>1 DEF ReviewInv, NoPendingUnderReview, RecordAges,
      RowTypes, RecordType, RequestKinds, AssetType, ValidationType, PublisherType, ChallengeType,
      CleanerType, Digests, OpenStatuses, ApprovedStatuses, ClosedStatuses
<1>6. PublisherKnowsApproval'
  BY IdsAssumption, KeysAssumption, <1>1 DEF ReviewInv, PublisherKnowsApproval, RecordAges,
      RowTypes, RecordType, RequestKinds, AssetType, ValidationType, PublisherType, ChallengeType,
      CleanerType, Digests, OpenStatuses, ApprovedStatuses, ClosedStatuses
<1>7. PublishedAsApproved'
  BY IdsAssumption, KeysAssumption, <1>1 DEF ReviewInv, PublishedAsApproved, RecordAges, RowTypes,
      RecordType, RequestKinds, AssetType, ValidationType, PublisherType, ChallengeType,
      CleanerType, Digests, OpenStatuses, ApprovedStatuses, ClosedStatuses
<1>8. PurgesClosedRecords'
  BY IdsAssumption, KeysAssumption, <1>1 DEF ReviewInv, PurgesClosedRecords, RecordAges, RowTypes,
      RecordType, RequestKinds, AssetType, ValidationType, PublisherType, ChallengeType,
      CleanerType, Digests, OpenStatuses, ApprovedStatuses, ClosedStatuses
<1> QED BY <1>1, <1>2, <1>3, <1>4, <1>5, <1>6, <1>7, <1>8 DEF ReviewInv

\* The initial state satisfies the invariant.
LEMMA ReviewInit == Init => ReviewInv
<1> SUFFICES ASSUME Init PROVE ReviewInv
  OBVIOUS
<1>1. RowTypes
  BY DEF Init, IdleCleaner, RowTypes, RecordType, RequestKinds, AssetType, UploadPc, ValidationType,
      PublisherType, ChallengeType, CleanerType, Digests, OpenStatuses
<1>2. /\ DigestsFollowStatus /\ LeaseFollowsStatus /\ ClaimFollowsStatus
      /\ NoPendingUnderReview /\ PublishedAsApproved /\ PurgesClosedRecords
  BY DEF Init, IdleCleaner, DigestsFollowStatus, LeaseFollowsStatus, ClaimFollowsStatus,
      NoPendingUnderReview, PublishedAsApproved, PurgesClosedRecords, OpenStatuses, ApprovedStatuses
<1>3. PublisherKnowsApproval
  BY DEF Init, PublisherKnowsApproval
<1> QED BY <1>1, <1>2, <1>3 DEF ReviewInv

\* A step that changes nothing preserves the invariant.
LEMMA ReviewStutter ==
    ASSUME ReviewInv, UNCHANGED vars
    PROVE  ReviewInv'
BY FrameInv DEF ReviewInv, RowTypes, vars

\* Every step preserves the invariant.
LEMMA ReviewNext ==
    ASSUME ReviewInv, [Next]_vars
    PROVE  ReviewInv'
<1>1. CASE \E u \in Uploads : UploadStep(u)
  BY <1>1, UploadReserveInv, UploadProbeInv, UploadCheckReferenceInv, UploadRemoveOrphanInv,
     UploadPromoteInv, UploadErrsInv, UploadActivateInv, UploadActivateFailsInv,
     UploadActivateReplyLostInv, UploadFailRowInv, UploadUndoObjectInv, UploadStopsInv
  DEF UploadStep
<1>2. CASE \E u \in Uploads : PendingExpires(u)
  BY <1>2, PendingExpiresInv
<1>3. CASE \E v \in Validations : ValidateStep(v) \/ LeaseExpires(v)
  BY <1>3, ValidateReadInv, ValidateBeginInv, ValidateAssembleInv, ValidateFinishInv,
     ValidateStopsInv, LeaseExpiresInv
  DEF ValidateStep
<1>4. CASE \E c \in Claims : PublishStep(c)
  BY <1>4, PublishClaimInv, PublishReadInv, PublishCheckInv, PublishStoreInv, PublishErrsInv,
     PublishCommitInv, PublishCommitFailsInv, PublishReplyLostInv, PublishDropInv, PublishFailInv,
     PublishStopsInv
  DEF PublishStep
<1>5. CASE Approve \/ Reject \/ Abandon
  BY <1>5, ApproveInv, RejectInv, AbandonInv
<1>6. CASE CleanerStep
  BY <1>6, CleanerSweepInv, CleanerListInv, CleanerMarkInv, CleanerDeleteObjectInv,
     CleanerDeleteRowInv, CleanerEndsInv
  DEF CleanerStep
<1>7. CASE RecordAges
  BY <1>7, RecordAgesInv
<1>8. CASE UNCHANGED vars
  BY <1>8, ReviewStutter
<1> QED BY <1>1, <1>2, <1>3, <1>4, <1>5, <1>6, <1>7, <1>8 DEF Next, Step

-----------------------------------------------------------------------------
\* ReviewInv holds in every reachable state of the review of a record, whatever
\* the handlers of its uploads, validations, publications and clean-ups do.
THEOREM ReviewInvariance == Spec => []ReviewInv
BY ReviewInit, ReviewNext, PTL DEF Spec

\* Every row and every handler keeps its type, and the history names keys,
\* uploads and claims only.
THEOREM ReviewTypeCorrectness == Spec => []TypeOK
<1> DEFINE HistoryTypes == contested \subseteq AssetKeys /\ unheard \subseteq Uploads \cup Claims
<1>1. Init => HistoryTypes
  BY DEF Init
<1>2. HistoryTypes /\ [Next]_vars => HistoryTypes'
  <2>1. Contested' \subseteq AssetKeys /\ Unheard' \subseteq Uploads \cup Claims
    BY KeysAssumption DEF Contested, Unheard
  <2> QED
    BY <2>1 DEF Next, vars
<1>3. ReviewInv => RowTypes
  BY DEF ReviewInv
<1>4. RowTypes /\ HistoryTypes => TypeOK
  BY DEF TypeOK
<1> QED BY <1>1, <1>2, <1>3, <1>4, ReviewInvariance, PTL DEF Spec

\* No upload is pending on a record under validation, validated or approved.
THEOREM NoPendingSafety == Spec => []NoPendingUnderReview
<1>1. ReviewInv => NoPendingUnderReview
  BY DEF ReviewInv
<1> QED BY <1>1, ReviewInvariance, PTL

\* A challenge is published with the content the reviewers approved.
THEOREM PublicationApproved == Spec => []PublishedAsApproved
<1>1. ReviewInv => PublishedAsApproved
  BY DEF ReviewInv
<1> QED BY <1>1, ReviewInvariance, PTL

\* One step leaves the active assets of an approved record alone: rows are
\* reserved and activated on open records only, none is pending to be failed,
\* and the clean-up works on records that were given up.
LEMMA FrozenStep ==
    ASSUME ReviewInv, [Next]_vars,
           record.status \in ApprovedStatuses
    PROVE  ActiveAssets' = ActiveAssets
<1> SUFFICES \A u \in Uploads : (asset'[u].status = "active") <=> (asset[u].status = "active")
  BY DEF ActiveAssets
<1>1. /\ record.status \notin OpenStatuses /\ record.status \notin ClosedStatuses
      /\ \A u \in Uploads : asset[u].status # "pending"
      /\ cleaner.list = {} /\ cleaner.pc \notin {"marked", "removed"}
  BY DEF ReviewInv, NoPendingUnderReview, PurgesClosedRecords, OpenStatuses, ApprovedStatuses,
      ClosedStatuses
<1>2. CASE \E u \in Uploads : UploadStep(u) \/ PendingExpires(u)
  BY <1>1, <1>2 DEF UploadStep, UploadReserve, UploadProbe, UploadCheckReference,
      UploadRemoveOrphan, UploadPromote, UploadErrs, UploadActivate, UploadActivateFails,
      UploadActivateReplyLost, ActivateAsset, UploadFailRow, UploadUndoObject, UploadStops,
      PendingExpires
<1>3. CASE \E v \in Validations : ValidateStep(v) \/ LeaseExpires(v)
  BY <1>3 DEF ValidateStep, ValidateRead, ValidateBegin, ValidateAssemble, ValidateFinish,
      ValidateStops, LeaseExpires
<1>4. CASE \E c \in Claims : PublishStep(c)
  BY <1>4 DEF PublishStep, PublishClaim, PublishRead, PublishCheck, PublishStore, PublishErrs,
      PublishCommit, PublishCommitFails, PublishReplyLost, PublishDrop, PublishFail, PublishStops
<1>5. CASE Approve \/ Reject \/ Abandon \/ RecordAges \/ UNCHANGED vars
  BY <1>5 DEF Approve, Reject, Abandon, RecordAges, vars
<1>6. CASE CleanerStep
  BY <1>1, <1>6 DEF CleanerStep, CleanerSweep, CleanerList, CleanerMark, CleanerDeleteObject,
      CleanerDeleteRow, CleanerEnds
<1> QED BY <1>2, <1>3, <1>4, <1>5, <1>6 DEF Next, Step

\* The private assets of an approved or published record are never changed, by
\* a late upload or by the purge.
THEOREM AssetsFrozen == Spec => ApprovedAssetsFrozen
<1>1. ReviewInv /\ [Next]_vars =>
          [record.status \in ApprovedStatuses /\ record'.status \in ApprovedStatuses =>
              ActiveAssets' = ActiveAssets]_vars
  BY FrozenStep
<1> QED BY <1>1, ReviewInvariance, PTL DEF Spec, ApprovedAssetsFrozen

-----------------------------------------------------------------------------
(* The quota.                                                                 *)

\* The rows that hold bytes of the record, the stale pending ones included.
HeldAssets == {u \in Uploads : asset[u].status \in {"pending", "active"}}

HeldWithinQuota == IsFiniteSet(HeldAssets) /\ Cardinality(HeldAssets) <= AssetQuota

LEMMA SmallerHeld ==
    ASSUME HeldWithinQuota, HeldAssets' \subseteq HeldAssets
    PROVE  HeldWithinQuota'
<1>1. /\ IsFiniteSet(HeldAssets') /\ Cardinality(HeldAssets') <= Cardinality(HeldAssets)
  BY FS_Subset DEF HeldWithinQuota
<1>2. Cardinality(HeldAssets) \in Nat /\ Cardinality(HeldAssets') \in Nat
  BY <1>1, FS_CardinalityType DEF HeldWithinQuota
<1>3. AssetQuota' = AssetQuota /\ Cardinality(HeldAssets) <= AssetQuota
  BY DEF HeldWithinQuota
<1>4. Cardinality(HeldAssets') <= AssetQuota
  BY <1>1, <1>2, <1>3, QuotaAssumption
<1> QED
  BY <1>1, <1>4 DEF HeldWithinQuota

\* A reservation counts what it keeps and fails what it does not count.
LEMMA ReserveHeld ==
    ASSUME RowTypes, HeldWithinQuota, NEW u \in Uploads, UploadReserve(u)
    PROVE  HeldWithinQuota'
<1>1. /\ Cardinality(KeptAssets) < AssetQuota
      /\ KeptAssets \subseteq HeldAssets
  BY DEF UploadReserve, QuotaLeft, KeptAssets, HeldAssets
<1>2. HeldAssets' \subseteq KeptAssets \cup {u}
  <2> SUFFICES ASSUME NEW x \in Uploads, x # u, asset'[x].status \in {"pending", "active"}
               PROVE  asset[x].status = "active" \/ (asset[x].status = "pending" /\ asset[x].fresh)
    BY DEF HeldAssets, KeptAssets
  <2>1. CASE asset[x].status = "pending" /\ ~asset[x].fresh
    BY <2>1 DEF UploadReserve, RowTypes, AssetType
  <2>2. CASE ~(asset[x].status = "pending" /\ ~asset[x].fresh)
    BY <2>2 DEF UploadReserve, RowTypes, AssetType
  <2> QED
    BY <2>1, <2>2
<1>3. IsFiniteSet(KeptAssets) /\ Cardinality(KeptAssets) \in Nat
  BY <1>1, FS_Subset, FS_CardinalityType DEF HeldWithinQuota
<1>4. /\ IsFiniteSet(KeptAssets \cup {u})
      /\ Cardinality(KeptAssets \cup {u}) \in {Cardinality(KeptAssets), Cardinality(KeptAssets) + 1}
  BY <1>3, FS_AddElement
<1>5. IsFiniteSet(HeldAssets') /\ Cardinality(HeldAssets') <= Cardinality(KeptAssets \cup {u})
  BY <1>2, <1>4, FS_Subset
<1>6. Cardinality(HeldAssets') \in Nat
  BY <1>5, FS_CardinalityType
<1>7. Cardinality(HeldAssets') <= AssetQuota
  BY <1>1, <1>3, <1>4, <1>5, <1>6, QuotaAssumption
<1> QED
  BY <1>5, <1>7 DEF HeldWithinQuota

LEMMA HeldStep ==
    ASSUME RowTypes, HeldWithinQuota, [Next]_vars
    PROVE  HeldWithinQuota'
<1>1. CASE \E u \in Uploads : UploadReserve(u)
  BY <1>1, ReserveHeld
<1>2. CASE UNCHANGED asset
  BY <1>2, SmallerHeld DEF HeldAssets
<1>3. CASE \E u \in Uploads :
              /\ asset[u].status \in {"pending", "active"} \/ asset'[u].status \notin {"pending", "active"}
              /\ \A x \in Uploads : x # u => asset'[x] = asset[x]
  BY <1>3, SmallerHeld DEF HeldAssets
<1>4. ASSUME NEW u \in Uploads, UploadStep(u) \/ PendingExpires(u)
      PROVE  \/ UploadReserve(u)
             \/ UNCHANGED asset
             \/ /\ asset[u].status \in {"pending", "active"} \/ asset'[u].status \notin {"pending", "active"}
                /\ \A x \in Uploads : x # u => asset'[x] = asset[x]
  BY <1>4 DEF UploadStep, UploadProbe, UploadCheckReference, UploadRemoveOrphan, UploadPromote, UploadErrs,
      UploadActivate, UploadActivateFails, UploadActivateReplyLost, ActivateAsset, UploadFailRow,
      UploadUndoObject, UploadStops, PendingExpires, RowTypes
<1>5. CASE CleanerStep
  <2>1. CASE \E u \in Uploads : CleanerMark(u)
    <3>1. PICK u \in Uploads : CleanerMark(u)
      BY <2>1
    <3>2. asset' = asset \/ (asset'[u].status = "purging" /\ \A x \in Uploads : x # u => asset'[x] = asset[x])
      BY <3>1 DEF CleanerMark, RowTypes, AssetType
    <3> QED
      BY <1>2, <1>3, <3>2
  <2>2. CASE CleanerDeleteRow
    <3>1. \A x \in Uploads : asset'[x] = asset[x] \/ asset'[x].status = "deleted"
      BY <2>2 DEF CleanerDeleteRow, RowTypes, AssetType
    <3>2. HeldAssets' \subseteq HeldAssets
      BY <3>1 DEF HeldAssets
    <3> QED
      BY <3>2, SmallerHeld
  <2>3. CASE CleanerSweep \/ CleanerList \/ CleanerDeleteObject \/ CleanerEnds
    BY <1>2, <2>3 DEF CleanerSweep, CleanerList, CleanerDeleteObject, CleanerEnds
  <2> QED
    BY <1>5, <2>1, <2>2, <2>3 DEF CleanerStep
<1>6. CASE \/ \E v \in Validations : ValidateStep(v) \/ LeaseExpires(v)
           \/ \E c \in Claims : PublishStep(c)
           \/ Approve \/ Reject \/ Abandon \/ RecordAges \/ UNCHANGED vars
  <2>1. UNCHANGED asset
    BY <1>6 DEF ValidateStep, ValidateRead, ValidateBegin, ValidateAssemble, ValidateFinish, ValidateStops,
        LeaseExpires, PublishStep, PublishClaim, PublishRead, PublishCheck, PublishStore, PublishErrs,
        PublishCommit, PublishCommitFails, PublishReplyLost, PublishDrop, PublishFail, PublishStops,
        Approve, Reject, Abandon, RecordAges, vars
  <2> QED
    BY <1>2, <2>1
<1> QED
  BY <1>1, <1>2, <1>3, <1>4, <1>5, <1>6 DEF Next, Step

\* The assets of a record never exceed its quota, the uploads in flight counted:
\* a reservation counts the pending rows that may still be activated, and takes
\* the others out of the way of their late handlers in the same transaction.
THEOREM AssetQuotaSafety == Spec => []WithinAssetQuota
<1>1. Init => HeldWithinQuota
  <2> SUFFICES ASSUME Init PROVE HeldWithinQuota
    OBVIOUS
  <2>1. HeldAssets = {}
    BY DEF Init, HeldAssets
  <2> QED
    BY <2>1, FS_EmptySet, QuotaAssumption DEF HeldWithinQuota
<1>2. RowTypes /\ HeldWithinQuota /\ [Next]_vars => HeldWithinQuota'
  BY HeldStep
<1>3. HeldWithinQuota => WithinAssetQuota
  BY DEF HeldWithinQuota, HeldAssets, WithinAssetQuota
<1>4. ReviewInv => RowTypes
  BY DEF ReviewInv
<1> QED BY <1>1, <1>2, <1>3, <1>4, ReviewInvariance, PTL DEF Spec

-----------------------------------------------------------------------------
(* The history.                                                               *)

\* The history has what is in flight now.
HistoryKept == Contested \subseteq contested /\ Unheard \subseteq unheard

\* The history only grows.
LEMMA HistoryGrows ==
    ASSUME [Next]_vars
    PROVE  contested \subseteq contested' /\ unheard \subseteq unheard'
BY DEF Next, vars

LEMMA HistoryInvariance == Spec => []HistoryKept
<1>1. Init => HistoryKept
  BY IdsAssumption DEF Init, HistoryKept, Contested, Unheard, InFlight
<1>2. HistoryKept /\ [Next]_vars => HistoryKept'
  <2> SUFFICES ASSUME HistoryKept, [Next]_vars PROVE HistoryKept'
    OBVIOUS
  <2>1. CASE Next
    BY <2>1 DEF Next, HistoryKept
  <2>2. CASE UNCHANGED vars
    BY <2>2 DEF vars, HistoryKept, Contested, Unheard, InFlight
  <2> QED BY <2>1, <2>2
<1> QED BY <1>1, <1>2, PTL DEF Spec

-----------------------------------------------------------------------------
(* The published bundle.                                                      *)

\* The bundle a claim stored is what it assembled, and the handler whose claim
\* was published is through, or did not hear of it: nothing else that could
\* remove the bundle is to come.
BundlesHold ==
    /\ \A c \in Claims : publisher[c].pc = "stored" => bundle[c] = publisher[c].seen
    /\ challenge.bundle \notin unheard \cup {NoId} =>
          /\ publisher[challenge.bundle].pc = "done"
          /\ bundle[challenge.bundle] = publisher[challenge.bundle].seen

\* The steps of a publish attempt but the commit.
LEMMA AttemptKeepsBundles ==
    ASSUME ReviewInv, BundlesHold, unheard \subseteq unheard', NEW c \in Claims,
           \/ PublishClaim(c) \/ PublishRead(c) \/ PublishCheck(c) \/ PublishStore(c) \/ PublishErrs(c)
           \/ PublishCommitFails(c) \/ PublishDrop(c) \/ PublishFail(c) \/ PublishStops(c)
    PROVE  BundlesHold'
<1>0. /\ publisher \in [Claims -> PublisherType] /\ bundle \in [Claims -> Digests]
      /\ challenge.bundle \in Claims \cup {NoId}
  BY DEF ReviewInv, RowTypes, ChallengeType
<1>1. /\ challenge' = challenge
      /\ \A d \in Claims : d # c => publisher'[d] = publisher[d] /\ bundle'[d] = bundle[d]
  BY <1>0 DEF PublishClaim, PublishRead, PublishCheck, PublishStore, PublishErrs, PublishCommitFails, PublishDrop,
      PublishFail, PublishStops
<1>2. publisher[c].pc = "done" => publisher'[c] = publisher[c] /\ bundle'[c] = bundle[c]
  BY DEF PublishClaim, PublishRead, PublishCheck, PublishStore, PublishErrs, PublishCommitFails, PublishDrop,
      PublishFail, PublishStops
<1>3. publisher'[c].pc = "stored" => bundle'[c] = publisher'[c].seen
  <2>1. CASE PublishStore(c)
    BY <1>0, <2>1 DEF PublishStore, PublisherType
  <2>2. CASE ~PublishStore(c)
    <3>1. publisher'[c].pc # "stored"
      BY <1>0, <2>2 DEF PublishClaim, PublishRead, PublishCheck, PublishErrs, PublishCommitFails,
          PublishDrop, PublishFail, PublishStops, PublisherType
    <3> QED
      BY <3>1
  <2> QED
    BY <2>1, <2>2
<1> QED
  BY <1>0, <1>1, <1>2, <1>3, IdsAssumption DEF BundlesHold

LEMMA CommitKeepsBundles ==
    ASSUME ReviewInv, BundlesHold, unheard \subseteq unheard', NEW c \in Claims, PublishCommit(c)
    PROVE  BundlesHold'
<1>0. /\ publisher \in [Claims -> PublisherType] /\ bundle' = bundle
      /\ challenge \in ChallengeType
  BY DEF ReviewInv, RowTypes, PublishCommit
<1>1. /\ publisher'[c].pc = "done" /\ publisher'[c].seen = publisher[c].seen
      /\ \A d \in Claims : d # c => publisher'[d] = publisher[d]
  BY <1>0 DEF PublishCommit, PublisherType
<1>2. \/ challenge'.bundle = c /\ publisher[c].pc = "stored"
      \/ challenge'.bundle = challenge.bundle
  BY <1>0 DEF PublishCommit, PublishNew, PublishArchive, ChallengeType
<1>3. challenge.bundle = c => c \in unheard
  BY IdsAssumption DEF BundlesHold, PublishCommit, PublishNew, PublishArchive
<1>4. challenge.bundle \in Claims \cup {NoId}
  BY <1>0 DEF ChallengeType
<1> QED
  BY <1>0, <1>1, <1>2, <1>3, <1>4, IdsAssumption DEF BundlesHold

\* An attempt that does not hear of its commit is in the history.
LEMMA ReplyLostKeepsBundles ==
    ASSUME ReviewInv, BundlesHold, HistoryKept', unheard \subseteq unheard',
           NEW c \in Claims, PublishReplyLost(c)
    PROVE  BundlesHold'
<1>0. /\ publisher \in [Claims -> PublisherType] /\ bundle' = bundle
      /\ challenge \in ChallengeType
  BY DEF ReviewInv, RowTypes, PublishReplyLost
<1>1. /\ publisher'[c].pc \in {"dropping", "failing"}
      /\ \A d \in Claims : d # c => publisher'[d] = publisher[d]
  BY <1>0 DEF PublishReplyLost, PublisherType
<1>2. challenge'.bundle = c \/ challenge'.bundle = challenge.bundle
  BY <1>0 DEF PublishReplyLost, PublishNew, PublishArchive, ChallengeType
<1>3. challenge'.bundle = c => c \in unheard'
  BY <1>1 DEF HistoryKept, Unheard
<1>4. challenge.bundle \in Claims \cup {NoId}
  BY <1>0 DEF ChallengeType
<1> QED
  BY <1>0, <1>1, <1>2, <1>3, <1>4, IdsAssumption DEF BundlesHold

LEMMA BundlesStep ==
    ASSUME ReviewInv, HistoryKept', BundlesHold, [Next]_vars
    PROVE  BundlesHold'
<1>0. unheard \subseteq unheard'
  BY HistoryGrows
<1>1. CASE \E c \in Claims : PublishStep(c)
  BY <1>0, <1>1, AttemptKeepsBundles, CommitKeepsBundles, ReplyLostKeepsBundles DEF PublishStep
<1>2. CASE ~\E c \in Claims : PublishStep(c)
  <2>1. UNCHANGED <<publisher, bundle, challenge>>
    BY <1>2 DEF Next, Step, UploadStep, UploadReserve, UploadProbe, UploadCheckReference,
        UploadRemoveOrphan, UploadPromote, UploadErrs, UploadActivate, UploadActivateFails,
        UploadActivateReplyLost, ActivateAsset, UploadFailRow, UploadUndoObject, UploadStops,
        PendingExpires, ValidateStep, ValidateRead, ValidateBegin, ValidateAssemble, ValidateFinish,
        ValidateStops, LeaseExpires, Approve, Reject, Abandon, RecordAges, vars, CleanerStep, CleanerSweep,
        CleanerList, CleanerMark, CleanerDeleteObject, CleanerDeleteRow, CleanerEnds
  <2> QED
    BY <1>0, <2>1 DEF BundlesHold
<1> QED
  BY <1>1, <1>2

\* The archives a published challenge points to are in storage and hold the
\* approved content: the keys carry the claim id, so no other attempt removes
\* them, and the attempt whose claim was committed removes nothing, unless it
\* did not hear of its commit.
THEOREM BundleSafety == Spec => []PublishedBundleExists
<1>1. Init => BundlesHold
  BY DEF Init, BundlesHold
<1>2. ReviewInv /\ HistoryKept' /\ BundlesHold /\ [Next]_vars => BundlesHold'
  BY BundlesStep
<1>3. ReviewInv /\ BundlesHold => PublishedBundleExists
  BY DEF ReviewInv, PublishedAsApproved, BundlesHold, PublishedBundleExists
<1> QED BY <1>1, <1>2, <1>3, ReviewInvariance, HistoryInvariance, PTL DEF Spec

-----------------------------------------------------------------------------
(* The objects of the active assets.                                          *)

\* The exceptions of ActiveAssetHasObject.
Excused(u) == KeyOf[u] \in contested \/ u \in unheard

\* No handler has the key of an active asset in hand, and an object that was
\* promoted stays until the record is given up.
ObjectHolds(u) ==
    ~Excused(u) =>
        /\ asset[u].status = "active" => \A x \in Uploads : KeyOf[x] = KeyOf[u] => ~InFlight(x)
        /\ record.status \notin ClosedStatuses /\ (asset[u].status = "active" \/ upload[u] = "promoted")
              => KeyOf[u] \in object

ObjectsHold == \A u \in Uploads : ObjectHolds(u)

\* A record that was given up stays given up.
LEMMA ClosedStaysClosed ==
    ASSUME ReviewInv, [Next]_vars, record.status \in ClosedStatuses
    PROVE  record'.status \in ClosedStatuses
<1>0. record \in RecordType
  BY DEF ReviewInv, RowTypes
<1>1. record.status \notin OpenStatuses /\ record.status \notin ApprovedStatuses
  BY DEF OpenStatuses, ApprovedStatuses, ClosedStatuses
<1>2. CASE \E u \in Uploads : UploadStep(u) \/ PendingExpires(u)
  BY <1>0, <1>1, <1>2 DEF UploadStep, UploadReserve, UploadProbe, UploadCheckReference,
      UploadRemoveOrphan, UploadPromote, UploadErrs, UploadActivate, UploadActivateFails,
      UploadActivateReplyLost, ActivateAsset, UploadFailRow, UploadUndoObject, UploadStops,
      PendingExpires, RecordType
<1>3. CASE \E v \in Validations : ValidateStep(v) \/ LeaseExpires(v)
  BY <1>0, <1>1, <1>3 DEF ValidateStep, ValidateRead, ValidateBegin, ValidateAssemble, ValidateFinish,
      Decides, ValidateStops, LeaseExpires, RecordType
<1>4. CASE \E c \in Claims : PublishStep(c)
  BY <1>0, <1>1, <1>4 DEF PublishStep, PublishClaim, PublishRead, PublishCheck, PublishStore, PublishErrs,
      PublishCommit, PublishNew, PublishArchive, MarkPublished, PublishCommitFails, PublishReplyLost,
      PublishDrop, PublishFail, CanRelease, PublishStops, ApprovedStatuses, RecordType
<1>5. CASE Approve \/ Reject \/ Abandon \/ RecordAges \/ UNCHANGED vars
  BY <1>0, <1>1, <1>5 DEF Approve, Reject, Abandon, RecordAges, vars, RecordType, OpenStatuses, ClosedStatuses
<1>6. CASE CleanerStep
  BY <1>0, <1>6 DEF CleanerStep, CleanerSweep, CleanerList, CleanerMark, CleanerDeleteObject,
      CleanerDeleteRow, CleanerEnds, RecordType, OpenStatuses, ClosedStatuses
<1> QED BY <1>2, <1>3, <1>4, <1>5, <1>6 DEF Next, Step

\* The step of one upload and the asset of another: a handler that could remove
\* the object has the key in hand together with the other one, or meets its
\* active asset, which is what the reservation refuses.
LEMMA OtherUploadHolds ==
    ASSUME ReviewInv, HistoryKept, NEW u \in Uploads, NEW x \in Uploads, x # u, ObjectHolds(x),
           UploadStep(u), Excused(x) => Excused(x)',
           record.status \in ClosedStatuses => record'.status \in ClosedStatuses
    PROVE  ObjectHolds(x)'
<1> SUFFICES ASSUME ~Excused(x)' PROVE ObjectHolds(x)'
  BY DEF ObjectHolds
<1>0. /\ upload \in [Uploads -> UploadPc] /\ asset \in [Uploads -> AssetType]
      /\ ~Excused(x)
  BY DEF ReviewInv, RowTypes
<1>1. /\ \A y \in Uploads : y # u => upload'[y] = upload[y]
      /\ upload[u] = "none" => UploadReserve(u)
      /\ upload[u] # "done"
      /\ object \ {KeyOf[u]} \subseteq object'
      /\ KeyOf[u] \in object => KeyOf[u] \in object' \/ InFlight(u)
  BY <1>0 DEF UploadStep, UploadReserve, UploadProbe, UploadCheckReference,
      UploadRemoveOrphan, UploadPromote, UploadErrs, UploadActivate, UploadActivateFails,
      UploadActivateReplyLost, UploadFailRow, UploadUndoObject, UploadStops, InFlight
<1>2. asset'[x].status = "active" => asset[x].status = "active"
  BY <1>0 DEF UploadStep, UploadReserve, UploadProbe, UploadCheckReference,
      UploadRemoveOrphan, UploadPromote, UploadErrs, UploadActivate, UploadActivateFails,
      UploadActivateReplyLost, ActivateAsset, UploadFailRow, UploadUndoObject, UploadStops, AssetType
<1>3. KeyOf[u] = KeyOf[x] /\ asset[x].status = "active" => ~InFlight(u) /\ ~UploadReserve(u)
  BY <1>0 DEF ObjectHolds, UploadReserve, KeptAssets
<1>4. KeyOf[u] = KeyOf[x] /\ InFlight(x) => ~InFlight(u)
  BY <1>0 DEF HistoryKept, Contested, Excused
<1>5. KeyOf[x] \in object /\ (asset[x].status = "active" \/ upload[x] = "promoted") => KeyOf[x] \in object'
  BY <1>1, <1>3, <1>4 DEF InFlight
<1>6. asset[x].status = "active" => \A y \in Uploads : KeyOf[y] = KeyOf[x] => ~InFlight(y)'
  BY <1>0, <1>1, <1>3 DEF ObjectHolds, InFlight
<1> QED
  BY <1>0, <1>1, <1>2, <1>5, <1>6 DEF ObjectHolds

\* The step of an upload and its own asset.
LEMMA OwnUploadHolds ==
    ASSUME ReviewInv, HistoryKept, HistoryKept', NEW u \in Uploads, ObjectHolds(u), UploadStep(u),
           Excused(u) => Excused(u)',
           record.status \in ClosedStatuses => record'.status \in ClosedStatuses
    PROVE  ObjectHolds(u)'
<1> SUFFICES ASSUME ~Excused(u)' PROVE ObjectHolds(u)'
  BY DEF ObjectHolds
<1>0. /\ upload \in [Uploads -> UploadPc] /\ asset \in [Uploads -> AssetType]
      /\ ~Excused(u)
  BY DEF ReviewInv, RowTypes
<1>1. CASE UploadActivate(u)
  <2>1. /\ InFlight(u) /\ upload' = [upload EXCEPT ![u] = "done"] /\ object' = object
        /\ upload[u] = "promoted"
    BY <1>1 DEF UploadActivate, InFlight
  <2>2. \A x \in Uploads : x # u /\ KeyOf[x] = KeyOf[u] => ~InFlight(x)
    BY <1>0, <2>1 DEF HistoryKept, Contested, Excused
  <2>3. \A x \in Uploads : KeyOf[x] = KeyOf[u] => ~InFlight(x)'
    BY <1>0, <2>1, <2>2 DEF InFlight
  <2> QED
    BY <1>0, <2>1, <2>3 DEF ObjectHolds
<1>2. CASE UploadPromote(u)
  <2>1. InFlight(u)' \/ asset[u].status # "active"
    BY <1>0, <1>2 DEF UploadPromote, ObjectHolds, InFlight
  <2>2. asset' = asset /\ (upload'[u] = "promoted" => KeyOf[u] \in object')
    BY <1>0, <1>2 DEF UploadPromote
  <2>3. asset'[u].status # "active"
    BY <1>0, <1>2, <2>1, <2>2 DEF UploadPromote, HistoryKept, Unheard, Excused
  <2> QED
    BY <2>2, <2>3 DEF ObjectHolds
<1>3. CASE UploadReserve(u)
  BY <1>0, <1>3 DEF UploadReserve, ObjectHolds
<1>4. CASE \/ UploadProbe(u) \/ UploadCheckReference(u) \/ UploadRemoveOrphan(u) \/ UploadErrs(u)
           \/ UploadActivateFails(u) \/ UploadFailRow(u) \/ UploadUndoObject(u) \/ UploadStops(u)
  <2>1. InFlight(u) /\ upload'[u] # "promoted"
    BY <1>0, <1>4 DEF UploadProbe, UploadCheckReference, UploadRemoveOrphan, UploadErrs, UploadActivateFails,
        UploadFailRow, UploadUndoObject, UploadStops, InFlight
  <2>2. asset[u].status # "active"
    BY <1>0, <2>1 DEF HistoryKept, Unheard, Excused
  <2>3. asset'[u].status # "active"
    BY <1>0, <1>4, <2>2 DEF UploadProbe, UploadCheckReference, UploadRemoveOrphan, UploadErrs, UploadActivateFails,
        UploadFailRow, UploadUndoObject, UploadStops, AssetType
  <2> QED
    BY <2>1, <2>3 DEF ObjectHolds
<1>5. CASE UploadActivateReplyLost(u)
  <2>1. InFlight(u)' /\ asset'[u].status = "active"
    BY <1>0, <1>5 DEF UploadActivateReplyLost, ActivateAsset, InFlight, AssetType
  <2>2. u \in unheard'
    BY <2>1 DEF HistoryKept, Unheard
  <2> QED
    BY <2>2 DEF Excused
<1> QED
  BY <1>1, <1>2, <1>3, <1>4, <1>5 DEF UploadStep

LEMMA ObjectsStep ==
    ASSUME ReviewInv, HistoryKept, HistoryKept', ObjectsHold, [Next]_vars
    PROVE  ObjectsHold'
<1>0. /\ record.status \in ClosedStatuses => record'.status \in ClosedStatuses
      /\ \A u \in Uploads : Excused(u) => Excused(u)'
  BY ClosedStaysClosed, HistoryGrows DEF Excused
<1>1. CASE \E u \in Uploads : UploadStep(u)
  BY <1>0, <1>1, OtherUploadHolds, OwnUploadHolds DEF ObjectsHold
<1>2. ASSUME upload' = upload,
             \A u \in Uploads : asset'[u].status = "active" => asset[u].status = "active",
             object' = object \/ record'.status \in ClosedStatuses
      PROVE  ObjectsHold'
  BY <1>0, <1>2 DEF ObjectsHold, ObjectHolds, InFlight
<1>3. CASE \E u \in Uploads : PendingExpires(u)
  <2>1. \A u \in Uploads : asset'[u].status = asset[u].status
    BY <1>3 DEF PendingExpires, ReviewInv, RowTypes, AssetType
  <2> QED
    BY <1>2, <1>3, <2>1 DEF PendingExpires
<1>4. CASE CleanerStep
  <2>1. upload' = upload /\ (object' = object \/ CleanerDeleteObject)
    BY <1>4 DEF CleanerStep, CleanerSweep, CleanerList, CleanerMark, CleanerDeleteObject, CleanerDeleteRow,
        CleanerEnds
  <2>2. \A u \in Uploads : asset'[u].status = "active" => asset[u].status = "active"
    BY <1>4 DEF CleanerStep, CleanerSweep, CleanerList, CleanerMark, CleanerDeleteObject, CleanerDeleteRow,
        CleanerEnds, ReviewInv, RowTypes, AssetType
  <2>3. CleanerDeleteObject => record'.status \in ClosedStatuses
    BY <1>0 DEF CleanerDeleteObject, ReviewInv, PurgesClosedRecords
  <2> QED
    BY <1>2, <2>1, <2>2, <2>3
<1>5. CASE \/ \E v \in Validations : ValidateStep(v) \/ LeaseExpires(v)
           \/ \E c \in Claims : PublishStep(c)
           \/ Approve \/ Reject \/ Abandon \/ RecordAges \/ UNCHANGED vars
  <2>1. UNCHANGED <<asset, upload, object>>
    BY <1>5 DEF ValidateStep, ValidateRead, ValidateBegin, ValidateAssemble, ValidateFinish, ValidateStops,
        LeaseExpires, PublishStep, PublishClaim, PublishRead, PublishCheck, PublishStore, PublishErrs,
        PublishCommit, PublishCommitFails, PublishReplyLost, PublishDrop, PublishFail, PublishStops,
        Approve, Reject, Abandon, RecordAges, vars
  <2> QED
    BY <1>2, <2>1
<1> QED
  BY <1>1, <1>3, <1>4, <1>5 DEF Next, Step

\* The active assets of a record that was not given up have their objects in
\* storage: a row is activated after its promotion, a retry of the same bytes is
\* refused while the row is active, and the purge removes objects of closed
\* records only. The exceptions are those that ActiveAssetHasObject names: a key
\* that two handlers had in hand at once, and a handler that did not hear of its
\* activation.
THEOREM AssetObjectSafety == Spec => []ActiveAssetHasObject
<1>1. Init => ObjectsHold
  BY DEF Init, ObjectsHold, ObjectHolds
<1>2. ReviewInv /\ HistoryKept /\ HistoryKept' /\ ObjectsHold /\ [Next]_vars => ObjectsHold'
  BY ObjectsStep
<1>3. ObjectsHold => ActiveAssetHasObject
  BY DEF ObjectsHold, ObjectHolds, Excused, ActiveAssetHasObject
<1> QED BY <1>1, <1>2, <1>3, ReviewInvariance, HistoryInvariance, PTL DEF Spec

=============================================================================
