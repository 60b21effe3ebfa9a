SPECIFICATION MCSpec
CONSTANTS
    u1 = u1
    u2 = u2
    u3 = u3
    v1 = v1
    v2 = v2
    c1 = c1
    c2 = c2
    NoId = NoId
    NoDigest = NoDigest
    Uploads = {u1, u2, u3}
    Validations = {v1, v2}
    Claims = {c1, c2}
    AssetKeys = {"key1", "key2"}
    Names = {"name1", "name2"}
    KeyOf <- RetriedKey
    NameOf <- OwnName
    AssetQuota = 1
SYMMETRY HandlerSymmetry
INVARIANTS WithinAssetQuota NoPendingUnderReview PublishedAsApproved PublishedBundleExists ActiveAssetHasObject
PROPERTIES ApprovedAssetsFrozen
CHECK_DEADLOCK FALSE
