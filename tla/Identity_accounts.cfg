SPECIFICATION Spec
CONSTANTS
    h1 = h1
    h2 = h2
    c1 = c1
    r1 = r1
    r2 = r2
    NoId = NoId
    Humans = {h1, h2}
    IdOf <- IdsInOrder
    Agents = {"a1"}
    Codes = {c1}
    Requests = {r1, r2}
    BootstrapAdmins = {h1}
    MaxUses <- SingleUse
    MaxActiveAgents = 1
    PublicRegistration = FALSE
SYMMETRY RequestSymmetry
INVARIANTS PioneerCodeIsHonoured AdminRemains LockInversionsAreKnown
PROPERTIES DeletedStaysDeleted
CHECK_DEADLOCK FALSE
