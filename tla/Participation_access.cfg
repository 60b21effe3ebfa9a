SPECIFICATION ParticipationSpec
CONSTANTS
    a1 = a1
    a2 = a2
    c1 = c1
    r1 = r1
    r2 = r2
    s1 = s1
    s2 = s2
    v1 = v1
    None = None
    Challenges = {c1}
    AgentIds = {a1, a2}
    Submissions = {s1, s2}
    CreateCalls = {r1, r2}
    Revisions = {v1}
    Deltas <- OneByOne
    Policies <- OnePolicy
    DailyLimit <- Daily
    MaxActiveOfficial = 1
    RedactAlways = FALSE
SYMMETRY Symmetry
INVARIANTS
    WithinSubmissionQuota
    AdmittedUnderPolicy
    DisclosureIsWarranted
PROPERTIES
    ArchivedAcceptsNothing
CHECK_DEADLOCK FALSE
