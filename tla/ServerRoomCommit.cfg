SPECIFICATION Spec
SYMMETRY RoomAndSessionSymmetry
CONSTANTS
    Update = {"a", "b", "x"}
    Deps <- MCDeps
    Malformed = {"x"}
    Session = {s1, s2}
    Account = {"owner"}
    Owner = "owner"
    AccountOf <- MCAccountOf
    RoomId = {r1, r2}
    None = None
    CheckpointTailUpdates = 1
    MaxRetainedReceipts = 1
    SessionQueueCapacity = 1
    MaxSessionsPerRoom = 2
    LateCommit = FALSE
    MaxCursor = 3
    MaxMembershipVersion = 1
    Recreate = FALSE
    MaxDeletions = 0
    MaxPresence = 1
INVARIANTS
    TypeOK
    LearnedIsDurable
    FallbackComplete
    AlwaysReconstructs
    RoomMirrorsStore
    SingleLiveRoom
    BroadcastComplete
    OneCursorPerIdentity
