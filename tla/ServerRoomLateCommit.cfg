SPECIFICATION Spec
SYMMETRY RoomAndSessionSymmetry
CONSTANTS
    Update = {"a", "c"}
    Deps <- MCDeps
    Malformed = {}
    Session = {s1, s2}
    Account = {"owner"}
    Owner = "owner"
    AccountOf <- MCAccountOf
    RoomId = {r1, r2, r3}
    None = None
    CheckpointTailUpdates = 1
    MaxRetainedReceipts = 2
    SessionQueueCapacity = 2
    MaxSessionsPerRoom = 2
    LateCommit = TRUE
    MaxCursor = 3
    MaxMembershipVersion = 1
    Recreate = FALSE
    MaxDeletions = 0
    MaxPresence = 0
INVARIANT
    LearnedIsDurable
