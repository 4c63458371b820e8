SPECIFICATION Spec
SYMMETRY RoomSymmetry
CONSTANTS
    Update = {"a"}
    Deps <- MCDeps
    Malformed = {}
    Session = {"s1", "sg"}
    Account = {"owner", "guest"}
    Owner = "owner"
    AccountOf <- MCAccountOf
    RoomId = {r1, r2}
    None = None
    CheckpointTailUpdates = 1
    MaxRetainedReceipts = 1
    SessionQueueCapacity = 1
    MaxSessionsPerRoom = 2
    LateCommit = TRUE
    MaxCursor = 2
    MaxMembershipVersion = 2
    Recreate = TRUE
    MaxDeletions = 1
    MaxPresence = 0
INVARIANT
    DeletedRoomIsClosed
PROPERTY
    OnlyWritersCommit
CHECK_DEADLOCK FALSE
