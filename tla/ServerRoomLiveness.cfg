SPECIFICATION FairSpec
CONSTANTS
    Update = {"a", "x"}
    Deps <- MCDeps
    Malformed = {"x"}
    Session = {"s1", "sg"}
    Account = {"owner", "guest"}
    Owner = "owner"
    AccountOf <- MCAccountOf
    RoomId = {r1}
    None = None
    CheckpointTailUpdates = 1
    MaxRetainedReceipts = 1
    SessionQueueCapacity = 1
    MaxSessionsPerRoom = 2
    LateCommit = FALSE
    MaxCursor = 1
    MaxMembershipVersion = 3
    Recreate = FALSE
    MaxDeletions = 1
    MaxPresence = 0
PROPERTIES
    StaleSessionLeaves
    SubmissionsFinish
CHECK_DEADLOCK FALSE
