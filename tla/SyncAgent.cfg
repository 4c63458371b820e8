CONSTANTS
    Local = {u1, u2}
    Foreign = {f1}
    Socket = {s1, s2}
    None = None
    MaxFaults = 1
SPECIFICATION Spec
CHECK_DEADLOCK FALSE
INVARIANTS
    NoGap
    SyncedIsTrue
PROPERTIES
    DeliversInOrder
    SavedIsDelivered
