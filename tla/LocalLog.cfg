SPECIFICATION Spec
SYMMETRY TabAndUpdateSymmetry
CONSTANTS
    Tab = {t1}
    Local = {l1, l2}
    Foreign = {f1}
    None = None
    CompactTailUpdates = 1
    MaxSequence = 3
    MaxCorruptUpdates = 0
    MaxCorruptCheckpoints = 2
INVARIANTS
    SavedIsRecoverable
    OutboxPinned
    UnsentIsQueued
    OneUpdatePerPosition
CHECK_DEADLOCK FALSE
