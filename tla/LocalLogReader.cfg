SPECIFICATION Spec
SYMMETRY TabAndUpdateSymmetry
CONSTANTS
    Tab = {t1, t2}
    Local = {l1, l2}
    Foreign = {f1}
    None = None
    CompactTailUpdates = 1
    MaxSequence = 3
    MaxCorruptUpdates = 0
    MaxCorruptCheckpoints = 0
INVARIANT
    SavedIsRecoverable
CHECK_DEADLOCK FALSE
