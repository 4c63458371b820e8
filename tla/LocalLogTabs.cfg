SPECIFICATION Spec
SYMMETRY TabAndUpdateSymmetry
CONSTANTS
    Tab = {t1, t2}
    Local = {l1, l2}
    Foreign = {}
    None = None
    CompactTailUpdates = 1
    MaxSequence = 2
    MaxCorruptUpdates = 1
    MaxCorruptCheckpoints = 0
INVARIANTS
    HolderIsCurrent
PROPERTIES
    SequencesAreFresh
CHECK_DEADLOCK FALSE
