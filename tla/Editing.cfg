SPECIFICATION Spec
INVARIANTS
    RowsKeepInput
    ChoicesAreWritten
    InputIsDrained
    TypedStays
    WordMotionsLand
PROPERTIES
    LandsInPlace
CHECK_DEADLOCK FALSE
