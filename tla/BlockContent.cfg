CONSTANTS
    Size = 1
    MaxTyped = 1
    MaxForeign = 1
    MaxDeletes = 2
    MaxCloses = 1
    MaxFaults = 1
    MaxEvents = 2
    MaxLane = 2
    Absent = Absent
    Races = FALSE
SPECIFICATION Spec
CHECK_DEADLOCK FALSE
INVARIANTS
    
    OnlyDeletedIsGone
    NothingTwice
    QuietIsCurrent
PROPERTIES
    InputSettles
