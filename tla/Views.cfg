SPECIFICATION ViewsSpec
CONSTANTS
    Tab = {t1, t2}
    Person = {"p"}
    MaxTokens = 2
    MaxActs = 5
    MaxFaults = 2
INVARIANTS
    SelectionLands
    TypedPlanLands
    SettledAnswerIsCurrent
    TagsLand
    AccountKept
CHECK_DEADLOCK FALSE
