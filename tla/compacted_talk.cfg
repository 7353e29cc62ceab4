SPECIFICATION Spec
CONSTANTS
    KeepRecent = 2
    Kinds <- Talk
    Budgets = {0, 1, 2, 3, 4, 5, 6}
    MaxMessages = 5
INVARIANTS
    InstructionsKept
    OrderKept
    LossAccounted
    FitsBudget
    YieldsToNewer
CHECK_DEADLOCK FALSE
