SPECIFICATION Spec
CONSTANTS
    Texts <- MCTexts
    EditedTo <- MCEdits
    Inputs <- MCInputs
    MaxBytes = 1
    MaxI64 = 8
    StackLimit = 14
    MaxFetches = 2
    FetchTime = 1
    MaxReads = 2
    LookupTime = 1
    WallTime = 1
    MaxEdits = 1
INVARIANTS TypeOK BoundsKeepTheirMeaning NothingOversized AgainTheSame AcceptedRefsResolve SameUrlSameBody BudgetsHold
PROPERTIES LoadEnds
CHECK_DEADLOCK FALSE
