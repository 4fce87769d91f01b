SPECIFICATION Spec
CONSTANTS
    Components <- MCComponents
    Shape <- MCShape
    PatternOf <- MCPatterns
    I32 = 4
    I64 = 8
    Misdivided <- MCMisdivided
    Close <- MCClose
    DefaultBound = 2
    FormatBound = 3
    Int64Bound = 4
    LargestStep = 20
    DefaultLength = 2
    Words <- MCWords
    FormatText <- MCFormats
    Samples <- MCSamples
    Resembles <- MCResembles
    KeyOrder <- MCKeys
    Canonical <- MCCanonical
    RemoteRefs = {}
    WholeText <- MCWhole
    NumberText <- MCNumber
    Cases <- MCCases
    Makes <- Outcomes
    Inline <- MCInline
    Stack = 12
    Values <- MCValues
INVARIANTS GeneratedIsAccepted  VerdictIsTheMeaning TextsKeepTheirMeaning
CHECK_DEADLOCK FALSE
