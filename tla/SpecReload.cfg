SPECIFICATION FairSpec
CONSTANTS
    Content = {v1, v2, broken}
    Good = {v1, v2}
    NoFile = NoFile
    MaxEdits = 3
    MaxQueue = 2
INVARIANTS TypeOK QuiescentAgreement RemovalIsTruth
PROPERTIES Implements EditsAreAnswered
CHECK_DEADLOCK FALSE
