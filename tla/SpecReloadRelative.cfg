SPECIFICATION Spec
CONSTANTS
    Content = {v1, v2, broken}
    Good = {v1, v2}
    NoFile = NoFile
    MaxEdits = 3
    MaxQueue = 2
INVARIANTS RemovalIsReported
CHECK_DEADLOCK FALSE
