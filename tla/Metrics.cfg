SPECIFICATION FairSpec
CONSTANTS
    Recorders = {t1, t2}
    Methods = {get}
    Routes = {pets}
    Errors = {format}
    Buckets = 2
    MaxErrors = 1
    None = None
INVARIANTS TypeOK CountersAreExact SeriesAreExact SumIsExact TearIsBounded
PROPERTIES AllRecorded
CHECK_DEADLOCK FALSE
