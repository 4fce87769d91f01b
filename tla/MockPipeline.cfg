SPECIFICATION FairSpec
CONSTANTS
    Captures <- MCCaptures
    Braced <- MCBraced
    TextRest <- MCTextRest
    Apis <- MCApis
    Configs <- MCConfigs
    Asks <- MCAsks
    Draws <- MCDraws
    None = None
INVARIANTS TypeOK RouteIsBest AllowIsUsable NoDeadEnds NotModifiedIsTrue TagsRepeat
PROPERTIES SessionSettles
CHECK_DEADLOCK FALSE
