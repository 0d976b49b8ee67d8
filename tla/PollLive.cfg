SPECIFICATION FairSpec
CONSTANTS
    c1 = c1  c2 = c2  b1 = b1  b2 = b2  j1 = j1  j2 = j2
    None = None
    Cycles <- OneCycle
    Boards <- TwoBoards
    CachedBoards <- TwoBoards
    Jobs <- TwoJobs
    Home <- Split
    Malformed = {}
    SinkChoices = {TRUE}
    ScoreCap = 1
    MaxGen = 1
    MaxMishaps = 1
PROPERTY EveryMatchIsDecided
