SPECIFICATION Spec
CONSTANTS
    c1 = c1  c2 = c2  b1 = b1  b2 = b2  j1 = j1  j2 = j2
    None = None
    Cycles <- TwoCycles
    Boards <- OneBoard
    CachedBoards <- OneBoard
    Jobs <- OneJob
    Home <- AllOnOne
    Malformed = {}
    SinkChoices = {TRUE, FALSE}
    ScoreCap = 1
    MaxGen = 2
    MaxMishaps = 1
INVARIANT FanoutIsExclusive
INVARIANT AlertedOnce
INVARIANT HintsHideNothing
PROPERTY KeepsLedger
