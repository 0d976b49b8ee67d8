SPECIFICATION Spec
CONSTANTS
    p1 = p1  p2 = p2  p3 = p3  None = None
    Postings <- Three
    Kinds = {"metered"}
    Limit = 2
    PageSize = 1
    MaxPages = 3
    Overlap = 1
    FirstRun = 1
    MaxJobs = 1
    Queries <- TwoQueries
    Active <- LastIsPolled
    Budget = 3
    SeenCap = 2
    ScoreCap = 1
    MaxTime = 3
    MaxChanges = 3
    MaxMishaps = 1
PROPERTY DeferredComesBack
