SPECIFICATION SourcesSpec
CONSTANTS
    p1 = p1  p2 = p2  p3 = p3  None = None
    Postings <- Three
    Kinds = {"conditional", "plain", "paged", "sitemap", "search", "metered"}
    Limit = 2
    PageSize = 1
    MaxPages = 3
    Overlap = 1
    FirstRun = 0
    MaxJobs = 1
    Queries <- TwoQueries
    Active <- LastIsPolled
    Budget = 3
    SeenCap = 2
    ScoreCap = 1
    MaxTime = 2
    MaxChanges = 3
    FetchMishaps = 1
    daemon = daemon  s1 = s1  s2 = s2  h1 = h1
    Locales = {"en-US"}
    Langs = {"es"}
    Runners <- OneRunner
    Seeds <- TwoSeeds
    Hosts <- OneHost
    Links <- TheirLinks
    MaxSweeps = 1
    Quarantine = 2
    MaxFlips = 1
    MaxMishaps = 2
PROPERTY SeedsGetTheirTurn
PROPERTY FetchesAccount
PROPERTY ListedIsDecided
