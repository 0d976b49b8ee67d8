SPECIFICATION ServicesSpec
CONSTANTS
    q1 = q1  q2 = q2  c1 = c1  c2 = c2
    None = None
    Requests = {q1, q2}
    Begins <- OneInstall
    MaxRequests = 3
    Edited = {"boards"}
    MaxResumes = 2
    WizardMishaps = 1
    MaxRuns = 2
    MaxWrites = 2
    DraftMishaps = 1
    Cycles = {c1, c2}
    Rescues = {q1}
    Scores = {3}
    AuditMishaps = 2
    Locales = {"en-US"}
    Langs = {"es"}
    MaxScore = 3
    MinVerdicts = 2
    MaxListed = 2
    MaxMembers = 9
    MaxTotal = 20
    MaxUpload = 5
INVARIANT BoardsAreFounded
INVARIANT ListedIsPolled
INVARIANT FiltersHold
INVARIANT ResumeHolds
INVARIANT AnswersHold
INVARIANT BackupsHold
INVARIANT PagesAgree
PROPERTY RunsHold
PROPERTY WizardHolds
PROPERTY RescuesTake
CHECK_DEADLOCK FALSE
