SPECIFICATION PartSpec
CONSTANTS
    c1 = c1  hourly = hourly  manual = manual
    Cards <- OneCard
    Statuses <- AllStatuses
    Mailers <- HourlyAndManual
    WithSweep = TRUE
    Inbox = 2
    Rejections <- Second
    Overlap = 1
    MaxMessages = 1
    KeepDismissed = 2
    MaxLag = 2
    MaxAge = 1
    MaxReleases = 1
    MaxFlips = 4
    MaxMishaps = 3
INVARIANT TwoStrikes
INVARIANT AnnouncedOnce
INVARIANT MailIsRead
PROPERTY DismissalsRemembered
PROPERTY GoneIsAnnounced
