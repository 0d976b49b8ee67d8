SPECIFICATION Spec
CONSTANTS
    ats = ats  slow = slow  watchdog = watchdog Stopped = Stopped  Llm = Llm
    Tiers <- TwoTiers
    Every <- SameInterval
    Ats = ats
    Cooldown = 2
    K = 2
    Never = 5
    MaxFaults = 2
    MaxMishaps = 1
INVARIANT ClearedIsTold
