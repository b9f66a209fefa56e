\* Two children of one parent; probes stop at time 1 and everything under way finishes.
CONSTANTS
    Slugs = {m1, m2}
    Children = {m1, m2}
    GroupWait = 1
    GroupInterval = 1
    RepeatInterval = 3
    ResolveDebounce = 1
    MaxTime = 2
    PendingWait = 1
    BurstWindow = 2
    BurstThreshold = 2
    ReminderInterval = 0
    SlackFails = TRUE
    StoreFails = FALSE
    MaxCrashes = 0
    LastProbe = 1
SPECIFICATION FairSpec

PROPERTIES PoolDrains DigestCloses
