\* Slack calls and store calls fail, reminders are due, and the process crashes.
CONSTANTS
    Slugs = {m1, m2}
    Children = {}
    GroupWait = 1
    GroupInterval = 1
    RepeatInterval = 3
    ResolveDebounce = 1
    MaxTime = 2
    PendingWait = 1
    BurstWindow = 2
    BurstThreshold = 2
    ReminderInterval = 1
    SlackFails = TRUE
    StoreFails = TRUE
    MaxCrashes = 1
    LastProbe = 2
SPECIFICATION Spec
SYMMETRY Symmetry
INVARIANTS BurstCap
PROPERTIES PromotionWarranted
