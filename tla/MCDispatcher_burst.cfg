\* Three monitors, one of them a child of a parent, and a burst of two; nothing fails.
CONSTANTS
    Slugs = {m1, m2, m3}
    Children = {m3}
    GroupWait = 1
    GroupInterval = 1
    RepeatInterval = 3
    ResolveDebounce = 1
    MaxTime = 2
    PendingWait = 1
    BurstWindow = 2
    BurstThreshold = 2
    ReminderInterval = 0
    SlackFails = FALSE
    StoreFails = FALSE
    MaxCrashes = 0
    LastProbe = 1
SPECIFICATION Spec
SYMMETRY Symmetry
INVARIANTS ExclusiveOwner EveryDownAccounted ResolveEdited
