\* A parent and a child; statements and Slack calls fail and the process restarts.
CONSTANTS
    mParent = mParent
    mChild = mChild
    Monitors = {mParent, mChild}
    DependsOn <- MCDependsOn
    Critical = {mParent}
    TLSPlans <- MCNoTLS
    ReminderInterval = 1
    Faults = {"statement", "slack", "crash"}
    Retries = 0
    MaxMishaps = 1
SPECIFICATION Spec
PROPERTIES PauseFollowsParents DownIsTold
