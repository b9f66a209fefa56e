\* A parent and a child, and a mishap of any kind.
CONSTANTS
    mParent = mParent
    mChild = mChild
    Monitors = {mParent, mChild}
    DependsOn <- MCDependsOn
    Critical = {mParent}
    TLSPlans <- MCNoTLS
    ReminderInterval = 1
    Faults = {"lookup", "statement", "slack", "plan", "crash"}
    Retries = 1
    MaxMishaps = 1
SPECIFICATION Spec
INVARIANTS EventsAlternate
