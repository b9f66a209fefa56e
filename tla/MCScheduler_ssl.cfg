\* A monitor whose plans bear TLS or not, and two mishaps of any kind but a lookup.
CONSTANTS
    mParent = mParent
    mChild = mChild
    Monitors = {mParent}
    DependsOn <- MCDependsOn
    Critical = {mParent}
    TLSPlans <- MCAnyTLS
    ReminderInterval = 1
    Faults = {"statement", "slack", "plan", "crash"}
    Retries = 0
    MaxMishaps = 2
SPECIFICATION Spec
INVARIANTS SSLMatchesLog
