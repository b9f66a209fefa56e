\* Probes and passes at any speed.
CONSTANTS
    Slugs = {m1, m2}
    Window = 2
    MinMonitors = 2
    Unresolvable = {}
    Flaky = {m2}
    SlackFails = TRUE
    Punctual = FALSE
    MaxCount = 2
SPECIFICATION Spec
INVARIANTS OneNotice
PROPERTIES NeverReplayed
