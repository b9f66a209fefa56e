\* One broken record while the other services fail and come back; probes and passes keep up.
CONSTANTS
    Slugs = {m1, m2, m3}
    Window = 2
    MinMonitors = 2
    Unresolvable = {m1}
    Flaky = {m2, m3}
    SlackFails = FALSE
    Punctual = TRUE
    MaxCount = 1
SPECIFICATION FairSpec
PROPERTIES BlindnessIsReal BlindnessEnds BrokenRecordPages
