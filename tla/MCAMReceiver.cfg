\* One alert that fires, resolves and fires again while deliveries overlap.
CONSTANTS
    Fingerprints = {f1}
    Slots = {1, 2}
    Channels = {"c1"}
    Targets = {"c1", "ignored"}
    Routes <- MCRoutes
    Limited = TRUE
    MaxFlips = 3
    MaxRepeats = 0
    MaxFailures = 1
SPECIFICATION Spec
INVARIANTS TypeOK MessagesMatchRows
PROPERTIES KeepsPromise ResolveCloses
CHECK_DEADLOCK FALSE
