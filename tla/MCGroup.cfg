CONSTANTS
    Slugs = {m1, m2}
    GroupWait = 1
    GroupInterval = 2
    RepeatInterval = 2
    ResolveDebounce = 2
    MaxTime = 4
SPECIFICATION Spec
INVARIANTS CloseLeavesNothingRed
PROPERTIES FlapDamping HonestDelta ScoreboardFresh
SYMMETRY Symmetry
