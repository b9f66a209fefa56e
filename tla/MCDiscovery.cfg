\* Two hosts that come, go and change their verdict under failing calls.
CONSTANTS
    Tuples = {"t1", "t2"}
    Slugs = {"m1", "m2"}
    SlugOf <- MCSlugOf
    NoTuple = NoTuple
    NoSlug = NoSlug
    MaxChanges = 2
    MaxFailures = 1
    MaxOutages = 1
SPECIFICATION FairSpec
INVARIANTS TablesAgree RemovedIsClosed
PROPERTIES StillThereSurvives ClusterIsFollowed
