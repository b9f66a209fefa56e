\* Small inputs of every kind, a Slack call, a flooded channel, and two lives of a process.
CONSTANTS
    AnyText = AnyText
    Channels = {"ops", "dev"}
    Handles = {"h1", "h2"}
    TagNames = {"t"}
    Codes = {"200"}
    Proxies = {"px"}
    Markup = {"<m>"}
    AllRules <- MCAllRules
    Depth <- MCDepth
    MaxDepth = 1
    KubeTrees <- MCKubeTrees
    KubeWhens <- MCKubeWhens
    Hosts <- MCHosts
    AlertWhens <- MCAlertWhens
    Alerts <- MCAlerts
    AlertTrees <- MCAlertTrees
    Declared <- MCDeclared
    Graphs <- MCGraphs
    Order <- MCOrder
    Monitored = {"p"}
    Coalesces <- MCCoalesces
    SelfHealths <- MCSelfHealths
    RateLimits <- MCRateLimits
    EnvNames = {"X", "Y", "Z"}
    Env <- MCEnv
    Texts <- MCTexts
    Known = {"a", "b"}
    Mappings <- MCMappings
    ProxyFiles <- MCProxyFiles
    ChannelFiles <- MCChannelFiles
    Environs <- MCEnvirons
    UserMappings <- MCUserMappings
    Notifies <- MCNotifies
    SlackPeople <- MCSlackPeople
    Workspaces <- MCWorkspaces
    Latest = 3
    Predicates <- MCPredicates
    StatusPages <- MCStatusPages
    Tables <- MCTables
    Queries <- MCQueries
    Listings <- MCListings
    MaxPer = 5
    AMTables <- MCAMTables
    AMQueries <- MCAMQueries
    AMPerPage = 2
    MaxPerPage = 3
    AMListMaxLimit = 4
    Clock <- MCClock
    Sources <- MCSources
    Budget = 3000
    HTTPTimeout = 5000
    Takes = {0, 1000, 5000}
    RetryAfters = {0, 1, 90}
    MaxAttempts = 5
    PerChannel = 2
    Window = 2
    NoticeEvery = 3
    MaxDrops = 5
    Slugs = {"m1", "m2"}
    Loops = {"scheduler", "kube", "heartbeat"}
    MaxLives = 3
    MaxRequests = 1
SPECIFICATION MCSpec
INVARIANTS
    CascadeIsExplained BaselineHolds PlansAreSound WalksAreExact
    StartsAsConfigured PagesAgree ListingsAreComplete CallIsSafe FloodIsTold
    StopsInOrder StartFollowsConfig
PROPERTY StopsWhenTold
CHECK_DEADLOCK FALSE
