\* Two repos, both bundles are settled although runs are killed.
CONSTANTS
    sys = sys   lib = lib   app = app
    r1 = r1   r2 = r2   n1 = n1   n2 = n2   b1 = b1   b2 = b2   b3 = b3
    Pruner = Pruner   Gc = Gc   NoProc = NoProc   NoBundle = NoBundle
    Paths <- MCPaths
    Refs <- MCRefs
    Upstream <- MCUpstream
    SystemRoots <- MCSystemRoots
    Repos <- TwoRepos
    Namespaces <- TwoNs
    NsRepo <- TwoNsRepo
    Bundles <- TwoBundles
    BundleNs <- SharedBundleNs
    BundleRoots <- TwoBundleRoots
    BundlePaths <- TwoBundlePaths
    MaxPending = 1
    ActiveSeconds = 1
    FailedRetention = 1
    SteadyClock = FALSE
    AutoGc = TRUE
    MaxTime = 1
    MaxPasses = 1
    MaxCrashes = 2
    MaxSetBacks = 0
    MaxProbes = 0
SPECIFICATION FairSpec
PROPERTIES
    BundlesSettle
    GcSettles
CHECK_DEADLOCK FALSE
