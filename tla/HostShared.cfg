\* Two repos with a namespace each share one store, a client probes and the clock is set back.
CONSTANTS
    sys = sys   lib = lib   app = app
    r1 = r1   r2 = r2   n1 = n1   n2 = n2   b1 = b1   b2 = b2   b3 = b3
    Pruner = Pruner   Gc = Gc   NoProc = NoProc   NoBundle = NoBundle
    Paths <- MCPaths
    Refs <- MCRefs
    Upstream <- MCUpstream
    SystemRoots <- MCSystemRoots
    Repos <- TwoRepos
    Namespaces <- TwoNs
    NsRepo <- TwoNsRepo
    Bundles <- TwoBundles
    BundleNs <- SharedBundleNs
    BundleRoots <- TwoBundleRoots
    BundlePaths <- TwoBundlePaths
    MaxPending = 1
    ActiveSeconds = 0
    FailedRetention = 1
    SteadyClock = TRUE
    AutoGc = FALSE
    MaxTime = 2
    MaxPasses = 1
    MaxCrashes = 0
    MaxSetBacks = 1
    MaxProbes = 1
SPECIFICATION Spec
INVARIANTS
    PinnedValid
CHECK_DEADLOCK FALSE
