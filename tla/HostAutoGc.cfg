\* The daemon collects by itself when the disk runs low.
CONSTANTS
    sys = sys   lib = lib   app = app
    r1 = r1   r2 = r2   n1 = n1   n2 = n2   b1 = b1   b2 = b2   b3 = b3
    Pruner = Pruner   Gc = Gc   NoProc = NoProc   NoBundle = NoBundle
    Paths <- MCPaths
    Refs <- MCRefs
    Upstream <- MCUpstream
    SystemRoots <- MCSystemRoots
    Repos <- OneRepo
    Namespaces <- OneNs
    NsRepo <- OneNsRepo
    Bundles <- TwoBundles
    BundleNs <- TwoBundleNs
    BundleRoots <- TwoBundleRoots
    BundlePaths <- TwoBundlePaths
    MaxPending = 1
    ActiveSeconds = 1
    FailedRetention = 1
    SteadyClock = TRUE
    AutoGc = TRUE
    MaxTime = 1
    MaxPasses = 0
    MaxCrashes = 0
    MaxSetBacks = 0
    MaxProbes = 0
SPECIFICATION Spec
INVARIANTS
    PinnedValid
CHECK_DEADLOCK FALSE
