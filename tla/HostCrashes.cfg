\* One repo, two bundles of one namespace, two passes, one crash anywhere.
CONSTANTS
    sys = sys   lib = lib   app = app
    r1 = r1   r2 = r2   n1 = n1   n2 = n2   b1 = b1   b2 = b2   b3 = b3
    Pruner = Pruner   Gc = Gc   NoProc = NoProc   NoBundle = NoBundle
    Paths <- MCPaths
    Refs <- MCRefs
    Upstream <- MCUpstream
    SystemRoots <- MCSystemRoots
    Repos <- OneRepo
    Namespaces <- OneNs
    NsRepo <- OneNsRepo
    Bundles <- TwoBundles
    BundleNs <- TwoBundleNs
    BundleRoots <- TwoBundleRoots
    BundlePaths <- TwoBundlePaths
    MaxPending = 1
    ActiveSeconds = 0
    FailedRetention = 0
    SteadyClock = FALSE
    AutoGc = FALSE
    MaxTime = 2
    MaxPasses = 2
    MaxCrashes = 1
    MaxSetBacks = 0
    MaxProbes = 0
SPECIFICATION Spec
INVARIANTS
    TypeOK
    PinnedValid
    PinsWhole
    LatestNamesAPin
    PassRealisesPlan
    RejectedHasReason
    NoRollback
PROPERTIES
    ImportedMeansPinned
    KeepsPromise
CHECK_DEADLOCK FALSE
