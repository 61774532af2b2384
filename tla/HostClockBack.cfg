\* The clock is set back once between imports.
CONSTANTS
    sys = sys   lib = lib   app = app
    r1 = r1   r2 = r2   n1 = n1   n2 = n2   b1 = b1   b2 = b2   b3 = b3
    Pruner = Pruner   Gc = Gc   NoProc = NoProc   NoBundle = NoBundle
    Paths <- TwoPaths
    Refs <- TwoPathRefs
    Upstream <- JustSys
    SystemRoots <- MCSystemRoots
    Repos <- OneRepo
    Namespaces <- OneNs
    NsRepo <- OneNsRepo
    Bundles <- ThreeBundles
    BundleNs <- ThreeBundleNs
    BundleRoots <- ThreeBundleRoots
    BundlePaths <- ThreeBundlePaths
    MaxPending = 3
    ActiveSeconds = 2
    FailedRetention = 1
    SteadyClock = FALSE
    AutoGc = FALSE
    MaxTime = 3
    MaxPasses = 1
    MaxCrashes = 0
    MaxSetBacks = 1
    MaxProbes = 0
SPECIFICATION Spec
INVARIANTS
    NoRollback
CONSTRAINT NothingRejected
ACTION_CONSTRAINT CalmRuns
CHECK_DEADLOCK FALSE
