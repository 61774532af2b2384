\* Two CI jobs of one namespace; uploads are cut or their replies lost; the host evicts and collects.
CONSTANTS
    app = app   lib = lib   j1 = j1   j2 = j2   b1 = b1   b2 = b2   b3 = b3   n1 = n1
    Paths <- MCPaths
    Refs <- MCRefs
    Namespaces <- MCNamespaces
    Bundles <- MCBundles
    SystemRoots <- NoPaths
    Jobs <- MCJobs
    JobNs <- MCJobNs
    JobRoots <- MCJobRoots
    Built <- MCBuilt
    Upstream <- MCUpstream
    Attempts = 2
    MaxRuns = 2
SPECIFICATION FairPushSpec
INVARIANTS
    NoRootLost
    BundleWillDo
    OkMeansDelivered
PROPERTIES
    JobsEnd
CHECK_DEADLOCK FALSE
