\* Sound bundles and bundles with one thing wrong, on hosts from empty to full.
CONSTANTS
    app = app   lib = lib   gcc = gcc   base = base   NoPath = NoPath
    Paths <- MCPaths
    Refs <- MCRefs
    Upstream <- MCUpstream
    Bytes <- MCBytes
    Uploads <- MCUploads
    Hosts <- MCGoodHosts
    Cap = 4
    MaxRoots = 2
    MaxUnpacked = 6
    Slack = 8
    MaxMembers = 7
    Floor = 2
    Chunk = 1
    Tenth = 3
    MaxOthers = 2
SPECIFICATION AdmSpec
INVARIANTS
    AdmitsOnlySound
    RootsTrusted
    GrowthCharged
    RefusedForCause
CHECK_DEADLOCK FALSE
