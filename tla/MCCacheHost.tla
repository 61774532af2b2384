----------------------------- MODULE MCCacheHost -----------------------------
(***************************************************************************)
(* Small instances of CacheHost.  sys is the host's own closure, lib comes *)
(* from upstream, app is only ever shipped in bundles: app -> lib -> sys.  *)
(***************************************************************************)
EXTENDS CacheHost, TLC

CONSTANTS sys, lib, app, r1, r2, n1, n2, b1, b2, b3

MCPaths == {sys, lib, app}
MCRefs == (sys :> {}) @@ (lib :> {sys}) @@ (app :> {lib})
MCUpstream == {sys, lib}
MCSystemRoots == {sys}

\* One repo with one namespace: b1 ships app, b2 pins again what the host has.
OneRepo == {r1}
OneNs == {n1}
OneNsRepo == n1 :> r1
TwoBundles == {b1, b2}
TwoBundleNs == (b1 :> n1) @@ (b2 :> n1)
TwoBundleRoots == (b1 :> {app}) @@ (b2 :> {lib, sys})
TwoBundlePaths == (b1 :> {app}) @@ (b2 :> {})

\* Three builds of one set: the middle one is what the next eviction drops.
ThreeBundles == {b1, b2, b3}
ThreeBundleNs == [b \in ThreeBundles |-> n1]
ThreeBundleRoots == (b1 :> {sys}) @@ (b2 :> {app}) @@ (b3 :> {sys})
ThreeBundlePaths == (b1 :> {}) @@ (b2 :> {app}) @@ (b3 :> {})
\* Look at the histories in which nothing is rejected.
NothingRejected == \A r \in Repos : pc[r] \notin Rejecting
\* ... and uploads and the clock keep still while a run is under way.
CalmRuns == lock # NoProc => now' = now /\ arrived' = arrived
TwoPaths == {sys, app}
TwoPathRefs == (sys :> {}) @@ (app :> {sys})
LiveBundleRoots == (b1 :> {app}) @@ (b2 :> {sys})
JustSys == {sys}

\* Two repos, a namespace each, sharing paths in one store.
TwoRepos == {r1, r2}
TwoNs == {n1, n2}
TwoNsRepo == (n1 :> r1) @@ (n2 :> r2)
SharedBundleNs == (b1 :> n1) @@ (b2 :> n2)

=============================================================================
