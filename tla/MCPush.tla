------------------------------- MODULE MCPush -------------------------------
(***************************************************************************)
(* Two builds of one set: j1 builds app, which needs lib; j2 finds app in  *)
(* the cache, if it is there, and builds lib, which upstream has as well.  *)
(***************************************************************************)
EXTENDS Push, TLC

CONSTANTS app, lib, j1, j2, b1, b2, b3, n1

MCPaths == {app, lib}
MCRefs == (app :> {lib}) @@ (lib :> {})
MCBundles == {b1, b2, b3}
MCNamespaces == {n1}
MCJobs == {j1, j2}
MCJobNs == [j \in MCJobs |-> n1]
MCJobRoots == (j1 :> {app}) @@ (j2 :> {app, lib})
MCBuilt == (j1 :> {app, lib}) @@ (j2 :> {lib})
MCUpstream == {lib}
NoPaths == {}

=============================================================================
