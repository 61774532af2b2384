----------------------------- MODULE MCRetention -----------------------------
(***************************************************************************)
(* plan_retention over every core and pool of a five-path store: app and   *)
(* tool share lib, doc stands alone, libc is the host's own and free.      *)
(***************************************************************************)
EXTENDS Retention, FiniteSetsExt, TLC

CONSTANTS app, tool, lib, doc, libc

MCPaths == {app, tool, lib, doc, libc}
MCRefs == (app :> {lib}) @@ (tool :> {lib}) @@ (lib :> {libc}) @@ (doc :> {}) @@ (libc :> {})
MCSize == (app :> 3) @@ (tool :> 1) @@ (lib :> 2) @@ (doc :> 1) @@ (libc :> 0)
MCCharge == [S \in SUBSET MCPaths |-> MapThenSumSet(LAMBDA p : MCSize[p], S)]
MCValue == (app :> 4) @@ (doc :> 3) @@ (lib :> 2) @@ (tool :> 5) @@ (libc :> 1)
MCBudgets == 0 .. 7

=============================================================================
