----------------------------- MODULE MCGraphWalk -----------------------------
(***************************************************************************)
(* Both loops from every start, in every subgraph of a store with a shared *)
(* reference (top -> left, right -> base) and a path of its own.           *)
(***************************************************************************)
EXTENDS GraphWalk, TLC

CONSTANTS top, left, right, base, other

MCPaths == {top, left, right, base, other}
MCRefs == (top :> {left, right}) @@ (left :> {base}) @@ (right :> {base, other})
            @@ (base :> {}) @@ (other :> {base})

=============================================================================
