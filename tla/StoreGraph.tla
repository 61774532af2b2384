----------------------------- MODULE StoreGraph -----------------------------
(***************************************************************************)
(* The Nix store seen as a graph: store paths and the references between   *)
(* them (nix_cache/graph.py).  Closure is defined by what the worklist     *)
(* loop returns, the least reference-closed set around its roots, and not  *)
(* by the loop, so that it can be reasoned about; module GraphWalk runs    *)
(* the loop itself against this definition.                                *)
(***************************************************************************)
CONSTANTS
    Paths,      \* every store path that may ever be on the host
    Refs        \* Refs[p]: the paths p references, itself left out

(***************************************************************************)
(* build_graph drops self references, and a store path can only reference  *)
(* paths that were complete before it: there is no cycle.  Stated on sets, *)
(* every nonempty set of paths has one that no other of the set uses.      *)
(***************************************************************************)
ASSUME RefsAssumption == Refs \in [Paths -> SUBSET Paths]

ASSUME AcyclicAssumption ==
    \A S \in SUBSET Paths :
        S # {} => \E p \in S : \A q \in S : p \notin Refs[q]

\* Nothing in S references a path outside S.
Closed(S) == \A p \in S : Refs[p] \subseteq S

ClosedSets == {C \in SUBSET Paths : Closed(C)}

\* graph.closure: everything reachable from S along references.
Closure(S) == {p \in Paths : \A C \in ClosedSets : S \subseteq C => p \in C}

\* retention.plan_retention: the members of K that no member of K references,
\* the only ones that need a root of their own.
Tops(K) == {p \in K : \A q \in K : p \notin Refs[q]}

\* graph.closure_excluding: everything reachable from S inside G without ever
\* entering X (G: the paths the graph lists, X: paths already kept).
WalkClosed(C, G, X) == \A p \in C : (Refs[p] \cap G) \ X \subseteq C

Walk(S, G, X) ==
    {p \in Paths : \A C \in SUBSET Paths :
        (S \cap G) \ X \subseteq C /\ WalkClosed(C, G, X) => p \in C}

\* Mutant of IsPlanFor: adds candidates without what they reference.
IsOpenPlanFor(keep, core, pool) ==
    /\ core \subseteq keep
    /\ keep \subseteq Closure(core \cup pool)

\* What every retention plan promises: a closed keep set, around the must-keep
\* core and out of what core and pool pull in (retention.plan_retention).
IsPlanFor(keep, core, pool) ==
    /\ keep \in ClosedSets
    /\ Closure(core) \subseteq keep
    /\ keep \subseteq Closure(core \cup pool)

=============================================================================
