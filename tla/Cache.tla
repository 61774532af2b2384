-------------------------------- MODULE Cache --------------------------------
(***************************************************************************)
(* What the cache host promises to those who upload to it and to those who *)
(* read from it, with nothing of how it does so: no lock, no temporary     *)
(* directories, no control points and no crashes.  CacheHost implements    *)
(* it as long as the nix-daemon does not collect on its own.               *)
(***************************************************************************)
EXTENDS Naturals, StoreGraph

CONSTANTS
    Namespaces,     \* <repo>/<set>/<arch>
    Bundles,        \* uploads
    SystemRoots     \* roots of the host's own system

VARIABLES
    stored,     \* the paths the host has and serves
    pins,       \* what it keeps, as [ns, stamp, targets]
    latest,     \* the stamp of each namespace's current pin; 0: none
    drop,       \* "new", "incoming", "failed", "pruned" or "done"
    request,    \* what each bundle asks for, as [ns, roots, paths]
    told        \* bundles whose rejection somebody is told of

cacheVars == <<stored, pins, latest, drop, request, told>>

Request == [ns : Namespaces, roots : SUBSET Paths, paths : SUBSET Paths]

StampsOf(ns) == {p.stamp : p \in {q \in pins : q.ns = ns}}
Pinned == UNION {p.targets : p \in pins}

Open(b) == drop[b] = "incoming"
Answers(p, b) == p.ns = request[b].ns /\ p.targets = request[b].roots

-----------------------------------------------------------------------------
\* An upload arrives, with content r.
Receive(b, r) ==
    /\ r \in Request
    /\ drop[b] = "new"
    /\ drop' = [drop EXCEPT ![b] = "incoming"]
    /\ request' = [request EXCEPT ![b] = r]
    /\ UNCHANGED <<stored, pins, latest, told>>

\* Paths S are added for a waiting bundle: some of what it ships and that
\* needs, nothing without its references.
Add(b, S) ==
    /\ Open(b)
    /\ S \subseteq Closure(request[b].paths)
    /\ Closed(stored \cup S)
    /\ stored' = stored \cup S
    /\ UNCHANGED <<pins, latest, drop, request, told>>

\* A waiting bundle's roots (it has some, if it can be read) are pinned under a
\* new stamp s, once all they need is there.
PinRootsOf(b, s) ==
    /\ Open(b)
    /\ request[b].roots # {}
    /\ Closure(request[b].roots) \subseteq stored
    /\ s \notin StampsOf(request[b].ns)
    /\ pins' = pins \cup
            {[ns |-> request[b].ns, stamp |-> s, targets |-> request[b].roots]}
    /\ UNCHANGED <<stored, latest, drop, request, told>>

\* A namespace's current pin changes: to another one it has, or to none (0).
Point(ns, s) ==
    /\ s \in StampsOf(ns) \cup {0}
    /\ latest' = [latest EXCEPT ![ns] = s]
    /\ UNCHANGED <<stored, pins, drop, request, told>>

\* A pin goes, but never the current one.
Unpin(p) ==
    /\ p \in pins
    /\ latest[p.ns] # p.stamp
    /\ pins' = pins \ {p}
    /\ UNCHANGED <<stored, latest, drop, request, told>>

\* A bundle counts as imported once its roots are the current pin.
Accept(b) ==
    /\ Open(b)
    /\ \E p \in pins : Answers(p, b) /\ latest[p.ns] = p.stamp
    /\ drop' = [drop EXCEPT ![b] = "done"]
    /\ UNCHANGED <<stored, pins, latest, request, told>>

\* It may be refused for any reason, but not in silence.
Tell(b) ==
    /\ Open(b)
    /\ told' = told \cup {b}
    /\ UNCHANGED <<stored, pins, latest, drop, request>>

Refuse(b) ==
    /\ Open(b)
    /\ b \in told
    /\ drop' = [drop EXCEPT ![b] = "failed"]
    /\ UNCHANGED <<stored, pins, latest, request, told>>

\* A refused bundle is kept for a while and then removed.
Forget(b) ==
    /\ drop[b] = "failed"
    /\ drop' = [drop EXCEPT ![b] = "pruned"]
    /\ UNCHANGED <<stored, pins, latest, request, told>>

\* A path is collected that nothing pinned, nothing of the system and no other
\* path needs.
Reclaim(p) ==
    /\ p \in stored \ Closure(Pinned \cup SystemRoots)
    /\ \A q \in stored : p \notin Refs[q]
    /\ stored' = stored \ {p}
    /\ UNCHANGED <<pins, latest, drop, request, told>>

CacheInit ==
    /\ stored = Closure(SystemRoots)
    /\ pins = {}
    /\ latest = [ns \in Namespaces |-> 0]
    /\ drop = [b \in Bundles |-> "new"]
    /\ request \in [Bundles -> Request]
    /\ told = {}

CacheNext ==
    \/ \E b \in Bundles :
        \/ Receive(b, request'[b])
        \/ Add(b, stored' \ stored)
        \/ \E p \in pins' : PinRootsOf(b, p.stamp)
        \/ Accept(b)
        \/ Tell(b)
        \/ Refuse(b)
        \/ Forget(b)
    \/ \E ns \in Namespaces : Point(ns, latest'[ns])
    \/ \E p \in pins : Unpin(p)
    \/ \E p \in Paths : Reclaim(p)

CacheSpec == CacheInit /\ [][CacheNext]_cacheVars

-----------------------------------------------------------------------------
(* What follows from it *)

\* The closure of every pin is there to be served.
PinsServed == Closure(Pinned) \subseteq stored

\* A pin holds exactly what one bundle asked for, and `latest` names a pin.
PinsAnswer ==
    /\ \A p \in pins : \E b \in Bundles : drop[b] # "new" /\ Answers(p, b)
    /\ \A ns \in Namespaces : latest[ns] \in StampsOf(ns) \cup {0}

\* Nothing is refused without anybody being told.
RefusedAreTold == \A b \in Bundles : drop[b] \in {"failed", "pruned"} => b \in told

=============================================================================
