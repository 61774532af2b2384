------------------------------ MODULE HostState ------------------------------
(***************************************************************************)
(* What the cache host's three lock-sharing programs read and write: the   *)
(* store, the GC roots under gcroots/cache, the drop directories and the   *)
(* lock.  One program runs under the lock at a time, so the locals of a    *)
(* run (began, todo, cur, stamp, known, plan) are kept once, for the       *)
(* lock's holder; they are empty while nobody holds it.                    *)
(***************************************************************************)
EXTENDS Naturals, FiniteSets, StoreGraph

CONSTANTS
    Repos,              \* repositories that may upload; one importer each
    Pruner, Gc,         \* the other two programs
    NoProc, NoBundle,   \* nobody holds the lock; no bundle is being handled
    Namespaces,         \* <repo>/<set>/<arch>
    NsRepo,             \* the repo of each namespace
    Bundles,            \* bundles that may be uploaded
    BundleNs,           \* the namespace a bundle's manifest names
    BundleRoots,        \* manifest.roots
    BundlePaths,        \* the paths shipped in the bundle (manifest.paths)
    SystemRoots,        \* roots of the host's own system
    Upstream,           \* paths the host can substitute
    MaxPending,         \* repo.max_pending
    ActiveSeconds,      \* policy.active_seconds
    FailedRetention     \* FAILED_RETENTION_SECONDS

Procs == Repos \cup {Pruner, Gc}

ASSUME ProcsAssumption ==
    /\ Pruner \notin Repos /\ Gc \notin Repos /\ Pruner # Gc
    /\ NoProc \notin Procs
    /\ NoBundle \notin Bundles

ASSUME BundlesAssumption ==
    /\ NsRepo \in [Namespaces -> Repos]
    /\ BundleNs \in [Bundles -> Namespaces]
    /\ BundleRoots \in [Bundles -> (SUBSET Paths) \ {{}}]
    /\ BundlePaths \in [Bundles -> SUBSET Paths]

ASSUME HostAssumption ==
    /\ SystemRoots \subseteq Paths
    /\ Upstream \in ClosedSets
    /\ MaxPending \in Nat /\ ActiveSeconds \in Nat /\ FailedRetention \in Nat

VARIABLES
    valid,      \* the valid store paths
    fresh,      \* those registered or probed within the protection window
    pins,       \* pin directories, as [ns, stamp, targets]
    latest,     \* where each namespace's `latest` link points; 0: no link
    junk,       \* links in a namespace's .<stamp>.tmp and .<stamp>.del dirs
    keeps,      \* keep.<time> directories, as [at, tops]
    keepTmp,    \* links in the .keep.<time>.tmp directory
    bundle,     \* "new", "incoming", "failed", "pruned" or "done"
    arrived,    \* the time in a bundle's name (its upload), 0 before
    reason,     \* when its .reason file was written; 0: there is none
    alerted,    \* bundles a rejection alert was queued for
    lock,       \* who holds the shared lock
    pc,         \* where each program is
    began,      \* `now` of the run
    todo,       \* the run's listing of incoming/, what is left of it
    cur,        \* the bundle at hand
    stamp,      \* the stamp of the pin being made
    known,      \* the paths a pass takes for fresh: the log as it ingested it
    plan,       \* the pruner's plan, as [keep, delete, doomed]
    asked,      \* `now` of a pass that waits for the lock
    gcWanted,   \* cache-gc.service was started and has not finished
    now,        \* the clock
    lastDone,   \* history: stamp of the last import that set `latest`
    superseded  \* history: stamps that were older than that import's pin

storeVars == <<valid, fresh>>
pinVars   == <<pins, latest, junk>>
keepVars  == <<keeps, keepTmp>>
dropVars  == <<bundle, arrived, reason, alerted>>
runVars   == <<began, todo, cur, stamp, known, plan>>
waitVars  == <<asked, gcWanted>>
history   == <<lastDone, superseded>>
vars == <<storeVars, pinVars, keepVars, dropVars, lock, pc, runVars,
          waitVars, now, history>>

-----------------------------------------------------------------------------
(* The pin layout (pins.py) *)

Pin == [ns : Namespaces, stamp : Nat, targets : SUBSET Paths]

Stamps(ns) == {p.stamp : p \in {q \in pins : q.ns = ns}}

MaxOf(S) == CHOOSE m \in S : \A n \in S : n <= m

\* pins.latest_stamps: the pointer if it names a pin, else the newest pin.
LatestStamp(ns) ==
    IF latest[ns] \in Stamps(ns) THEN latest[ns] ELSE MaxOf(Stamps(ns))

\* Every symlink below gcroots/cache is a root, in temp dirs too.
PinRoots  == UNION {p.targets : p \in pins}
JunkRoots == UNION {junk[ns] : ns \in Namespaces}
KeepRoots == UNION {k.tops : k \in keeps}
Roots == SystemRoots \cup PinRoots \cup JunkRoots \cup KeepRoots \cup keepTmp

-----------------------------------------------------------------------------
(* The drop directories and the lock *)

Incoming(r) == {b \in Bundles : bundle[b] = "incoming" /\ NsRepo[BundleNs[b]] = r}

EmptyPlan == [keep |-> {}, delete |-> {}, doomed |-> {}]

\* p takes the lock (lock.locked) for a run that has read the clock at t.
Acquire(p, t) ==
    /\ lock = NoProc
    /\ lock' = p
    /\ began' = t

\* Mutant of Leave: a lock file, which outlives the program that wrote it.
LeaveLocked(p) ==
    /\ pc' = [pc EXCEPT ![p] = "idle"]
    /\ began' = 0 /\ todo' = {} /\ cur' = NoBundle /\ stamp' = 0
    /\ known' = {} /\ plan' = EmptyPlan
    /\ UNCHANGED lock

\* p's run is over, whatever it did: the lock is free and its locals are gone.
Leave(p) ==
    /\ lock' = NoProc
    /\ pc' = [pc EXCEPT ![p] = "idle"]
    /\ began' = 0 /\ todo' = {} /\ cur' = NoBundle /\ stamp' = 0
    /\ known' = {} /\ plan' = EmptyPlan

At(p, here) == pc[p] = here
Goto(p, there) == pc' = [pc EXCEPT ![p] = there]

Init ==
    /\ valid = Closure(SystemRoots) /\ fresh = {}
    /\ pins = {} /\ latest = [ns \in Namespaces |-> 0]
    /\ junk = [ns \in Namespaces |-> {}]
    /\ keeps = {} /\ keepTmp = {}
    /\ bundle = [b \in Bundles |-> "new"]
    /\ arrived = [b \in Bundles |-> 0]
    /\ reason = [b \in Bundles |-> 0]
    /\ alerted = {}
    /\ lock = NoProc /\ pc = [p \in Procs |-> "idle"]
    /\ began = 0 /\ todo = {} /\ cur = NoBundle /\ stamp = 0
    /\ known = {} /\ plan = EmptyPlan
    /\ asked = 0 /\ gcWanted = FALSE
    /\ now = 1
    /\ lastDone = [ns \in Namespaces |-> 0]
    /\ superseded = [ns \in Namespaces |-> {}]

=============================================================================
