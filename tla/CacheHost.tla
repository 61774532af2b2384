------------------------------ MODULE CacheHost ------------------------------
(***************************************************************************)
(* The whole cache host: uploads arrive, one importer per repo, the hourly *)
(* pruner and the garbage collector take turns under one lock, clients     *)
(* probe for paths, the clock moves, and any program may be killed at any  *)
(* point (a systemd timeout, a power cut, an exception nobody catches).    *)
(***************************************************************************)
EXTENDS Importer, Pruner

CONSTANTS
    SteadyClock,    \* importers only run at a later second than every stamp
    AutoGc,         \* the nix-daemon's own min-free collection may run
    MaxTime, MaxPasses, MaxCrashes, MaxSetBacks, MaxProbes     \* bounds

ASSUME ScenarioAssumption ==
    /\ SteadyClock \in BOOLEAN /\ AutoGc \in BOOLEAN
    /\ MaxTime \in Nat /\ MaxPasses \in Nat
    /\ MaxCrashes \in Nat /\ MaxSetBacks \in Nat /\ MaxProbes \in Nat

VARIABLES passes, crashes, setBacks, probes     \* how much of the bounds is used up

counters == <<passes, crashes, setBacks, probes>>
allVars == <<vars, counters>>

-----------------------------------------------------------------------------
(* The environment *)

\* cache-receive.sh renames a complete upload into incoming/.
Upload(b) ==
    /\ bundle[b] = "new"
    /\ bundle' = [bundle EXCEPT ![b] = "incoming"]
    /\ arrived' = [arrived EXCEPT ![b] = now]
    /\ UNCHANGED <<storeVars, pinVars, keepVars, reason, alerted, lock, pc, runVars,
                   waitVars, now, history, counters>>

\* Time passes, and some paths leave the protection window.
Tick ==
    /\ now < MaxTime
    /\ now' = now + 1
    /\ \E F \in SUBSET fresh : fresh' = F
    /\ UNCHANGED <<valid, pinVars, keepVars, dropVars, lock, pc, runVars, waitVars,
                   history, counters>>

\* The wall clock is corrected backwards.
SetBack ==
    /\ setBacks < MaxSetBacks
    /\ \E t \in 1 .. (now - 1) : now' = t
    /\ setBacks' = setBacks + 1
    /\ UNCHANGED <<storeVars, pinVars, keepVars, dropVars, lock, pc, runVars, waitVars,
                   history, passes, crashes, probes>>

\* A client asks for p's narinfo and is served; the access log records it.
Probe(p) ==
    /\ p \in valid \ fresh
    /\ probes < MaxProbes
    /\ fresh' = fresh \cup {p}
    /\ probes' = probes + 1
    /\ UNCHANGED <<valid, pinVars, keepVars, dropVars, lock, pc, runVars, waitVars,
                   now, history, passes, crashes, setBacks>>

\* A killed program keeps nothing but what it already wrote; the kernel frees
\* its lock.  A killed collector is not started again before the next pass.
Crash(p) ==
    /\ crashes < MaxCrashes
    /\ lock = p
    /\ IF p \in Repos THEN Interrupted(p) ELSE UNCHANGED storeVars
    /\ Leave(p)
    /\ gcWanted' = (gcWanted /\ p # Gc)
    /\ crashes' = crashes + 1
    /\ UNCHANGED <<pinVars, keepVars, dropVars, asked, now, history, passes,
                   setBacks, probes>>

\* A pass is given up while it waits for the lock (TimeoutStartSec).
GiveUp ==
    /\ crashes < MaxCrashes
    /\ At(Pruner, "wait")
    /\ Goto(Pruner, "idle")
    /\ asked' = 0
    /\ crashes' = crashes + 1
    /\ UNCHANGED <<storeVars, pinVars, keepVars, dropVars, lock, runVars, gcWanted, now,
                   history, passes, setBacks, probes>>

\* min-free: the daemon collects on its own, and takes no lock of ours.
AutoCollect ==
    /\ AutoGc
    /\ \E p \in valid : Collectable(p) /\ Remove(p)
    /\ UNCHANGED <<pinVars, keepVars, dropVars, lock, pc, runVars, waitVars,
                   now, history, counters>>

-----------------------------------------------------------------------------
RunImporter(r) ==
    /\ SteadyClock => \A p \in pins : NsRepo[p.ns] = r => p.stamp < now
    /\ Start(r)
    /\ UNCHANGED counters

TimerFires ==
    /\ passes < MaxPasses
    /\ AskPass
    /\ passes' = passes + 1
    /\ UNCHANGED <<crashes, setBacks, probes>>

ImporterNext(r) == RunImporter(r) \/ (ImportStep(r) /\ UNCHANGED counters)
PrunerNext == TimerFires \/ (PassStep /\ UNCHANGED counters)
GcNext == (StartGc \/ GcStep) /\ UNCHANGED counters

Environment ==
    \/ \E b \in Bundles : Upload(b)
    \/ Tick
    \/ SetBack
    \/ \E p \in Paths : Probe(p)
    \/ \E p \in Procs : Crash(p)
    \/ GiveUp
    \/ AutoCollect

Next ==
    \/ \E r \in Repos : ImporterNext(r)
    \/ PrunerNext
    \/ GcNext
    \/ Environment

InitAll == Init /\ passes = 0 /\ crashes = 0 /\ setBacks = 0 /\ probes = 0

Spec == InitAll /\ [][Next]_allVars

(***************************************************************************)
(* systemd keeps running a started unit and the path unit starts the       *)
(* importer as long as incoming/ is not empty; the timer, uploads and the  *)
(* clock owe us nothing.                                                   *)
(***************************************************************************)
Fairness ==
    /\ \A r \in Repos : WF_allVars(ImporterNext(r))
    /\ WF_allVars(PassStep /\ UNCHANGED counters)
    /\ WF_allVars(GcNext)

FairSpec == Spec /\ Fairness

-----------------------------------------------------------------------------
(* Types *)

Stages == Importing \cup Rejecting \cup
    {"idle", "wait", "expire", "next", "unlink", "plan", "orphans", "top", "commit", "old", "delete",
     "away", "purge", "collect"}

Plan == [keep : ClosedSets, delete : SUBSET Pin, doomed : SUBSET Pin]

\* Every variable holds what its comment in HostState says.
TypeOK ==
    /\ valid \subseteq Paths /\ fresh \subseteq Paths
    /\ pins \subseteq Pin
    /\ latest \in [Namespaces -> Nat]
    /\ junk \in [Namespaces -> SUBSET Paths]
    /\ keeps \subseteq [at : Nat, tops : SUBSET Paths]
    /\ keepTmp \subseteq Paths
    /\ bundle \in [Bundles -> {"new", "incoming", "failed", "pruned", "done"}]
    /\ arrived \in [Bundles -> Nat] /\ reason \in [Bundles -> Nat]
    /\ alerted \subseteq Bundles
    /\ lock \in Procs \cup {NoProc}
    /\ pc \in [Procs -> Stages]
    /\ began \in Nat /\ stamp \in Nat /\ now \in Nat
    /\ todo \subseteq Bundles
    /\ cur \in Bundles \cup {NoBundle}
    /\ known \subseteq Paths /\ plan \in Plan
    /\ asked \in Nat /\ gcWanted \in BOOLEAN
    /\ lastDone \in [Namespaces -> Nat]
    /\ superseded \in [Namespaces -> SUBSET Nat]
    /\ passes \in Nat /\ crashes \in Nat /\ setBacks \in Nat /\ probes \in Nat

-----------------------------------------------------------------------------
(* Safety *)

\* What a pin names is on the host with everything it needs, whoever crashed
\* and whenever the collector ran: importer.run and cache-gc share the lock, so
\* no collection falls between the copy and the pin (lock.py, retention.nix).
PinnedValid == Closure(PinRoots) \subseteq valid

\* A pin directory that list_pins can see holds exactly the roots of one bundle
\* of its namespace: pin() fills .<stamp>.tmp and renames it, so a crash between
\* two links, a stale temp dir or an eviction never leaves a partial pin.
PinsWhole ==
    \A p \in pins : \E b \in Bundles :
        BundleNs[b] = p.ns /\ BundleRoots[b] = p.targets

\* `latest` never dangles, even if a program dies half way: pin() moves it after
\* the rename and delete_pin() before.
LatestNamesAPin ==
    \A ns \in Namespaces : latest[ns] # 0 => latest[ns] \in Stamps(ns)

\* When a pass ends, the roots it leaves hold exactly the planned keep set and
\* the system: nothing planned is left without a root, and no temp dir, old
\* keep dir or unneeded pin keeps a path beyond the plan (write_keep, sweep_all,
\* delete_pin).  This is what makes the budget real once cache-gc has run.
PassRealisesPlan ==
    At(Pruner, "delete") /\ plan.delete = {} =>
        Closure(Roots) = plan.keep \cup Closure(SystemRoots)

\* A bundle in failed/ had its alert queued and, until it is due for pruning
\* itself, has its .reason file, whatever crash came in between (importer.reject
\* writes both before the move, and no reason is older than its bundle).
RejectedHasReason ==
    \A b \in Bundles : bundle[b] = "failed" =>
        /\ b \in alerted
        /\ now <= arrived[b] + FailedRetention => reason[b] # 0

\* The pin retention protects for an active namespace is never one that was
\* there before its last completed import: `latest` and the stamps agree on which
\* import is current (pins.latest_stamps, pins.delete_pin, retention._core).
NoRollback ==
    \A ns \in Namespaces :
        lastDone[ns] # 0 /\ now <= lastDone[ns] + ActiveSeconds =>
            Stamps(ns) # {} /\ LatestStamp(ns) \notin superseded[ns]

\* A bundle leaves incoming/ as imported only once its roots are pinned, valid
\* with their closure, and current: a kill before that leaves it for a retry.
ImportedMeansPinned ==
    [][\A b \in Bundles : bundle[b] = "incoming" /\ bundle'[b] = "done" =>
        /\ Closure(BundleRoots[b]) \subseteq valid'
        /\ \E p \in pins' :
            /\ p.ns = BundleNs[b] /\ p.targets = BundleRoots[b]
            /\ p.stamp = latest'[p.ns]]_allVars

\* The host keeps what module Cache promises, whoever is killed and wherever:
\* every step of its programs is one of the promised steps or changes nothing
\* that can be seen from outside (pins, served paths, the fate of bundles).
Promise == INSTANCE Cache WITH
    stored  <- valid,
    drop    <- bundle,
    request <- [b \in Bundles |->
        [ns |-> BundleNs[b], roots |-> BundleRoots[b], paths |-> BundlePaths[b]]],
    told    <- alerted

KeepsPromise == Promise!CacheSpec

-----------------------------------------------------------------------------
(* Liveness *)

\* Every uploaded bundle is imported or rejected in the end, however often a run
\* was killed on it (finitely often): the importer never spins on one.
BundlesSettle ==
    \A b \in Bundles : bundle[b] = "incoming" ~> bundle[b] \in {"done", "failed", "pruned"}

\* A successful pass is followed by a collection that ends: the lock is always
\* handed on, whoever dies holding it.
GcSettles == gcWanted ~> ~ gcWanted

=============================================================================
