-------------------------------- MODULE Pruner --------------------------------
(***************************************************************************)
(* cache-pruner (pruner.py) with pins.delete_pin, and cache-gc.  A pass    *)
(* plans a keep set, roots its tops, drops the pins it does not need and,  *)
(* when it succeeds, starts the garbage collector.  Which paths fit the    *)
(* budget is retention.plan_retention's business (module Retention); here  *)
(* the plan is any set it may return.                                      *)
(***************************************************************************)
EXTENDS HostState

-----------------------------------------------------------------------------
(* pruner.run *)

\* `now` is read before the lock is waited for ...
AskPass ==
    /\ At(Pruner, "idle")
    /\ asked' = now
    /\ Goto(Pruner, "wait")
    /\ UNCHANGED <<storeVars, pinVars, keepVars, dropVars, lock, runVars, gcWanted,
                   now, history>>

\* ... and the access log is ingested once it is held.  A pass that had to wait
\* has an earlier cutoff and may take more for fresh than is.
StartPass ==
    /\ At(Pruner, "wait")
    /\ Acquire(Pruner, asked) /\ Goto(Pruner, "sweep")
    /\ \E more \in SUBSET valid :
        /\ asked = now => more = {}
        /\ known' = fresh \cup more
    /\ asked' = 0
    /\ UNCHANGED <<storeVars, pinVars, keepVars, dropVars, todo, cur, stamp, plan,
                   gcWanted, now, history>>

\* Mutant of SweepAll: temp directories stay.
SweepNothing ==
    /\ At(Pruner, "sweep")
    /\ Goto(Pruner, "plan")
    /\ UNCHANGED <<storeVars, pinVars, keepVars, dropVars, lock, runVars,
                   waitVars, now, history>>

\* sweep_all: no importer is at work, so every temp directory is stale.
SweepAll ==
    /\ At(Pruner, "sweep")
    /\ junk' = [ns \in Namespaces |-> {}]
    /\ Goto(Pruner, "plan")
    /\ UNCHANGED <<storeVars, pins, latest, keepVars, dropVars, lock, runVars,
                   waitVars, now, history>>

-----------------------------------------------------------------------------
(* retention._core and plan_retention *)

\* Mutant of ActiveNs: off by one at the end of the active window.
ActiveNsStrict ==
    {ns \in Namespaces :
        Stamps(ns) # {} /\ began < MaxOf(Stamps(ns)) + ActiveSeconds}

ActiveNs ==
    {ns \in Namespaces :
        Stamps(ns) # {} /\ began <= MaxOf(Stamps(ns)) + ActiveSeconds}

ProtectedPins ==
    {p \in pins : p.ns \in ActiveNs /\ p.stamp = LatestStamp(p.ns)}

Must == ((UNION {p.targets : p \in ProtectedPins}) \cup known) \cap valid

\* What may be kept beyond that, as far as the budget goes.
Pool == (PinRoots \cup KeepRoots) \cap valid

MakePlan ==
    /\ At(Pruner, "plan")
    /\ valid # {}
    /\ \E keep \in SUBSET Paths :
        /\ IsPlanFor(keep, Must, Pool)
        /\ plan' = [keep   |-> keep,
                    delete |-> {p \in pins \ ProtectedPins : ~ p.targets \subseteq keep},
                    doomed |-> {}]
    /\ known' = {}
    /\ Goto(Pruner, "orphans")
    /\ UNCHANGED <<storeVars, pinVars, keepVars, dropVars, lock, began, todo, cur,
                   stamp, waitVars, now, history>>

-----------------------------------------------------------------------------
(* write_keep *)

DropOrphans ==
    /\ At(Pruner, "orphans")
    /\ keepTmp' = {}
    /\ Goto(Pruner, "top")
    /\ UNCHANGED <<storeVars, pinVars, keeps, dropVars, lock, runVars, waitVars,
                   now, history>>

LinkTop ==
    /\ At(Pruner, "top")
    /\ \E p \in Tops(plan.keep) \ keepTmp : keepTmp' = keepTmp \cup {p}
    /\ UNCHANGED <<storeVars, pinVars, keeps, dropVars, lock, pc, runVars, waitVars,
                   now, history>>

\* A keep directory of the same second would block the rename.
ClearFinal ==
    /\ At(Pruner, "top")
    /\ Tops(plan.keep) = keepTmp
    /\ keeps' = {k \in keeps : k.at # began}
    /\ Goto(Pruner, "commit")
    /\ UNCHANGED <<storeVars, pinVars, keepTmp, dropVars, lock, runVars, waitVars,
                   now, history>>

CommitKeep ==
    /\ At(Pruner, "commit")
    /\ keeps' = keeps \cup {[at |-> began, tops |-> keepTmp]}
    /\ keepTmp' = {}
    /\ Goto(Pruner, "old")
    /\ UNCHANGED <<storeVars, pinVars, dropVars, lock, runVars, waitVars, now, history>>

DropOldKeep ==
    /\ At(Pruner, "old")
    /\ \E k \in keeps : k.at # began /\ keeps' = keeps \ {k}
    /\ UNCHANGED <<storeVars, pinVars, keepTmp, dropVars, lock, pc, runVars, waitVars,
                   now, history>>

KeepWritten ==
    /\ At(Pruner, "old")
    /\ \A k \in keeps : k.at = began
    /\ Goto(Pruner, "delete")
    /\ UNCHANGED <<storeVars, pinVars, keepVars, dropVars, lock, runVars, waitVars,
                   now, history>>

-----------------------------------------------------------------------------
(* delete_pin, for each pin of the plan: `latest` moves first *)

\* Mutants of NextLatest: forget to leave out the pin that goes, or to unlink
\* `latest` with the last one.
NextLatestOfAll(ns, others) == MaxOf(Stamps(ns))
NextLatestKept(ns, others) == IF others = {} THEN latest[ns] ELSE MaxOf(others)

\* What `latest` names when only the stamps `others` are left.
NextLatest(ns, others) == IF others = {} THEN 0 ELSE MaxOf(others)

Retarget ==
    /\ At(Pruner, "delete")
    /\ \E p \in plan.delete :
        /\ \A q \in plan.delete : q.ns = p.ns => p.stamp <= q.stamp
        /\ latest' = [latest EXCEPT ![p.ns] = NextLatest(p.ns, Stamps(p.ns) \ {p.stamp})]
        /\ plan' = [plan EXCEPT !.delete = @ \ {p}, !.doomed = {p}]
    /\ Goto(Pruner, "away")
    /\ UNCHANGED <<storeVars, pins, junk, keepVars, dropVars, lock, began, todo, cur,
                   stamp, known, waitVars, now, history>>

\* Renamed to .<stamp>.del: no longer a pin, still a root.
RenameAway ==
    /\ At(Pruner, "away")
    /\ pins' = pins \ plan.doomed
    /\ junk' = [ns \in Namespaces |->
            junk[ns] \cup UNION {p.targets : p \in {q \in plan.doomed : q.ns = ns}}]
    /\ Goto(Pruner, "purge")
    /\ UNCHANGED <<storeVars, latest, keepVars, dropVars, lock, runVars, waitVars,
                   now, history>>

Purge ==
    /\ At(Pruner, "purge")
    /\ junk' = [ns \in Namespaces |->
            IF \E p \in plan.doomed : p.ns = ns THEN {} ELSE junk[ns]]
    /\ plan' = [plan EXCEPT !.doomed = {}]
    /\ Goto(Pruner, "delete")
    /\ UNCHANGED <<storeVars, pins, latest, keepVars, dropVars, lock, began, todo, cur,
                   stamp, known, waitVars, now, history>>

\* OnSuccess starts cache-gc.
PassDone ==
    /\ At(Pruner, "delete")
    /\ plan.delete = {}
    /\ Leave(Pruner)
    /\ gcWanted' = TRUE
    /\ UNCHANGED <<asked, storeVars, pinVars, keepVars, dropVars, now, history>>

PassStep ==
    \/ StartPass \/ SweepAll \/ MakePlan
    \/ DropOrphans \/ LinkTop \/ ClearFinal \/ CommitKeep \/ DropOldKeep \/ KeepWritten
    \/ Retarget \/ RenameAway \/ Purge \/ PassDone

-----------------------------------------------------------------------------
(* cache-gc: flock <lock> nix-store --gc *)

Live == Closure(Roots)

\* nix deletes a dead path once no valid path references it.
Collectable(p) == p \in valid \ Live /\ \A q \in valid : p \notin Refs[q]

Remove(p) ==
    /\ valid' = valid \ {p}
    /\ fresh' = fresh \ {p}

StartGc ==
    /\ gcWanted
    /\ At(Gc, "idle")
    /\ Acquire(Gc, 0) /\ Goto(Gc, "collect")
    /\ UNCHANGED <<storeVars, pinVars, keepVars, dropVars, todo, cur, stamp, known,
                   plan, waitVars, now, history>>

\* Mutant of Collect: runs without the lock.
CollectUnlocked ==
    /\ gcWanted
    /\ \E p \in valid : Collectable(p) /\ Remove(p)
    /\ UNCHANGED <<pinVars, keepVars, dropVars, lock, pc, runVars, waitVars, now, history>>

Collect ==
    /\ At(Gc, "collect")
    /\ \E p \in valid : Collectable(p) /\ Remove(p)
    /\ UNCHANGED <<pinVars, keepVars, dropVars, lock, pc, runVars, waitVars, now, history>>

GcDone ==
    /\ At(Gc, "collect")
    /\ valid \subseteq Live
    /\ Leave(Gc)
    /\ gcWanted' = FALSE
    /\ UNCHANGED <<asked, storeVars, pinVars, keepVars, dropVars, now, history>>

GcStep == Collect \/ GcDone

=============================================================================
