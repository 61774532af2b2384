------------------------------- MODULE Importer -------------------------------
(***************************************************************************)
(* cache-importer (importer.py) and the pin it ends in (pins.pin).  One    *)
(* run takes the lock, handles every bundle it finds in incoming/ and      *)
(* leaves.  Whatever makes a bundle unacceptable (size caps, the manifest, *)
(* key binding, the size guard, an I/O error) is one outcome here:         *)
(* ImportFails.                                                            *)
(***************************************************************************)
EXTENDS HostState

\* The importer's control points inside import_bundle, where an exception is
\* caught and turns into a rejection.
Importing == {"check", "fetch", "copy", "verify", "sweep", "link", "rename", "latest"}
Rejecting == {"reason", "alert", "move"}

ImportNs == BundleNs[cur]

\* References of the bundled paths that CI left out and the host lacks.
Missing ==
    (UNION {Refs[p] : p \in BundlePaths[cur]}) \ (BundlePaths[cur] \cup valid)

\* New paths get a registration time, so they count as fresh.
Register(S) ==
    /\ valid' = valid \cup S
    /\ fresh' = fresh \cup (S \ valid)

\* The store takes a path only when its references are valid.
TakesIn(S) == Closed(valid \cup S) /\ Register(S)

-----------------------------------------------------------------------------
(* run: prune failed/, list incoming/, reject what exceeds max_pending, import *)

\* Started by the path unit while incoming/ holds a bundle.
Start(r) ==
    /\ At(r, "idle")
    /\ Incoming(r) # {}
    /\ Acquire(r, now) /\ Goto(r, "expire")
    /\ UNCHANGED <<storeVars, pinVars, keepVars, dropVars, todo, cur, stamp, known,
                   plan, waitVars, now, history>>

\* prune_failed goes by each file's own age; a bundle keeps its upload's.
Old(t) == began > t + FailedRetention
OldBundles(r) ==
    {b \in Bundles : bundle[b] = "failed" /\ Old(arrived[b]) /\ NsRepo[BundleNs[b]] = r}
OldReasons(r) ==
    {b \in Bundles : reason[b] # 0 /\ Old(reason[b]) /\ NsRepo[BundleNs[b]] = r}

DropBundle(r) ==
    /\ At(r, "expire")
    /\ \E b \in OldBundles(r) : bundle' = [bundle EXCEPT ![b] = "pruned"]
    /\ UNCHANGED <<storeVars, pinVars, keepVars, arrived, reason, alerted, lock, pc,
                   runVars, waitVars, now, history>>

DropReason(r) ==
    /\ At(r, "expire")
    /\ \E b \in OldReasons(r) : reason' = [reason EXCEPT ![b] = 0]
    /\ UNCHANGED <<storeVars, pinVars, keepVars, bundle, arrived, alerted, lock, pc,
                   runVars, waitVars, now, history>>

\* pending_bundles: the run handles what is in incoming/ now.
ListIncoming(r) ==
    /\ At(r, "expire")
    /\ OldBundles(r) = {} /\ OldReasons(r) = {}
    /\ todo' = Incoming(r)
    /\ Goto(r, "next")
    /\ UNCHANGED <<storeVars, pinVars, keepVars, dropVars, lock, began, cur, stamp,
                   known, plan, waitVars, now, history>>

\* Names sort by upload time, then by a process id nobody chose.  The first
\* MaxPending of them stay, the one behind them is rejected.
TakeExtra(r) ==
    /\ At(r, "next")
    /\ Cardinality(todo) > MaxPending
    /\ \E b \in todo : \E first \in SUBSET (todo \ {b}) :
        /\ Cardinality(first) = MaxPending
        /\ \A c \in first : arrived[c] <= arrived[b]
        /\ \A c \in todo \ first : arrived[b] <= arrived[c]
        /\ cur' = b
        /\ todo' = todo \ {b}
    /\ Goto(r, "reason")
    /\ UNCHANGED <<storeVars, pinVars, keepVars, dropVars, lock, began, stamp,
                   known, plan, waitVars, now, history>>

TakeNext(r) ==
    /\ At(r, "next")
    /\ Cardinality(todo) <= MaxPending
    /\ \E b \in todo :
        /\ \A c \in todo : arrived[b] <= arrived[c]
        /\ cur' = b
        /\ todo' = todo \ {b}
    /\ Goto(r, "check")
    /\ UNCHANGED <<storeVars, pinVars, keepVars, dropVars, lock, began, stamp,
                   known, plan, waitVars, now, history>>

\* Nothing left of the listing: what was uploaded meanwhile starts a new run.
Finish(r) ==
    /\ At(r, "next")
    /\ todo = {}
    /\ Leave(r)
    /\ UNCHANGED <<storeVars, pinVars, keepVars, dropVars, waitVars, now, history>>

-----------------------------------------------------------------------------
(* import_bundle *)

\* A root is either bundled or already valid: roots are never substituted.
Check(r) ==
    /\ At(r, "check")
    /\ BundleRoots[cur] \ BundlePaths[cur] \subseteq valid
    /\ Goto(r, "fetch")
    /\ UNCHANGED <<storeVars, pinVars, keepVars, dropVars, lock, runVars,
                   waitVars, now, history>>

\* realise: substitute the references CI left out.
Fetch(r) ==
    /\ At(r, "fetch")
    /\ Closure(Missing) \subseteq valid \cup Upstream
    /\ Register(Closure(Missing))
    /\ Goto(r, "copy")
    /\ UNCHANGED <<pinVars, keepVars, dropVars, lock, runVars, waitVars, now, history>>

\* copy_no_recursive: exactly the bundled paths.
Copy(r) ==
    /\ At(r, "copy")
    /\ TakesIn(BundlePaths[cur])
    /\ Goto(r, "verify")
    /\ UNCHANGED <<pinVars, keepVars, dropVars, lock, runVars, waitVars, now, history>>

\* The last look at the store before pinning (`still`).
Verify(r) ==
    /\ At(r, "verify")
    /\ BundleRoots[cur] \subseteq valid
    /\ Goto(r, "sweep")
    /\ UNCHANGED <<storeVars, pinVars, keepVars, dropVars, lock, runVars,
                   waitVars, now, history>>

-----------------------------------------------------------------------------
(* pins.pin: fill a temp directory, rename it, then move `latest` *)

SweepTemp(r) ==
    /\ At(r, "sweep")
    /\ junk' = [junk EXCEPT ![ImportNs] = {}]
    /\ Goto(r, "link")
    /\ UNCHANGED <<storeVars, pins, latest, keepVars, dropVars, lock, runVars,
                   waitVars, now, history>>

\* Mutant of AllLinked: the first link is enough.
AnyLinked(links) == links # {}

AllLinked(links) == BundleRoots[cur] \subseteq links

LinkRoot(r) ==
    /\ At(r, "link")
    /\ \E root \in BundleRoots[cur] \ junk[ImportNs] :
        junk' = [junk EXCEPT ![ImportNs] = @ \cup {root}]
    /\ Goto(r, IF AllLinked(junk'[ImportNs]) THEN "rename" ELSE "link")
    /\ UNCHANGED <<storeVars, pins, latest, keepVars, dropVars, lock, runVars,
                   waitVars, now, history>>

\* The pin is named by the run's time or, if taken, the next free second.
RenamePin(r) ==
    /\ At(r, "rename")
    /\ \E s \in {began} \cup {u + 1 : u \in Stamps(ImportNs)} :
        /\ s >= began
        /\ s \notin Stamps(ImportNs)
        /\ \A u \in began .. (s - 1) : u \in Stamps(ImportNs)
        /\ pins' = pins \cup
                {[ns |-> ImportNs, stamp |-> s, targets |-> junk[ImportNs]]}
        /\ stamp' = s
        /\ superseded' = [superseded EXCEPT ![ImportNs] = @ \ {s}]
    /\ junk' = [junk EXCEPT ![ImportNs] = {}]
    /\ Goto(r, "latest")
    /\ UNCHANGED <<storeVars, latest, keepVars, dropVars, lock, began, todo, cur,
                   known, plan, waitVars, now, lastDone>>

\* Mutant of SetLatest: leaves a link that is there.
SetFirstLatest(r) ==
    /\ At(r, "latest")
    /\ latest' = [latest EXCEPT ![ImportNs] = IF @ = 0 THEN stamp ELSE @]
    /\ lastDone' = [lastDone EXCEPT ![ImportNs] = stamp]
    /\ superseded' = [superseded EXCEPT ![ImportNs] = Stamps(ImportNs) \ {stamp}]
    /\ Goto(r, "unlink")
    /\ UNCHANGED <<storeVars, pins, junk, keepVars, dropVars, lock, runVars,
                   waitVars, now>>

SetLatest(r) ==
    /\ At(r, "latest")
    /\ latest' = [latest EXCEPT ![ImportNs] = stamp]
    /\ lastDone' = [lastDone EXCEPT ![ImportNs] = stamp]
    /\ superseded' = [superseded EXCEPT ![ImportNs] = Stamps(ImportNs) \ {stamp}]
    /\ Goto(r, "unlink")
    /\ UNCHANGED <<storeVars, pins, junk, keepVars, dropVars, lock, runVars,
                   waitVars, now>>

\* run: only now does the bundle leave incoming/.
Unlink(r) ==
    /\ At(r, "unlink")
    /\ bundle' = [bundle EXCEPT ![cur] = "done"]
    /\ cur' = NoBundle /\ stamp' = 0
    /\ Goto(r, "next")
    /\ UNCHANGED <<storeVars, pinVars, keepVars, arrived, reason, alerted, lock,
                   began, todo, known, plan, waitVars, now, history>>

-----------------------------------------------------------------------------
(* reject *)

\* A realise or copy that stops half way leaves what it got so far.
Interrupted(p) ==
    \/ At(p, "fetch") /\ \E S \in SUBSET (Closure(Missing) \cap Upstream) : TakesIn(S)
    \/ At(p, "copy") /\ \E S \in SUBSET BundlePaths[cur] : TakesIn(S)
    \/ pc[p] \notin {"fetch", "copy"} /\ UNCHANGED storeVars

\* Any exception in import_bundle.  pin() removes its temp directory, and a pin
\* already renamed stays.
ImportFails(r) ==
    /\ pc[r] \in Importing
    /\ Interrupted(r)
    /\ junk' = IF pc[r] \in {"link", "rename"}
               THEN [junk EXCEPT ![ImportNs] = {}] ELSE junk
    /\ stamp' = 0
    /\ Goto(r, "reason")
    /\ UNCHANGED <<pins, latest, keepVars, dropVars, lock, began, todo, cur,
                   known, plan, waitVars, now, history>>

\* Mutant of WriteReason: moves the bundle before the alert is queued.
MoveWithReason(r) ==
    /\ At(r, "reason")
    /\ reason' = [reason EXCEPT ![cur] = now]
    /\ bundle' = [bundle EXCEPT ![cur] = "failed"]
    /\ Goto(r, "alert")
    /\ UNCHANGED <<storeVars, pinVars, keepVars, arrived, alerted, lock,
                   runVars, waitVars, now, history>>

WriteReason(r) ==
    /\ At(r, "reason")
    /\ reason' = [reason EXCEPT ![cur] = now]
    /\ Goto(r, "alert")
    /\ UNCHANGED <<storeVars, pinVars, keepVars, bundle, arrived, alerted, lock,
                   runVars, waitVars, now, history>>

QueueAlert(r) ==
    /\ At(r, "alert")
    /\ alerted' = alerted \cup {cur}
    /\ Goto(r, "move")
    /\ UNCHANGED <<storeVars, pinVars, keepVars, bundle, arrived, reason, lock,
                   runVars, waitVars, now, history>>

\* Mutant of MoveToFailed: the bundle stays in incoming/.
LeaveInIncoming(r) ==
    /\ At(r, "move")
    /\ cur' = NoBundle
    /\ Goto(r, "next")
    /\ UNCHANGED <<storeVars, pinVars, keepVars, dropVars, lock, began, todo, stamp,
                   known, plan, waitVars, now, history>>

MoveToFailed(r) ==
    /\ At(r, "move")
    /\ bundle' = [bundle EXCEPT ![cur] = "failed"]
    /\ cur' = NoBundle
    /\ Goto(r, "next")
    /\ UNCHANGED <<storeVars, pinVars, keepVars, arrived, reason, alerted, lock,
                   began, todo, stamp, known, plan, waitVars, now, history>>

ImportStep(r) ==
    \/ DropBundle(r) \/ DropReason(r) \/ ListIncoming(r)
    \/ TakeExtra(r) \/ TakeNext(r) \/ Finish(r)
    \/ Check(r) \/ Fetch(r) \/ Copy(r) \/ Verify(r)
    \/ SweepTemp(r) \/ LinkRoot(r) \/ RenamePin(r) \/ SetLatest(r) \/ Unlink(r)
    \/ ImportFails(r) \/ WriteReason(r) \/ QueueAlert(r) \/ MoveToFailed(r)

=============================================================================
