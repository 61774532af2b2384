--------------------------- MODULE CacheRefinement ---------------------------
(***************************************************************************)
(* CacheHost implements Cache, for every store and any number of crashes,  *)
(* as long as only cache-gc collects.  The steps between two promised ones *)
(* (a root linked, a reason written) are made under the lock, so what the  *)
(* run at work has done so far can be told from its stage: StageInv.       *)
(* The last two sections need a clock that is not set back: why a rejected *)
(* bundle has its reason, and which pin of a namespace is current.         *)
(***************************************************************************)
EXTENDS CacheHostProofs

-----------------------------------------------------------------------------
(* What a run has done when it is where it is *)

Handling == Importing \cup Rejecting \cup {"unlink"}

\* The bundle at hand, and those still listed, have not left incoming/.
DropInv ==
    \A r \in Repos :
        /\ pc[r] \in Handling \cup {"next"} => \A b \in todo : bundle[b] = "incoming"
        /\ pc[r] \in Handling => bundle[cur] = "incoming" /\ cur \notin todo
        /\ pc[r] = "move" => cur \in alerted

\* The temp directory holds roots of the bundle, all of them when it is renamed.
MadePin == [ns |-> ImportNs, stamp |-> stamp, targets |-> BundleRoots[cur]]

MakingInv ==
    \A r \in Repos :
        /\ pc[r] = "link" => junk[ImportNs] \subseteq BundleRoots[cur]
        /\ pc[r] = "rename" => junk[ImportNs] = BundleRoots[cur]
        /\ pc[r] \in {"latest", "unlink"} => MadePin \in pins
        /\ pc[r] = "unlink" => latest[ImportNs] = stamp

\* delete_pin moved `latest` off the pin before it renames it.
DoomInv ==
    At(Pruner, "away") => \E p \in Pin : plan.doomed = {p} /\ latest[p.ns] # p.stamp

\* No run starts before the first second, so 0 is nobody's stamp.
ClockInv ==
    /\ 1 <= now
    /\ lock \in Repos => 1 <= began
    /\ \A p \in pins \cup plan.delete : 1 <= p.stamp

StageInv == DropInv /\ MakingInv /\ DoomInv /\ ClockInv
PromiseInv == RootedInv /\ StageInv /\ LatestNamesAPin /\ PinsWhole

-----------------------------------------------------------------------------
(* An importer's step is about its own stage only *)

LEMMA OneImporter ==
    ASSUME BaseInv, NEW r \in Repos, ImporterNext(r)
    PROVE  /\ lock \in {r, NoProc} /\ lock' \in {r, NoProc}
           /\ \A q \in Repos \ {r} : pc[q] \in {"idle", "wait"} /\ pc'[q] = pc[q]
           /\ pc[Pruner] \in {"idle", "wait"} /\ pc'[Pruner] = pc[Pruner]
  <1> USE ProcsAssumption DEF BaseInv, TypeInv, TypeOK, LockInv, Procs, At, Goto
  <1>1. CASE RunImporter(r)
    BY <1>1 DEF RunImporter, Start, Acquire
  <1>2. CASE ImportStep(r)
    <2>1. pc[r] \notin {"idle", "wait"}
      BY <1>2 DEF ImportStep, DropBundle, DropReason, ListIncoming, TakeExtra, TakeNext,
         Finish, Check, Fetch, Copy, Verify, SweepTemp, LinkRoot, RenamePin, SetLatest,
         Unlink, ImportFails, WriteReason, QueueAlert, MoveToFailed, Importing
    <2>2. lock = r
      BY <2>1
    <2>3. lock' = r \/ lock' = NoProc
      BY <1>2, <2>2 DEF ImportStep, DropBundle, DropReason, ListIncoming, TakeExtra,
         TakeNext, Finish, Leave, Check, Fetch, Copy, Verify, SweepTemp, LinkRoot,
         RenamePin, SetLatest, Unlink, ImportFails, WriteReason, QueueAlert, MoveToFailed
    <2>4. \A q \in Procs \ {r} : pc'[q] = pc[q]
      BY <1>2 DEF ImportStep, DropBundle, DropReason, ListIncoming, TakeExtra,
         TakeNext, Finish, Leave, Check, Fetch, Copy, Verify, SweepTemp, LinkRoot,
         RenamePin, SetLatest, Unlink, ImportFails, WriteReason, QueueAlert, MoveToFailed
    <2> QED
      BY <2>2, <2>3, <2>4
  <1> QED
    BY <1>1, <1>2 DEF ImporterNext

\* After a step that leaves no importer at work there is nothing to say of one.
LEMMA NoImporter ==
    ASSUME TypeInv', lock' \notin Repos
    PROVE  DropInv' /\ MakingInv'
  BY ProcsAssumption
  DEF TypeInv, TypeOK, LockInv, Procs, DropInv, MakingInv, Handling, Importing, Rejecting

LEMMA ImporterDrop ==
    ASSUME PromiseInv, NEW r \in Repos, ImporterNext(r)
    PROVE  DropInv'
  <1> USE ProcsAssumption, BundlesAssumption
      DEF PromiseInv, StageInv, RootedInv, BaseInv, TypeInv, TypeOK, Procs, At, Goto,
          storeVars, pinVars, keepVars, dropVars, runVars, waitVars, history
  <1>1. SUFFICES
            /\ pc'[r] \in Handling \cup {"next"} => \A b \in todo' : bundle'[b] = "incoming"
            /\ pc'[r] \in Handling => bundle'[cur'] = "incoming" /\ cur' \notin todo'
            /\ pc'[r] = "move" => cur' \in alerted'
    BY OneImporter DEF DropInv, Handling, Importing, Rejecting
  <1>2. /\ pc[r] \in Handling \cup {"next"} => \A b \in todo : bundle[b] = "incoming"
        /\ pc[r] \in Handling => bundle[cur] = "incoming" /\ cur \notin todo
        /\ pc[r] = "move" => cur \in alerted
    BY DEF DropInv
  <1>3. CASE RunImporter(r) \/ DropBundle(r) \/ DropReason(r) \/ Finish(r)
    BY <1>3 DEF RunImporter, Start, DropBundle, DropReason, Finish, Leave, Handling,
       Importing, Rejecting
  <1>4. CASE ListIncoming(r)
    BY <1>4 DEF ListIncoming, Incoming, Handling, Importing, Rejecting
  <1>5. CASE TakeExtra(r) \/ TakeNext(r)
    BY <1>2, <1>5 DEF TakeExtra, TakeNext, Handling, Importing, Rejecting
  <1>6. CASE \/ Check(r) \/ Fetch(r) \/ Copy(r) \/ Verify(r) \/ SweepTemp(r) \/ LinkRoot(r)
             \/ RenamePin(r) \/ SetLatest(r) \/ ImportFails(r) \/ WriteReason(r)
    <2>1. UNCHANGED <<todo, cur, bundle, alerted>> /\ pc[r] \in Handling
      BY <1>6 DEF Check, Fetch, Copy, Verify, SweepTemp, LinkRoot, RenamePin, SetLatest,
         ImportFails, WriteReason, Handling, Importing, Rejecting
    <2>2. pc'[r] # "move"
      BY <1>6 DEF Check, Fetch, Copy, Verify, SweepTemp, LinkRoot, RenamePin, SetLatest,
         ImportFails, WriteReason
    <2> QED
      BY <1>2, <2>1, <2>2
  <1>7. CASE QueueAlert(r)
    BY <1>2, <1>7 DEF QueueAlert, Handling, Importing, Rejecting
  <1>8. CASE Unlink(r) \/ MoveToFailed(r)
    <2>1. cur \in Bundles /\ cur \notin todo /\ \A b \in todo : bundle[b] = "incoming"
      BY <1>2, <1>8 DEF Unlink, MoveToFailed, CurInv, Handling, Rejecting
    <2>2. todo' = todo /\ pc'[r] = "next" /\ \A b \in todo : bundle'[b] = bundle[b]
      BY <1>8, <2>1 DEF Unlink, MoveToFailed
    <2> QED
      BY <2>1, <2>2 DEF Handling, Importing, Rejecting
  <1> QED
    BY <1>3, <1>4, <1>5, <1>6, <1>7, <1>8 DEF ImporterNext, ImportStep

LEMMA ImporterMaking ==
    ASSUME PromiseInv, NEW r \in Repos, ImporterNext(r)
    PROVE  MakingInv'
  <1> USE ProcsAssumption, BundlesAssumption
      DEF PromiseInv, StageInv, RootedInv, BaseInv, TypeInv, TypeOK, Procs, At, Goto,
          storeVars, pinVars, keepVars, dropVars, runVars, waitVars, history
  <1>1. SUFFICES
            /\ pc'[r] = "link" => junk'[ImportNs'] \subseteq BundleRoots[cur']
            /\ pc'[r] = "rename" => junk'[ImportNs'] = BundleRoots[cur']
            /\ pc'[r] \in {"latest", "unlink"} => MadePin' \in pins'
            /\ pc'[r] = "unlink" => latest'[ImportNs'] = stamp'
    BY OneImporter DEF MakingInv
  <1>2. /\ pc[r] = "link" => junk[ImportNs] \subseteq BundleRoots[cur]
        /\ pc[r] = "rename" => junk[ImportNs] = BundleRoots[cur]
        /\ pc[r] \in {"latest", "unlink"} => MadePin \in pins
    BY DEF MakingInv
  <1>3. pc[r] \in Importing => cur \in Bundles /\ ImportNs \in Namespaces
    BY DEF CurInv, ImportNs
  <1>4. CASE SweepTemp(r)
    <2>1. cur' = cur /\ junk'[ImportNs] = {} /\ pc'[r] = "link"
      BY <1>3, <1>4 DEF SweepTemp, Importing
    <2> QED
      BY <2>1 DEF ImportNs
  <1>5. CASE LinkRoot(r)
    <2>1. PICK root \in BundleRoots[cur] : junk' = [junk EXCEPT ![ImportNs] = @ \cup {root}]
      BY <1>5 DEF LinkRoot
    <2>2. cur' = cur /\ ImportNs' = ImportNs /\ ImportNs \in Namespaces
      BY <1>3, <1>5 DEF LinkRoot, ImportNs, Importing
    <2>3. junk'[ImportNs] \subseteq BundleRoots[cur]
      BY <1>2, <1>5, <2>1, <2>2 DEF LinkRoot
    <2>4. /\ pc'[r] = "rename" => BundleRoots[cur] \subseteq junk'[ImportNs]
          /\ pc'[r] \in {"link", "rename"}
      BY <1>5, <2>2 DEF LinkRoot, AllLinked
    <2> QED
      BY <2>2, <2>3, <2>4
  <1>6. CASE RenamePin(r)
    <2>1. MadePin' \in pins'
      BY <1>2, <1>6 DEF RenamePin, MadePin, ImportNs
    <2> QED
      BY <1>6, <2>1 DEF RenamePin
  <1>7. CASE SetLatest(r)
    <2>1. MadePin' = MadePin /\ pins' = pins /\ pc'[r] = "unlink"
      BY <1>7 DEF SetLatest, MadePin, ImportNs
    <2>2. latest'[ImportNs'] = stamp'
      BY <1>3, <1>7 DEF SetLatest, ImportNs, Importing
    <2> QED
      BY <1>2, <1>7, <2>1, <2>2 DEF SetLatest
  <1>8. CASE \/ RunImporter(r) \/ DropBundle(r) \/ DropReason(r) \/ ListIncoming(r)
             \/ TakeExtra(r) \/ TakeNext(r) \/ Finish(r) \/ Check(r) \/ Fetch(r)
             \/ Copy(r) \/ Verify(r) \/ Unlink(r) \/ ImportFails(r) \/ WriteReason(r)
             \/ QueueAlert(r) \/ MoveToFailed(r)
    <2>1. pc'[r] \notin {"link", "rename", "latest", "unlink"}
      BY <1>8 DEF RunImporter, Start, DropBundle, DropReason, ListIncoming, TakeExtra,
         TakeNext, Finish, Leave, Check, Fetch, Copy, Verify, Unlink, ImportFails,
         WriteReason, QueueAlert, MoveToFailed
    <2> QED
      BY <2>1
  <1> QED
    BY <1>4, <1>5, <1>6, <1>7, <1>8 DEF ImporterNext, ImportStep

\* Nobody else's step happens while an importer is at work.
LEMMA OthersStage ==
    ASSUME PromiseInv, TypeInv', PrunerNext \/ GcNext
    PROVE  DropInv' /\ MakingInv'
  <1>1. CASE TimerFires
    <2>1. /\ \A r \in Repos : pc'[r] = pc[r]
          /\ UNCHANGED <<dropVars, pinVars, runVars>>
      BY <1>1, ProcsAssumption
      DEF TimerFires, AskPass, Goto, PromiseInv, RootedInv, BaseInv, TypeInv, TypeOK, Procs
    <2>2. ImportNs' = ImportNs /\ MadePin' = MadePin
      BY <2>1 DEF ImportNs, MadePin, runVars
    <2> QED
      BY <2>1, <2>2
      DEF PromiseInv, StageInv, DropInv, MakingInv, dropVars, pinVars, runVars
  <1>2. CASE ~ TimerFires
    <2>1. lock' \notin Repos
      BY <1>2, ProcsAssumption
      DEF PromiseInv, RootedInv, BaseInv, TypeInv, TypeOK, LockInv, Procs, At, Goto,
          PrunerNext, PassStep, StartPass, SweepAll, MakePlan, DropOrphans, LinkTop,
          ClearFinal, CommitKeep, DropOldKeep, KeepWritten, Retarget, RenameAway, Purge,
          PassDone, GcNext, StartGc, GcStep, Collect, GcDone, Acquire, Leave
    <2> QED
      BY <2>1, NoImporter
  <1> QED
    BY <1>1, <1>2

LEMMA EnvironmentStage ==
    ASSUME PromiseInv, TypeInv', Environment
    PROVE  DropInv' /\ MakingInv'
  <1> USE DEF PromiseInv, StageInv, RootedInv, BaseInv
  <1>1. CASE \E p \in Procs : Crash(p)
    <2>1. lock' \notin Repos
      BY <1>1, ProcsAssumption DEF Crash, Leave, Procs
    <2> QED
      BY <2>1, NoImporter
  <1>2. CASE ~ \E p \in Procs : Crash(p)
    <2>1. /\ \A r \in Repos : pc'[r] = pc[r]
          /\ UNCHANGED <<alerted, pinVars, runVars>>
      BY <1>2, ProcsAssumption
      DEF Environment, Upload, Tick, SetBack, Probe, GiveUp, AutoCollect, Goto, dropVars,
          pinVars, keepVars, runVars, TypeInv, TypeOK, Procs
    <2>2. \A b \in Bundles : bundle[b] = "incoming" => bundle'[b] = "incoming"
      BY <1>2
      DEF Environment, Upload, Tick, SetBack, Probe, GiveUp, AutoCollect, dropVars,
          TypeInv, TypeOK
    <2>3. ImportNs' = ImportNs /\ MadePin' = MadePin
      BY <2>1 DEF ImportNs, MadePin, runVars
    <2>4. MakingInv'
      BY <2>1, <2>3 DEF MakingInv, pinVars, runVars
    <2>5. \A r \in Repos : pc[r] \in Handling => cur \in Bundles
      BY DEF TypeInv, CurInv, Handling
    <2>6. todo \subseteq Bundles
      BY DEF TypeInv, TypeOK
    <2>7. DropInv'
      BY <2>1, <2>2, <2>5, <2>6 DEF DropInv, runVars
    <2> QED
      BY <2>4, <2>7
  <1> QED
    BY <1>1, <1>2

LEMMA DoomNext ==
    ASSUME PromiseInv, [Next]_allVars
    PROVE  DoomInv'
  <1> USE ProcsAssumption
      DEF PromiseInv, StageInv, RootedInv, BaseInv, TypeInv, TypeOK, Procs, At, Goto,
          storeVars, pinVars, keepVars, dropVars, runVars, waitVars, history, vars, counters
  <1>1. ASSUME NEW r \in Repos, ImporterNext(r)
        PROVE  DoomInv'
    BY <1>1, OneImporter DEF DoomInv
  <1>2. CASE Retarget
    <2>1. PICK p \in plan.delete :
            /\ latest' = [latest EXCEPT ![p.ns] = NextLatest(p.ns, Stamps(p.ns) \ {p.stamp})]
            /\ plan' = [plan EXCEPT !.delete = @ \ {p}, !.doomed = {p}]
      BY <1>2 DEF Retarget
    <2>2. p \in Pin /\ p.ns \in Namespaces /\ plan'.doomed = {p}
      BY <2>1 DEF Plan, Pin
    <2>3. Stamps(p.ns) \ {p.stamp} # {} =>
            MaxOf(Stamps(p.ns) \ {p.stamp}) \in Stamps(p.ns) \ {p.stamp}
      BY StampsHaveMax
    <2>4. 0 # p.stamp
      BY <2>1, <2>2 DEF ClockInv, Pin
    <2>5. latest'[p.ns] # p.stamp
      BY <2>1, <2>2, <2>3, <2>4 DEF NextLatest
    <2> QED
      BY <2>2, <2>5 DEF DoomInv
  <1>3. CASE PrunerNext /\ ~ Retarget
    <2>1. pc'[Pruner] # "away"
      BY <1>3
      DEF PrunerNext, TimerFires, AskPass, PassStep, StartPass, SweepAll, MakePlan,
          DropOrphans, LinkTop, ClearFinal, CommitKeep, DropOldKeep, KeepWritten,
          RenameAway, Purge, PassDone, Leave
    <2> QED
      BY <2>1 DEF DoomInv
  <1>4. CASE GcNext \/ Environment \/ UNCHANGED allVars
    <2>1. pc'[Pruner] \in {pc[Pruner], "idle"} /\ latest' = latest
      BY <1>4
      DEF GcNext, StartGc, GcStep, Collect, GcDone, Leave, Environment, Upload, Tick,
          SetBack, Probe, Crash, GiveUp, AutoCollect, allVars
    <2>2. pc'[Pruner] = "away" => plan' = plan
      BY <1>4
      DEF GcNext, StartGc, GcStep, Collect, GcDone, Leave, Environment, Upload, Tick,
          SetBack, Probe, Crash, GiveUp, AutoCollect, allVars, LockInv
    <2> QED
      BY <2>1, <2>2 DEF DoomInv
  <1> QED
    BY <1>1, <1>2, <1>3, <1>4 DEF Next

LEMMA ClockNext ==
    ASSUME PromiseInv, [Next]_allVars
    PROVE  ClockInv'
  <1> USE ProcsAssumption
      DEF PromiseInv, StageInv, RootedInv, BaseInv, TypeInv, TypeOK, Procs, At, Goto,
          storeVars, pinVars, keepVars, dropVars, runVars, waitVars, history, vars, counters
  <1>1. 1 <= now /\ (lock \in Repos => 1 <= began)
    BY DEF ClockInv
  <1>2. \A p \in pins \cup plan.delete : 1 <= p.stamp
    BY DEF ClockInv
  <1>3. 1 <= now'
    <2>1. CASE Tick
      BY <1>1, <2>1 DEF Tick
    <2>2. CASE SetBack
      BY <1>1, <2>2 DEF SetBack
    <2>3. CASE ~ Tick /\ ~ SetBack
      <3>1. now' = now
        BY <2>3
        DEF Next, ImporterNext, RunImporter, Start, ImportStep, DropBundle, DropReason,
            ListIncoming, TakeExtra, TakeNext, Finish, Leave, Check, Fetch, Copy, Verify,
            SweepTemp, LinkRoot, RenamePin, SetLatest, Unlink, ImportFails, WriteReason,
            QueueAlert, MoveToFailed, PrunerNext, TimerFires, AskPass, PassStep, StartPass,
            SweepAll, MakePlan, DropOrphans, LinkTop, ClearFinal, CommitKeep, DropOldKeep,
            KeepWritten, Retarget, RenameAway, Purge, PassDone, GcNext, StartGc, GcStep,
            Collect, GcDone, Environment, Upload, Probe, Crash, GiveUp, AutoCollect, allVars
      <3> QED
        BY <1>1, <3>1
    <2> QED
      BY <2>1, <2>2, <2>3
  <1>4. lock' \in Repos => 1 <= began'
    <2>1. ASSUME NEW r \in Repos, ImporterNext(r)
          PROVE  lock' \in Repos => 1 <= began'
      <3>1. CASE RunImporter(r)
        BY <1>1, <3>1 DEF RunImporter, Start, Acquire
      <3>2. CASE ImportStep(r) /\ ~ Finish(r)
        BY <1>1, <3>2
        DEF ImportStep, DropBundle, DropReason, ListIncoming, TakeExtra, TakeNext, Check,
            Fetch, Copy, Verify, SweepTemp, LinkRoot, RenamePin, SetLatest, Unlink,
            ImportFails, WriteReason, QueueAlert, MoveToFailed
      <3>3. CASE Finish(r)
        BY <3>3 DEF Finish, Leave
      <3> QED
        BY <2>1, <3>1, <3>2, <3>3 DEF ImporterNext
    <2>2. CASE PrunerNext \/ GcNext
      BY <1>1, <2>2
      DEF PrunerNext, TimerFires, AskPass, PassStep, StartPass, SweepAll, MakePlan,
          DropOrphans, LinkTop, ClearFinal, CommitKeep, DropOldKeep, KeepWritten, Retarget,
          RenameAway, Purge, PassDone, GcNext, StartGc, GcStep, Collect, GcDone, Acquire,
          Leave
    <2>3. CASE Environment \/ UNCHANGED allVars
      BY <1>1, <2>3
      DEF Environment, Upload, Tick, SetBack, Probe, Crash, Leave, GiveUp, AutoCollect,
          allVars
    <2> QED
      BY <2>1, <2>2, <2>3 DEF Next
  <1>5. \A p \in pins' \cup plan'.delete : 1 <= p.stamp
    <2>1. ASSUME NEW r \in Repos, RenamePin(r)
          PROVE  \A p \in pins' \cup plan'.delete : 1 <= p.stamp
      <3>1. PICK s \in {began} \cup {u + 1 : u \in Stamps(ImportNs)} :
              /\ s >= began
              /\ pins' = pins \cup
                    {[ns |-> ImportNs, stamp |-> s, targets |-> junk[ImportNs]]}
        BY <2>1 DEF RenamePin
      <3>2. s \in Nat
        BY <3>1, StampsAreNat
      <3>3. 1 <= s
        BY <1>1, <2>1, <3>1, <3>2 DEF RenamePin, LockInv
      <3>4. plan' = plan
        BY <2>1 DEF RenamePin
      <3> QED
        BY <1>2, <3>1, <3>3, <3>4
    <2>2. CASE MakePlan
      BY <1>2, <2>2 DEF MakePlan
    <2>3. CASE ~ MakePlan /\ ~ \E r \in Repos : RenamePin(r)
      <3>1. pins' \subseteq pins
        BY <2>3
        DEF Next, ImporterNext, RunImporter, Start, ImportStep, DropBundle, DropReason,
            ListIncoming, TakeExtra, TakeNext, Finish, Leave, Check, Fetch, Copy, Verify,
            SweepTemp, LinkRoot, SetLatest, Unlink, ImportFails, WriteReason,
            QueueAlert, MoveToFailed, PrunerNext, TimerFires, AskPass, PassStep, StartPass,
            SweepAll, DropOrphans, LinkTop, ClearFinal, CommitKeep, DropOldKeep,
            KeepWritten, Retarget, RenameAway, Purge, PassDone, GcNext, StartGc, GcStep,
            Collect, GcDone, Environment, Upload, Tick, SetBack, Probe, Crash, GiveUp,
            AutoCollect, allVars
      <3>2. plan' \in {plan, EmptyPlan} \/ Retarget \/ Purge
        BY <2>3
        DEF Next, ImporterNext, RunImporter, Start, ImportStep, DropBundle, DropReason,
            ListIncoming, TakeExtra, TakeNext, Finish, Leave, Check, Fetch, Copy, Verify,
            SweepTemp, LinkRoot, SetLatest, Unlink, ImportFails, WriteReason,
            QueueAlert, MoveToFailed, PrunerNext, TimerFires, AskPass, PassStep, StartPass,
            SweepAll, DropOrphans, LinkTop, ClearFinal, CommitKeep, DropOldKeep,
            KeepWritten, RenameAway, PassDone, GcNext, StartGc, GcStep,
            Collect, GcDone, Environment, Upload, Tick, SetBack, Probe, Crash, GiveUp,
            AutoCollect, allVars
      <3>3. plan'.delete \subseteq plan.delete
        <4>1. CASE plan' \in {plan, EmptyPlan}
          BY <4>1 DEF EmptyPlan
        <4>2. CASE Retarget
          <5>1. PICK p \in plan.delete :
                  plan' = [plan EXCEPT !.delete = @ \ {p}, !.doomed = {p}]
            BY <4>2 DEF Retarget
          <5> QED
            BY <5>1 DEF Plan
        <4>3. CASE Purge
          BY <4>3 DEF Purge, Plan
        <4> QED
          BY <3>2, <4>1, <4>2, <4>3
      <3> QED
        BY <1>2, <3>1, <3>3
    <2> QED
      BY <2>1, <2>2, <2>3
  <1> QED
    BY <1>3, <1>4, <1>5 DEF ClockInv

-----------------------------------------------------------------------------
(* Pins *)

LEMMA PointersNext ==
    ASSUME PromiseInv, [Next]_allVars
    PROVE  LatestNamesAPin'
  <1> USE DEF PromiseInv, StageInv, RootedInv, BaseInv, TypeInv, TypeOK, At, Goto,
          storeVars, pinVars, keepVars, dropVars, runVars, waitVars, history, vars, counters
  <1>1. \A ns \in Namespaces : latest[ns] # 0 => latest[ns] \in Stamps(ns)
    BY DEF LatestNamesAPin
  <1>2. ASSUME pins \subseteq pins'
        PROVE  \A ns : Stamps(ns) \subseteq Stamps(ns)'
    BY <1>2 DEF Stamps
  <1>3. ASSUME NEW r \in Repos, SetLatest(r)
        PROVE  LatestNamesAPin'
    <2>1. MadePin \in pins
      BY <1>3 DEF SetLatest, MakingInv
    <2>2. stamp \in Stamps(ImportNs)
      BY <2>1 DEF MadePin, Stamps
    <2>3. \A ns \in Namespaces : Stamps(ns)' = Stamps(ns)
      BY <1>3 DEF SetLatest, Stamps
    <2> QED
      BY <1>1, <1>3, <2>2, <2>3 DEF SetLatest, LatestNamesAPin
  <1>4. CASE Retarget
    <2>1. PICK p \in plan.delete :
            latest' = [latest EXCEPT ![p.ns] = NextLatest(p.ns, Stamps(p.ns) \ {p.stamp})]
      BY <1>4 DEF Retarget
    <2>2. Stamps(p.ns) \ {p.stamp} # {} =>
            MaxOf(Stamps(p.ns) \ {p.stamp}) \in Stamps(p.ns) \ {p.stamp}
      BY StampsHaveMax
    <2>3. latest'[p.ns] # 0 => latest'[p.ns] \in Stamps(p.ns)
      BY <2>1, <2>2 DEF NextLatest, Plan, Pin
    <2>4. \A ns \in Namespaces : Stamps(ns)' = Stamps(ns)
      BY <1>4 DEF Retarget, Stamps
    <2> QED
      BY <1>1, <2>1, <2>3, <2>4 DEF LatestNamesAPin
  <1>5. CASE RenameAway
    <2>1. PICK p \in Pin : plan.doomed = {p} /\ latest[p.ns] # p.stamp
      BY <1>5 DEF RenameAway, DoomInv
    <2>2. pins' = pins \ {p} /\ latest' = latest
      BY <1>5, <2>1 DEF RenameAway
    <2>3. ASSUME NEW ns \in Namespaces, latest[ns] # 0
          PROVE  latest[ns] \in Stamps(ns)'
      <3>1. PICK q \in pins : q.ns = ns /\ q.stamp = latest[ns]
        BY <1>1, <2>3 DEF Stamps
      <3>2. q \in pins'
        BY <2>1, <2>2, <3>1
      <3> QED
        BY <3>1, <3>2 DEF Stamps
    <2> QED
      BY <2>2, <2>3 DEF LatestNamesAPin
  <1>6. CASE ~ RenameAway /\ ~ Retarget /\ ~ \E r \in Repos : SetLatest(r)
    <2>1. pins \subseteq pins' /\ latest' = latest
      BY <1>6
      DEF Next, ImporterNext, RunImporter, Start, ImportStep, DropBundle, DropReason,
          ListIncoming, TakeExtra, TakeNext, Finish, Leave, Check, Fetch, Copy, Verify,
          SweepTemp, LinkRoot, RenamePin, Unlink, ImportFails, WriteReason,
          QueueAlert, MoveToFailed, PrunerNext, TimerFires, AskPass, PassStep, StartPass,
          SweepAll, MakePlan, DropOrphans, LinkTop, ClearFinal, CommitKeep, DropOldKeep,
          KeepWritten, Purge, PassDone, GcNext, StartGc, GcStep, Collect, GcDone,
          Environment, Upload, Tick, SetBack, Probe, Crash, GiveUp, AutoCollect, allVars
    <2> QED
      BY <1>1, <1>2, <2>1 DEF LatestNamesAPin
  <1> QED
    BY <1>3, <1>4, <1>5, <1>6

LEMMA WholeNext ==
    ASSUME PromiseInv, [Next]_allVars
    PROVE  PinsWhole'
  <1> USE DEF PromiseInv, StageInv, RootedInv, BaseInv, TypeInv, At, Goto,
          storeVars, pinVars, keepVars, dropVars, runVars, waitVars, history, vars, counters
  <1>1. ASSUME NEW r \in Repos, RenamePin(r)
        PROVE  PinsWhole'
    <2>1. cur \in Bundles /\ junk[ImportNs] = BundleRoots[cur] /\ ImportNs = BundleNs[cur]
      BY <1>1 DEF RenamePin, CurInv, Importing, MakingInv, ImportNs
    <2> QED
      BY <1>1, <2>1 DEF RenamePin, PinsWhole
  <1>2. CASE ~ \E r \in Repos : RenamePin(r)
    <2>1. pins' \subseteq pins
      BY <1>2
      DEF Next, ImporterNext, RunImporter, Start, ImportStep, DropBundle, DropReason,
          ListIncoming, TakeExtra, TakeNext, Finish, Leave, Check, Fetch, Copy, Verify,
          SweepTemp, LinkRoot, SetLatest, Unlink, ImportFails, WriteReason,
          QueueAlert, MoveToFailed, PrunerNext, TimerFires, AskPass, PassStep, StartPass,
          SweepAll, MakePlan, DropOrphans, LinkTop, ClearFinal, CommitKeep, DropOldKeep,
          KeepWritten, Retarget, RenameAway, Purge, PassDone, GcNext, StartGc, GcStep,
          Collect, GcDone, Environment, Upload, Tick, SetBack, Probe, Crash, GiveUp,
          AutoCollect, allVars
    <2> QED
      BY <2>1 DEF PinsWhole
  <1> QED
    BY <1>1, <1>2

LEMMA PromiseInit == InitAll => PromiseInv
  <1> SUFFICES ASSUME InitAll PROVE PromiseInv
    OBVIOUS
  <1>1. DropInv /\ MakingInv /\ DoomInv /\ ClockInv
    BY ProcsAssumption
    DEF InitAll, Init, DropInv, MakingInv, DoomInv, ClockInv, Handling, Importing,
        Rejecting, Procs, At, EmptyPlan
  <1>2. LatestNamesAPin /\ PinsWhole
    BY DEF InitAll, Init, LatestNamesAPin, PinsWhole
  <1> QED
    BY <1>1, <1>2, RootedInit DEF PromiseInv, StageInv

LEMMA PromiseInvNext ==
    ASSUME PromiseInv, [Next]_allVars, ~ AutoGc
    PROVE  PromiseInv'
  <1>1. RootedInv' /\ TypeInv'
    BY RootedNext DEF PromiseInv, RootedInv, BaseInv
  <1>2. DropInv' /\ MakingInv'
    <2>1. ASSUME NEW r \in Repos, ImporterNext(r)
          PROVE  DropInv' /\ MakingInv'
      BY <2>1, ImporterDrop, ImporterMaking
    <2>2. CASE PrunerNext \/ GcNext
      BY <1>1, <2>2, OthersStage
    <2>3. CASE Environment
      BY <1>1, <2>3, EnvironmentStage
    <2>4. CASE UNCHANGED allVars
      BY <2>4
      DEF allVars, vars, pinVars, dropVars, runVars, PromiseInv, StageInv, DropInv,
          MakingInv, MadePin, ImportNs
    <2> QED
      BY <2>1, <2>2, <2>3, <2>4 DEF Next
  <1> QED
    BY <1>1, <1>2, DoomNext, ClockNext, PointersNext, WholeNext DEF PromiseInv, StageInv

LEMMA PromiseInvariant ==
    ASSUME ~ AutoGc
    PROVE  Spec => []PromiseInv
  <1>1. PromiseInv /\ [Next]_allVars => PromiseInv'
    BY PromiseInvNext
  <1> QED
    BY <1>1, PromiseInit, PTL DEF Spec

\* `latest` names a pin or does not exist, whoever died between two of its moves.
THEOREM LatestNeverDangles ==
    ASSUME ~ AutoGc
    PROVE  Spec => []LatestNamesAPin
  <1>1. PromiseInv => LatestNamesAPin
    BY DEF PromiseInv
  <1> QED
    BY <1>1, PromiseInvariant, PTL

\* No pin is ever partial, whoever died while it was filled or taken away.
THEOREM PinsStayWhole ==
    ASSUME ~ AutoGc
    PROVE  Spec => []PinsWhole
  <1>1. PromiseInv => PinsWhole
    BY DEF PromiseInv
  <1> QED
    BY <1>1, PromiseInvariant, PTL

-----------------------------------------------------------------------------
(* Every step is a promised one *)

\* Cache speaks of the same graph, pins and requests.
LEMMA SameTerms ==
    /\ \A S : Promise!Closed(S) <=> Closed(S)
    /\ \A S : Promise!Closure(S) = Closure(S)
    /\ Promise!Pinned = PinRoots
    /\ \A ns : Promise!StampsOf(ns) = Stamps(ns)
  <1>1. \A S : Promise!Closed(S) <=> Closed(S)
    BY DEF Promise!Closed, Closed
  <1>2. Promise!ClosedSets = ClosedSets
    BY <1>1 DEF Promise!ClosedSets, ClosedSets
  <1>3. \A S : Promise!Closure(S) = Closure(S)
    BY <1>2 DEF Promise!Closure, Closure
  <1> QED
    BY <1>1, <1>3 DEF Promise!Pinned, PinRoots, Promise!StampsOf, Stamps

LEMMA Unseen ==
    ASSUME UNCHANGED <<valid, pins, latest, bundle, alerted>>
    PROVE  [Promise!CacheNext]_(Promise!cacheVars)
  BY DEF Promise!cacheVars

\* Whatever an import takes in is part of what its bundle needs.
LEMMA Added ==
    ASSUME NEW b \in Bundles, bundle[b] = "incoming",
           NEW S, valid' = valid \cup S, S \subseteq Closure(BundlePaths[b]),
           Closed(valid \cup S), UNCHANGED <<pins, latest, bundle, alerted>>
    PROVE  Promise!CacheNext
  <1>1. valid' \ valid \subseteq Closure(BundlePaths[b])
    OBVIOUS
  <1>2. valid \cup (valid' \ valid) = valid' /\ valid' = valid \cup S
    OBVIOUS
  <1>3. Promise!Add(b, valid' \ valid)
    BY <1>1, <1>2, SameTerms DEF Promise!Add, Promise!Open
  <1> QED
    BY <1>3 DEF Promise!CacheNext

LEMMA MissingIsNeeded ==
    ASSUME cur \in Bundles
    PROVE  /\ Closure(Missing) \subseteq Closure(BundlePaths[cur])
           /\ BundlePaths[cur] \subseteq Closure(BundlePaths[cur])
  <1>1. BundlePaths[cur] \subseteq Closure(BundlePaths[cur])
    BY BundlesAssumption, ClosureContains
  <1>2. Missing \subseteq Closure(BundlePaths[cur])
    BY <1>1, ClosureIsClosed DEF Missing, ClosedSets, Closed
  <1> QED
    BY <1>1, <1>2, ClosureIsClosed, ClosureIsLeast

LEMMA InterruptedAdds ==
    ASSUME PromiseInv, NEW r \in Repos, pc[r] \in Handling \/ UNCHANGED storeVars,
           Interrupted(r), UNCHANGED <<pins, latest, bundle, alerted>>
    PROVE  [Promise!CacheNext]_(Promise!cacheVars)
  <1>1. CASE UNCHANGED storeVars
    BY <1>1, Unseen DEF storeVars
  <1>2. CASE pc[r] \in {"fetch", "copy"} /\ ~ UNCHANGED storeVars
    <2>1. cur \in Bundles /\ bundle[cur] = "incoming"
      BY <1>2
      DEF PromiseInv, RootedInv, BaseInv, TypeInv, CurInv, StageInv, DropInv, Handling,
          Importing
    <2>2. PICK S : TakesIn(S) /\ S \subseteq Closure(Missing) \cup BundlePaths[cur]
      BY <1>2 DEF Interrupted, At
    <2>3. S \subseteq Closure(BundlePaths[cur])
      BY <2>1, <2>2, MissingIsNeeded
    <2> QED
      BY <2>1, <2>2, <2>3, Added DEF TakesIn, Register
  <1> QED
    BY <1>1, <1>2 DEF Interrupted, At

LEMMA ImporterPromised ==
    ASSUME PromiseInv, NEW r \in Repos, ImporterNext(r)
    PROVE  [Promise!CacheNext]_(Promise!cacheVars)
  <1> USE ProcsAssumption, BundlesAssumption
      DEF PromiseInv, StageInv, RootedInv, BaseInv, TypeInv, At, Goto, storeVars, pinVars,
          keepVars, dropVars, runVars, waitVars, history
  <1>1. pc[r] \in Handling => cur \in Bundles /\ bundle[cur] = "incoming"
    BY DEF DropInv, CurInv, Handling
  <1>2. CASE DropBundle(r)
    <2>1. PICK b \in Bundles : bundle[b] = "failed" /\ bundle' = [bundle EXCEPT ![b] = "pruned"]
      BY <1>2 DEF DropBundle, OldBundles
    <2>2. Promise!Forget(b)
      BY <1>2, <2>1 DEF DropBundle, Promise!Forget
    <2> QED
      BY <2>2 DEF Promise!CacheNext
  <1>3. CASE Fetch(r)
    <2>1. cur \in Bundles /\ bundle[cur] = "incoming"
      BY <1>1, <1>3 DEF Fetch, Handling, Importing
    <2> QED
      BY <1>3, <2>1, MissingIsNeeded, FetchFits, Added DEF Fetch, Register
  <1>4. CASE Copy(r)
    <2>1. cur \in Bundles /\ bundle[cur] = "incoming"
      BY <1>1, <1>4 DEF Copy, Handling, Importing
    <2> QED
      BY <1>4, <2>1, MissingIsNeeded, Added DEF Copy, TakesIn, Register
  <1>5. CASE RenamePin(r)
    <2>1. cur \in Bundles /\ bundle[cur] = "incoming" /\ junk[ImportNs] = BundleRoots[cur]
      BY <1>1, <1>5 DEF RenamePin, Handling, Importing, MakingInv
    <2>2. PICK s : /\ s \notin Stamps(ImportNs)
                   /\ pins' = pins \cup
                        {[ns |-> ImportNs, stamp |-> s, targets |-> BundleRoots[cur]]}
      BY <1>5, <2>1 DEF RenamePin
    <2>3. Closure(BundleRoots[cur]) \subseteq valid
      <3>1. BundleRoots[cur] \subseteq valid /\ valid \in ClosedSets
        BY <1>5 DEF RenamePin, ImportInv, StoreInv, ClosedSets, TypeOK
      <3> QED
        BY <3>1, ClosureIsLeast
    <2>4. BundleRoots[cur] # {}
      BY <2>1
    <2>5. Promise!PinRootsOf(cur, s)
      BY <1>5, <2>1, <2>2, <2>3, <2>4, SameTerms
      DEF RenamePin, ImportNs, Promise!PinRootsOf, Promise!Open
    <2>6. \E p \in pins' : Promise!PinRootsOf(cur, p.stamp)
      <3> DEFINE new == [ns |-> ImportNs, stamp |-> s, targets |-> BundleRoots[cur]]
      <3>1. new \in pins' /\ new.stamp = s
        BY <2>2
      <3> QED
        BY <2>5, <3>1
    <2> QED
      BY <2>1, <2>6 DEF Promise!CacheNext
  <1>6. CASE SetLatest(r)
    <2>1. MadePin \in pins
      BY <1>6 DEF SetLatest, MakingInv
    <2>2. ImportNs \in Namespaces /\ stamp \in Stamps(ImportNs)
      BY <1>1, <1>6, <2>1 DEF SetLatest, Handling, Importing, ImportNs, MadePin, Stamps
    <2>3. latest'[ImportNs] = stamp
      BY <1>6, <2>2 DEF SetLatest, TypeOK
    <2>4. Promise!Point(ImportNs, latest'[ImportNs])
      BY <1>6, <2>2, <2>3, SameTerms DEF SetLatest, Promise!Point
    <2> QED
      BY <2>2, <2>4 DEF Promise!CacheNext
  <1>7. CASE Unlink(r)
    <2>1. cur \in Bundles /\ bundle[cur] = "incoming"
      BY <1>1, <1>7 DEF Unlink, Handling
    <2>2. MadePin \in pins /\ latest[MadePin.ns] = MadePin.stamp
      BY <1>7 DEF Unlink, MakingInv, MadePin
    <2>3. Promise!Answers(MadePin, cur)
      BY <2>1 DEF Promise!Answers, MadePin, ImportNs
    <2>4. Promise!Accept(cur)
      BY <1>7, <2>1, <2>2, <2>3 DEF Unlink, Promise!Accept, Promise!Open
    <2> QED
      BY <2>1, <2>4 DEF Promise!CacheNext
  <1>8. CASE ImportFails(r)
    BY <1>8, InterruptedAdds DEF ImportFails, Handling
  <1>9. CASE QueueAlert(r)
    <2>1. cur \in Bundles /\ bundle[cur] = "incoming"
      BY <1>1, <1>9 DEF QueueAlert, Handling, Rejecting
    <2>2. Promise!Tell(cur)
      BY <1>9, <2>1 DEF QueueAlert, Promise!Tell, Promise!Open
    <2> QED
      BY <2>1, <2>2 DEF Promise!CacheNext
  <1>10. CASE MoveToFailed(r)
    <2>1. cur \in Bundles /\ bundle[cur] = "incoming" /\ cur \in alerted
      BY <1>1, <1>10 DEF MoveToFailed, Handling, Rejecting, DropInv
    <2>2. Promise!Refuse(cur)
      BY <1>10, <2>1 DEF MoveToFailed, Promise!Refuse, Promise!Open
    <2> QED
      BY <2>1, <2>2 DEF Promise!CacheNext
  <1>11. CASE \/ RunImporter(r) \/ DropReason(r) \/ ListIncoming(r) \/ TakeExtra(r)
              \/ TakeNext(r) \/ Finish(r) \/ Check(r) \/ Verify(r) \/ SweepTemp(r)
              \/ LinkRoot(r) \/ WriteReason(r)
    <2>1. UNCHANGED <<valid, pins, latest, bundle, alerted>>
      BY <1>11 DEF RunImporter, Start, DropReason, ListIncoming, TakeExtra, TakeNext,
         Finish, Check, Verify, SweepTemp, LinkRoot, WriteReason
    <2> QED
      BY <2>1, Unseen
  <1> QED
    BY <1>2, <1>3, <1>4, <1>5, <1>6, <1>7, <1>8, <1>9, <1>10, <1>11
    DEF ImporterNext, ImportStep

LEMMA PrunerPromised ==
    ASSUME PromiseInv, PrunerNext
    PROVE  [Promise!CacheNext]_(Promise!cacheVars)
  <1> USE DEF PromiseInv, StageInv, RootedInv, BaseInv, TypeInv, TypeOK, At, Goto,
          storeVars, pinVars, keepVars, dropVars, runVars, waitVars, history, vars, counters
  <1>1. CASE Retarget
    <2>1. PICK p \in plan.delete :
            latest' = [latest EXCEPT ![p.ns] = NextLatest(p.ns, Stamps(p.ns) \ {p.stamp})]
      BY <1>1 DEF Retarget
    <2>2. Stamps(p.ns) \ {p.stamp} # {} =>
            MaxOf(Stamps(p.ns) \ {p.stamp}) \in Stamps(p.ns) \ {p.stamp}
      BY StampsHaveMax
    <2>3. p.ns \in Namespaces /\ latest'[p.ns] \in Stamps(p.ns) \cup {0}
      BY <2>1, <2>2 DEF NextLatest, Plan, Pin
    <2>4. latest' = [latest EXCEPT ![p.ns] = latest'[p.ns]]
      BY <2>1, <2>3
    <2>5. Promise!Point(p.ns, latest'[p.ns])
      BY <1>1, <2>3, <2>4, SameTerms DEF Retarget, Promise!Point
    <2> QED
      BY <2>3, <2>5 DEF Promise!CacheNext
  <1>2. CASE RenameAway
    <2>1. PICK p \in Pin : plan.doomed = {p} /\ latest[p.ns] # p.stamp
      BY <1>2 DEF RenameAway, DoomInv
    <2>2. pins' = pins \ {p} /\ UNCHANGED <<valid, latest, bundle, alerted>>
      BY <1>2, <2>1 DEF RenameAway
    <2>3. CASE p \in pins
      <3>1. Promise!Unpin(p)
        BY <2>1, <2>2, <2>3 DEF Promise!Unpin
      <3> QED
        BY <2>3, <3>1 DEF Promise!CacheNext
    <2>4. CASE p \notin pins
      <3>1. pins' = pins
        BY <2>2, <2>4
      <3> QED
        BY <2>2, <3>1, Unseen
    <2> QED
      BY <2>3, <2>4
  <1>3. CASE ~ Retarget /\ ~ RenameAway
    <2>1. UNCHANGED <<valid, pins, latest, bundle, alerted>>
      BY <1>3
      DEF PrunerNext, TimerFires, AskPass, PassStep, StartPass, SweepAll, MakePlan,
          DropOrphans, LinkTop, ClearFinal, CommitKeep, DropOldKeep, KeepWritten,
          Purge, PassDone
    <2> QED
      BY <2>1, Unseen
  <1> QED
    BY <1>1, <1>2, <1>3

\* Whoever collects, only what no root needs goes.
LEMMA CollectPromised ==
    ASSUME NEW p \in valid, valid \subseteq Paths, Collectable(p), Remove(p),
           UNCHANGED <<pins, latest, bundle, alerted>>
    PROVE  Promise!CacheNext
  <1>1. Closure(PinRoots \cup SystemRoots) \subseteq Live
    <2>1. PinRoots \cup SystemRoots \subseteq Roots
      BY DEF Roots
    <2> QED
      BY <2>1, ClosureMonotone DEF Live
  <1>2. Promise!Reclaim(p)
    BY <1>1, SameTerms DEF Promise!Reclaim, Collectable, Remove
  <1> QED
    BY <1>2 DEF Promise!CacheNext

LEMMA GcPromised ==
    ASSUME PromiseInv, GcNext
    PROVE  [Promise!CacheNext]_(Promise!cacheVars)
  <1> USE DEF PromiseInv, RootedInv, BaseInv, TypeInv, TypeOK, pinVars, dropVars, storeVars
  <1>1. CASE Collect
    BY <1>1, CollectPromised DEF Collect
  <1>2. CASE StartGc \/ GcDone
    BY <1>2, Unseen DEF StartGc, GcDone
  <1> QED
    BY <1>1, <1>2 DEF GcNext, GcStep

LEMMA EnvironmentPromised ==
    ASSUME PromiseInv, Environment
    PROVE  [Promise!CacheNext]_(Promise!cacheVars)
  <1> USE BundlesAssumption
      DEF PromiseInv, RootedInv, BaseInv, TypeInv, TypeOK, pinVars, dropVars, storeVars
  <1>1. ASSUME NEW b \in Bundles, Upload(b)
        PROVE  Promise!CacheNext
    <2> DEFINE wish(c) ==
            [ns |-> BundleNs[c], roots |-> BundleRoots[c], paths |-> BundlePaths[c]]
    <2>1. wish(b) \in Promise!Request
      BY DEF Promise!Request
    <2>2. [c \in Bundles |-> wish(c)] =
                [[c \in Bundles |-> wish(c)] EXCEPT ![b] = wish(b)]
      OBVIOUS
    <2>3. ([c \in Bundles |-> wish(c)])' = [c \in Bundles |-> wish(c)]
      OBVIOUS
    <2> QED
      BY <1>1, <2>1, <2>2, <2>3 DEF Upload, Promise!CacheNext, Promise!Receive
  <1>2. ASSUME NEW p \in Procs, Crash(p)
        PROVE  [Promise!CacheNext]_(Promise!cacheVars)
    <2>1. UNCHANGED <<pins, latest, bundle, alerted>>
      BY <1>2 DEF Crash
    <2>2. CASE p \notin Repos
      BY <1>2, <2>1, <2>2, Unseen DEF Crash
    <2>3. CASE p \in Repos
      <3>1. Interrupted(p)
        BY <1>2, <2>3 DEF Crash
      <3>2. pc[p] \in Handling \/ UNCHANGED storeVars
        BY <3>1 DEF Interrupted, At, Handling, Importing
      <3> QED
        BY <2>1, <2>3, <3>1, <3>2, InterruptedAdds
    <2> QED
      BY <2>2, <2>3
  <1>3. CASE AutoCollect
    BY <1>3, CollectPromised DEF AutoCollect
  <1>4. CASE Tick \/ SetBack \/ (\E p \in Paths : Probe(p)) \/ GiveUp
    BY <1>4, Unseen DEF Tick, SetBack, Probe, GiveUp
  <1> QED
    BY <1>1, <1>2, <1>3, <1>4 DEF Environment

LEMMA PromisedStep ==
    ASSUME PromiseInv, [Next]_allVars
    PROVE  [Promise!CacheNext]_(Promise!cacheVars)
  <1>1. CASE UNCHANGED allVars
    BY <1>1, Unseen DEF allVars, vars, storeVars, pinVars, dropVars
  <1> QED
    BY <1>1, ImporterPromised, PrunerPromised, GcPromised, EnvironmentPromised DEF Next

LEMMA PromisedInit == InitAll => Promise!CacheInit
  <1>1. [b \in Bundles |->
            [ns |-> BundleNs[b], roots |-> BundleRoots[b], paths |-> BundlePaths[b]]]
        \in [Bundles -> Promise!Request]
    BY BundlesAssumption DEF Promise!Request
  <1> QED
    BY <1>1, SameTerms DEF InitAll, Init, Promise!CacheInit

\* CacheHost implements Cache: whatever a program does and wherever it is killed,
\* readers and uploaders only ever see steps that the abstract cache may take.
THEOREM HostKeepsPromise ==
    ASSUME ~ AutoGc
    PROVE  Spec => KeepsPromise
  <1>1. PromiseInv /\ [Next]_allVars => [Promise!CacheNext]_(Promise!cacheVars)
    BY PromisedStep
  <1> QED
    BY <1>1, PromisedInit, PromiseInvariant, PTL DEF Spec, KeepsPromise, Promise!CacheSpec

\* A bundle is done only when its roots are pinned, current and complete.
THEOREM ImportedIsPinned ==
    ASSUME ~ AutoGc
    PROVE  Spec => ImportedMeansPinned
  <1> DEFINE Imported ==
        \A b \in Bundles : bundle[b] = "incoming" /\ bundle'[b] = "done" =>
            /\ Closure(BundleRoots[b]) \subseteq valid'
            /\ \E p \in pins' :
                /\ p.ns = BundleNs[b] /\ p.targets = BundleRoots[b]
                /\ p.stamp = latest'[p.ns]
  <1>1. ASSUME PromiseInv, [Next]_allVars
        PROVE  [Imported]_allVars
    <2> USE DEF PromiseInv, StageInv, RootedInv, BaseInv, TypeInv, At, Goto, storeVars,
            pinVars, keepVars, dropVars, runVars, waitVars, history, vars, counters
    <2>1. ASSUME NEW r \in Repos, Unlink(r)
          PROVE  Imported
      <3>1. \A b \in Bundles : bundle[b] = "incoming" /\ bundle'[b] = "done" => b = cur
        BY <1>1, <2>1 DEF Unlink, TypeOK
      <3>2. pc[r] = "unlink" /\ UNCHANGED <<valid, pins, latest>>
        BY <2>1 DEF Unlink
      <3>3. MadePin \in pins /\ latest[ImportNs] = stamp
        BY <1>1, <3>2 DEF MakingInv
      <3>4. BundleRoots[cur] \subseteq valid /\ valid \in ClosedSets
        BY <1>1, <3>3, RootsAbove DEF MadePin, StoreInv, ClosedSets, TypeOK
      <3>5. Closure(BundleRoots[cur]) \subseteq valid
        BY <3>4, ClosureIsLeast
      <3> QED
        BY <3>1, <3>2, <3>3, <3>5 DEF MadePin, ImportNs
    <2>2. CASE ~ \E r \in Repos : Unlink(r)
      <3>1. \A b \in Bundles : ~ (bundle[b] = "incoming" /\ bundle'[b] = "done")
        <4>1. ASSUME NEW r \in Repos, ImporterNext(r)
              PROVE  \A b \in Bundles : bundle'[b] = "done" => bundle[b] = "done"
          BY <1>1, <2>2, <4>1
          DEF ImporterNext, RunImporter, Start, ImportStep, DropBundle, DropReason,
              ListIncoming, TakeExtra, TakeNext, Finish, Check, Fetch, Copy, Verify,
              SweepTemp, LinkRoot, RenamePin, SetLatest, ImportFails, WriteReason,
              QueueAlert, MoveToFailed, TypeOK
        <4>2. CASE PrunerNext \/ GcNext \/ UNCHANGED allVars
          BY <4>2
          DEF PrunerNext, TimerFires, AskPass, PassStep, StartPass, SweepAll, MakePlan,
              DropOrphans, LinkTop, ClearFinal, CommitKeep, DropOldKeep, KeepWritten,
              Retarget, RenameAway, Purge, PassDone, GcNext, StartGc, GcStep, Collect,
              GcDone, allVars
        <4>3. CASE Environment
          BY <1>1, <4>3
          DEF Environment, Upload, Tick, SetBack, Probe, Crash, GiveUp, AutoCollect, TypeOK
        <4> QED
          BY <1>1, <4>1, <4>2, <4>3 DEF Next
      <3> QED
        BY <3>1
    <2> QED
      BY <2>1, <2>2
  <1>2. PromiseInv /\ [Next]_allVars => [Imported]_allVars
    BY <1>1
  <1> HIDE DEF Imported
  <1>3. Spec => [][Imported]_allVars
    BY <1>2, PromiseInvariant, PTL DEF Spec
  <1> QED
    BY <1>3 DEF ImportedMeansPinned, Imported

-----------------------------------------------------------------------------
(* Rejections *)

\* A run never has a later time than the clock shows, unless that is set back.
NoEarly == began <= now /\ asked <= now

\* A .reason file is no older than its bundle, and there before the bundle moves.
ReasonInv ==
    /\ \A b \in Bundles :
        /\ arrived[b] <= now
        /\ bundle[b] = "new" => reason[b] = 0
        /\ reason[b] # 0 => arrived[b] <= reason[b]
    /\ \A r \in Repos : pc[r] \in {"alert", "move"} => reason[cur] # 0

RejectedInv == NoEarly /\ ReasonInv /\ RejectedHasReason

\* Without set-backs only Tick moves the clock, and forwards.
LEMMA TimeGoesOn ==
    ASSUME TypeInv, MaxSetBacks = 0, [Next]_allVars
    PROVE  now <= now' /\ (~ Tick => now' = now)
  <1> USE DEF TypeInv, TypeOK
  <1>1. ~ SetBack
    BY DEF SetBack
  <1>2. CASE Tick
    BY <1>2 DEF Tick
  <1>3. CASE ~ Tick
    <2>1. now' = now
      BY <1>1, <1>3
      DEF Next, ImporterNext, RunImporter, Start, ImportStep, DropBundle, DropReason,
          ListIncoming, TakeExtra, TakeNext, Finish, Leave, Check, Fetch, Copy, Verify,
          SweepTemp, LinkRoot, RenamePin, SetLatest, Unlink, ImportFails, WriteReason,
          QueueAlert, MoveToFailed, PrunerNext, TimerFires, AskPass, PassStep, StartPass,
          SweepAll, MakePlan, DropOrphans, LinkTop, ClearFinal, CommitKeep, DropOldKeep,
          KeepWritten, Retarget, RenameAway, Purge, PassDone, GcNext, StartGc, GcStep,
          Collect, GcDone, Environment, Upload, Probe, Crash, GiveUp, AutoCollect,
          allVars, vars
    <2> QED
      BY <1>3, <2>1
  <1> QED
    BY <1>2, <1>3

LEMMA NoEarlyNext ==
    ASSUME TypeInv, MaxSetBacks = 0, NoEarly, [Next]_allVars
    PROVE  NoEarly'
  <1> USE DEF TypeInv, TypeOK, runVars, waitVars
  <1>1. began' \in {began, 0, now, asked} /\ asked' \in {asked, 0, now}
    BY DEF Next, ImporterNext, RunImporter, Start, Acquire, ImportStep, DropBundle,
        DropReason, ListIncoming, TakeExtra, TakeNext, Finish, Leave, Check, Fetch, Copy,
        Verify, SweepTemp, LinkRoot, RenamePin, SetLatest, Unlink, ImportFails,
        WriteReason, QueueAlert, MoveToFailed, PrunerNext, TimerFires, AskPass, PassStep,
        StartPass, SweepAll, MakePlan, DropOrphans, LinkTop, ClearFinal, CommitKeep,
        DropOldKeep, KeepWritten, Retarget, RenameAway, Purge, PassDone, GcNext, StartGc,
        GcStep, Collect, GcDone, Environment, Upload, Tick, SetBack, Probe, Crash, GiveUp,
        AutoCollect, allVars, vars
  <1>2. now <= now' /\ now' \in Nat
    BY TimeGoesOn, BaseNext DEF Tick
  <1>3. \A t \in {began, 0, now, asked} : t \in Nat /\ t <= now
    BY DEF NoEarly
  <1> QED
    BY <1>1, <1>2, <1>3 DEF NoEarly

\* The steps of a rejection, each with what it takes from the one before.
LEMMA ReasonDropped ==
    ASSUME PromiseInv, RejectedInv, NEW r \in Repos, DropReason(r)
    PROVE  ReasonInv' /\ RejectedHasReason'
  <1> USE DEF PromiseInv, RootedInv, BaseInv, TypeInv, TypeOK, NoEarly, ReasonInv,
          RejectedInv, At
  <1>1. PICK b \in Bundles : /\ reason[b] # 0 /\ began > reason[b] + FailedRetention
                             /\ reason' = [reason EXCEPT ![b] = 0]
    BY DEF DropReason, OldReasons, Old
  <1>2. UNCHANGED <<bundle, arrived, alerted, pc, cur, now>> /\ pc[r] = "expire"
    BY DEF DropReason, runVars
  <1>3. now > arrived[b] + FailedRetention
    <2>1. arrived[b] <= reason[b] /\ arrived[b] \in Nat /\ reason[b] \in Nat
      BY <1>1
    <2>2. began <= now /\ began \in Nat /\ now \in Nat /\ FailedRetention \in Nat
      BY HostAssumption
    <2> QED
      BY <1>1, <2>1, <2>2
  <1>4. \A q \in Repos : pc[q] \notin {"alert", "move"}
    BY <1>2, ProcsAssumption DEF LockInv, Procs
  <1>5. ReasonInv'
    BY <1>1, <1>2, <1>4
  <1>6. RejectedHasReason'
    BY <1>1, <1>2, <1>3, HostAssumption DEF RejectedHasReason
  <1> QED
    BY <1>5, <1>6

LEMMA ReasonWritten ==
    ASSUME PromiseInv, RejectedInv, NEW r \in Repos, WriteReason(r)
    PROVE  ReasonInv' /\ RejectedHasReason'
  <1> USE DEF PromiseInv, RootedInv, BaseInv, TypeInv, TypeOK, StageInv, ReasonInv,
          RejectedInv, At, Goto
  <1>1. cur \in Bundles /\ bundle[cur] = "incoming" /\ now # 0
    BY DEF WriteReason, DropInv, CurInv, ClockInv, Handling, Rejecting
  <1>2. reason' = [reason EXCEPT ![cur] = now]
    BY DEF WriteReason
  <1>3. UNCHANGED <<bundle, arrived, alerted, cur, now>>
    BY DEF WriteReason, runVars
  <1>4. \A b \in Bundles : reason'[b] = reason[b] \/ (b = cur /\ reason'[b] = now)
    BY <1>2
  <1>5. reason'[cur] # 0
    BY <1>1, <1>2
  <1>6. ReasonInv'
    <2>1. \A b \in Bundles :
            /\ arrived'[b] <= now'
            /\ bundle'[b] = "new" => reason'[b] = 0
            /\ reason'[b] # 0 => arrived'[b] <= reason'[b]
      BY <1>1, <1>3, <1>4
    <2>2. \A q \in Repos : pc'[q] \in {"alert", "move"} => reason'[cur'] # 0
      BY <1>3, <1>5
    <2> QED
      BY <2>1, <2>2
  <1>7. RejectedHasReason'
    BY <1>1, <1>3, <1>4 DEF RejectedHasReason
  <1> QED
    BY <1>6, <1>7

LEMMA RejectedMoved ==
    ASSUME PromiseInv, RejectedInv, NEW r \in Repos, MoveToFailed(r) \/ QueueAlert(r)
    PROVE  ReasonInv' /\ RejectedHasReason'
  <1> USE DEF PromiseInv, RootedInv, BaseInv, TypeInv, TypeOK, StageInv, ReasonInv,
          RejectedInv, At, Goto
  <1>1. cur \in Bundles /\ bundle[cur] = "incoming" /\ reason[cur] # 0
    BY DEF MoveToFailed, QueueAlert, DropInv, CurInv, Handling, Rejecting
  <1>2. UNCHANGED <<reason, arrived, now>> /\ alerted \subseteq alerted'
    BY DEF MoveToFailed, QueueAlert
  <1>3. CASE MoveToFailed(r)
    <2>1. cur \in alerted /\ bundle' = [bundle EXCEPT ![cur] = "failed"]
      BY <1>3 DEF MoveToFailed, DropInv
    <2>2. \A q \in Repos : pc'[q] \notin {"alert", "move"}
      BY <1>3, ProcsAssumption DEF MoveToFailed, LockInv, Procs
    <2>3. ReasonInv'
      BY <1>2, <2>1, <2>2
    <2>4. RejectedHasReason'
      BY <1>1, <1>2, <2>1 DEF RejectedHasReason
    <2> QED
      BY <2>3, <2>4
  <1>4. CASE QueueAlert(r)
    <2>1. UNCHANGED <<bundle, cur>>
      BY <1>4 DEF QueueAlert, runVars
    <2> QED
      BY <1>1, <1>2, <2>1 DEF RejectedHasReason
  <1> QED
    BY <1>3, <1>4

LEMMA ReasonNext ==
    ASSUME PromiseInv, RejectedInv, MaxSetBacks = 0, [Next]_allVars
    PROVE  ReasonInv' /\ RejectedHasReason'
  <1> USE DEF PromiseInv, RootedInv, BaseInv, TypeInv, TypeOK, At, Goto, RejectedInv
  <1>1. ASSUME NEW r \in Repos, DropReason(r) \/ WriteReason(r) \/ QueueAlert(r) \/ MoveToFailed(r)
        PROVE  ReasonInv' /\ RejectedHasReason'
    BY <1>1, ReasonDropped, ReasonWritten, RejectedMoved
  <1>2. ASSUME NEW c \in Bundles, Upload(c)
        PROVE  ReasonInv' /\ RejectedHasReason'
    <2>1. UNCHANGED <<reason, alerted, pc, cur, now>>
      BY <1>2 DEF Upload, runVars
    <2>2. /\ bundle' = [bundle EXCEPT ![c] = "incoming"]
          /\ arrived' = [arrived EXCEPT ![c] = now]
          /\ reason[c] = 0
      BY <1>2 DEF Upload, ReasonInv
    <2>3. ReasonInv'
      BY <2>1, <2>2 DEF ReasonInv
    <2>4. RejectedHasReason'
      BY <2>1, <2>2 DEF RejectedHasReason
    <2> QED
      BY <2>3, <2>4
  <1>3. CASE Tick
    <2>1. UNCHANGED <<bundle, arrived, reason, alerted, pc, cur>> /\ now' = now + 1
      BY <1>3 DEF Tick, dropVars, runVars
    <2>2. \A b \in Bundles : arrived[b] \in Nat
      OBVIOUS
    <2>3. ReasonInv'
      BY <2>1, <2>2 DEF ReasonInv
    <2>4. RejectedHasReason'
      BY <2>1, <2>2, HostAssumption DEF RejectedHasReason
    <2> QED
      BY <2>3, <2>4
  <1>4. CASE /\ ~ \E r \in Repos : DropReason(r) \/ WriteReason(r) \/ QueueAlert(r) \/ MoveToFailed(r)
             /\ ~ \E c \in Bundles : Upload(c)
             /\ ~ Tick
    <2>1. UNCHANGED <<reason, arrived, alerted, now>>
      <3>1. now' = now
        BY <1>4, TimeGoesOn
      <3> QED
        BY <1>4, <3>1
        DEF Next, ImporterNext, RunImporter, Start, ImportStep, DropBundle, ListIncoming,
            TakeExtra, TakeNext, Finish, Leave, Check, Fetch, Copy, Verify, SweepTemp,
            LinkRoot, RenamePin, SetLatest, Unlink, ImportFails, PrunerNext, TimerFires,
            AskPass, PassStep, StartPass, SweepAll, MakePlan, DropOrphans, LinkTop,
            ClearFinal, CommitKeep, DropOldKeep, KeepWritten, Retarget, RenameAway, Purge,
            PassDone, GcNext, StartGc, GcStep, Collect, GcDone, Environment, SetBack,
            Probe, Crash, GiveUp, AutoCollect, allVars, vars, dropVars
    <2>2. \A b \in Bundles : bundle'[b] \in {bundle[b], "done", "pruned"}
      BY <1>4
      DEF Next, ImporterNext, RunImporter, Start, ImportStep, DropBundle, ListIncoming,
          TakeExtra, TakeNext, Finish, Leave, Check, Fetch, Copy, Verify, SweepTemp,
          LinkRoot, RenamePin, SetLatest, Unlink, ImportFails, PrunerNext, TimerFires,
          AskPass, PassStep, StartPass, SweepAll, MakePlan, DropOrphans, LinkTop,
          ClearFinal, CommitKeep, DropOldKeep, KeepWritten, Retarget, RenameAway, Purge,
          PassDone, GcNext, StartGc, GcStep, Collect, GcDone, Environment, SetBack,
          Probe, Crash, GiveUp, AutoCollect, allVars, vars, dropVars
    <2>3. \A r \in Repos : pc'[r] \in {"alert", "move"} => pc[r] = pc'[r] /\ cur' = cur
      <3>1. ASSUME NEW q \in Repos, ImporterNext(q)
            PROVE  \A r \in Repos : pc'[r] \notin {"alert", "move"}
        <4>1. pc'[q] \notin {"alert", "move"}
          BY <1>4, <3>1, ProcsAssumption
          DEF ImporterNext, RunImporter, Start, ImportStep, DropBundle, ListIncoming,
              TakeExtra, TakeNext, Finish, Leave, Check, Fetch, Copy, Verify, SweepTemp,
              LinkRoot, RenamePin, SetLatest, Unlink, ImportFails, Procs
        <4> QED
          BY <3>1, <4>1, OneImporter
      <3>2. CASE PrunerNext \/ GcNext
        <4>1. \A r \in Repos : pc'[r] = pc[r]
          BY <3>2, ProcsAssumption
          DEF PrunerNext, TimerFires, AskPass, PassStep, StartPass, SweepAll, MakePlan,
              DropOrphans, LinkTop, ClearFinal, CommitKeep, DropOldKeep, KeepWritten,
              Retarget, RenameAway, Purge, PassDone, GcNext, StartGc, GcStep, Collect,
              GcDone, Leave, Procs
        <4>2. TypeInv'
          BY BaseNext DEF BaseInv
        <4>3. lock' \notin Repos \/ cur' = cur
          BY <3>2, ProcsAssumption
          DEF PrunerNext, TimerFires, AskPass, PassStep, StartPass, SweepAll, MakePlan,
              DropOrphans, LinkTop, ClearFinal, CommitKeep, DropOldKeep, KeepWritten,
              Retarget, RenameAway, Purge, PassDone, GcNext, StartGc, GcStep, Collect,
              GcDone, Leave, Acquire, Procs, runVars
        <4>4. \A r \in Repos : pc'[r] \in {"alert", "move"} => lock' = r
          BY <4>2 DEF LockInv, Procs
        <4> QED
          BY <4>1, <4>3, <4>4
      <3>3. CASE Environment \/ UNCHANGED allVars
        BY <1>4, <3>3, ProcsAssumption
        DEF Environment, SetBack, Probe, Crash, Leave, GiveUp, AutoCollect, LockInv, Procs,
            allVars, vars, runVars
      <3> QED
        BY <3>1, <3>2, <3>3 DEF Next
    <2>4. ReasonInv'
      BY <2>1, <2>2, <2>3 DEF ReasonInv
    <2>5. RejectedHasReason'
      BY <2>1, <2>2 DEF RejectedHasReason
    <2> QED
      BY <2>4, <2>5
  <1> QED
    BY <1>1, <1>2, <1>3, <1>4

LEMMA RejectedInvariant ==
    ASSUME ~ AutoGc, MaxSetBacks = 0
    PROVE  Spec => [](PromiseInv /\ RejectedInv)
  <1>1. InitAll => PromiseInv /\ RejectedInv
    <2>1. InitAll => RejectedInv
      BY ProcsAssumption
      DEF InitAll, Init, RejectedInv, NoEarly, ReasonInv, RejectedHasReason, Procs
    <2> QED
      BY <2>1, PromiseInit
  <1>2. PromiseInv /\ RejectedInv /\ [Next]_allVars => (PromiseInv /\ RejectedInv)'
    BY PromiseInvNext, NoEarlyNext, ReasonNext DEF PromiseInv, RootedInv, BaseInv, RejectedInv
  <1> QED
    BY <1>1, <1>2, PTL DEF Spec

\* A bundle in failed/ has its alert and, until it is due for pruning, its reason,
\* wherever the importer was killed.  The clock must not be set back: prune_failed
\* would take a reason for older than its bundle.
THEOREM RejectionsExplained ==
    ASSUME ~ AutoGc, MaxSetBacks = 0
    PROVE  Spec => []RejectedHasReason
  <1>1. PromiseInv /\ RejectedInv => RejectedHasReason
    BY DEF RejectedInv
  <1> QED
    BY <1>1, RejectedInvariant, PTL

-----------------------------------------------------------------------------
(* Which pin is current *)

\* retention protects a namespace for active_seconds after its last import.
Recent(ns) == lastDone[ns] # 0 /\ now <= lastDone[ns] + ActiveSeconds

\* A run handles its own repo's bundles only.
OwnInv ==
    \A r \in Repos :
        /\ pc[r] \in Handling \cup {"next"} => \A b \in todo : NsRepo[BundleNs[b]] = r
        /\ pc[r] \in Handling => NsRepo[ImportNs] = r

\* A run's own pins follow its start without a gap, so the pin it has just made is
\* the newest of its namespace.
AheadInv ==
    \A r \in Repos :
        /\ lock = r => \A ns \in Namespaces :
            NsRepo[ns] = r => \A u \in Stamps(ns) : u >= began => began .. u \subseteq Stamps(ns)
        /\ pc[r] = "latest" => \A u \in Stamps(ImportNs) : u <= stamp

\* Some pin no older than the last import stays, whatever the pass deletes.
Surviving(ns) ==
    {q \in Stamps(ns) : /\ q >= lastDone[ns]
                        /\ \A p \in plan.delete \cup plan.doomed : p.ns = ns => p.stamp # q}

CurrentInv ==
    \A ns \in Namespaces :
        /\ \A s \in superseded[ns] : s < lastDone[ns]
        /\ Recent(ns) => latest[ns] >= lastDone[ns]
        /\ Recent(ns) /\ Before(Writing) => Surviving(ns) # {}

OrderInv == NoEarly /\ OwnInv /\ AheadInv /\ CurrentInv

\* Whoever else takes a step, a run at work finds everything as it left it.
LEMMA OtherSteps ==
    ASSUME BaseInv, PrunerNext \/ GcNext \/ Environment \/ UNCHANGED allVars
    PROVE  \/ lock' \notin Repos /\ \A r \in Repos : pc'[r] \in {"idle", "wait"}
           \/ UNCHANGED <<pins, runVars, lock>> /\ \A r \in Repos : pc'[r] = pc[r]
  <1> USE ProcsAssumption
      DEF BaseInv, TypeInv, TypeOK, LockInv, Procs, At, Goto, storeVars, pinVars, keepVars,
          dropVars, runVars, waitVars, history, vars, counters
  <1>1. ASSUME lock' \notin Repos
        PROVE  \A r \in Repos : pc'[r] \in {"idle", "wait"}
    <2>1. [Next]_allVars
      BY DEF Next
    <2>2. TypeInv'
      BY <2>1, BaseNext DEF BaseInv
    <2> QED
      BY <1>1, <2>2
  <1>2. CASE PrunerNext
    BY <1>1, <1>2
    DEF PrunerNext, TimerFires, AskPass, PassStep, StartPass, SweepAll, MakePlan,
        DropOrphans, LinkTop, ClearFinal, CommitKeep, DropOldKeep, KeepWritten, Retarget,
        RenameAway, Purge, PassDone, Leave, Acquire
  <1>3. CASE GcNext
    BY <1>1, <1>3 DEF GcNext, StartGc, GcStep, Collect, GcDone, Acquire, Leave
  <1>4. CASE Environment
    BY <1>1, <1>4
    DEF Environment, Upload, Tick, SetBack, Probe, Crash, Leave, GiveUp, AutoCollect
  <1>5. CASE UNCHANGED allVars
    BY <1>5 DEF allVars
  <1> QED
    BY <1>2, <1>3, <1>4, <1>5

LEMMA OwnNext ==
    ASSUME PromiseInv, OwnInv, [Next]_allVars
    PROVE  OwnInv'
  <1> USE ProcsAssumption, BundlesAssumption
      DEF PromiseInv, StageInv, RootedInv, BaseInv, TypeInv, TypeOK, Procs, At, Goto,
          storeVars, pinVars, keepVars, dropVars, runVars, waitVars, history
  <1>1. ASSUME NEW r \in Repos, ImporterNext(r)
        PROVE  OwnInv'
    <2>1. SUFFICES
            /\ pc'[r] \in Handling \cup {"next"} => \A b \in todo' : NsRepo[BundleNs[b]] = r
            /\ pc'[r] \in Handling => NsRepo[BundleNs[cur']] = r
      BY <1>1, OneImporter DEF OwnInv, ImportNs, Handling, Importing, Rejecting
    <2>2. /\ pc[r] \in Handling \cup {"next"} => \A b \in todo : NsRepo[BundleNs[b]] = r
          /\ pc[r] \in Handling => NsRepo[BundleNs[cur]] = r
      BY DEF OwnInv, ImportNs
    <2>3. CASE RunImporter(r) \/ DropBundle(r) \/ DropReason(r) \/ Finish(r)
      BY <2>3 DEF RunImporter, Start, DropBundle, DropReason, Finish, Leave, Handling,
         Importing, Rejecting
    <2>4. CASE ListIncoming(r)
      BY <2>4 DEF ListIncoming, Incoming, Handling, Importing, Rejecting
    <2>5. CASE TakeExtra(r) \/ TakeNext(r)
      BY <2>2, <2>5 DEF TakeExtra, TakeNext, Handling, Importing, Rejecting
    <2>6. CASE \/ Check(r) \/ Fetch(r) \/ Copy(r) \/ Verify(r) \/ SweepTemp(r) \/ LinkRoot(r)
               \/ RenamePin(r) \/ SetLatest(r) \/ ImportFails(r) \/ WriteReason(r)
               \/ QueueAlert(r)
      <3>1. UNCHANGED <<todo, cur>> /\ pc[r] \in Handling
        BY <2>6 DEF Check, Fetch, Copy, Verify, SweepTemp, LinkRoot, RenamePin, SetLatest,
           ImportFails, WriteReason, QueueAlert, Handling, Importing, Rejecting
      <3> QED
        BY <2>2, <3>1
    <2>7. CASE Unlink(r) \/ MoveToFailed(r)
      <3>1. todo' = todo /\ pc'[r] = "next" /\ pc[r] \in Handling
        BY <2>7 DEF Unlink, MoveToFailed, Handling, Rejecting
      <3> QED
        BY <2>2, <3>1 DEF Handling, Importing, Rejecting
    <2> QED
      BY <1>1, <2>3, <2>4, <2>5, <2>6, <2>7 DEF ImporterNext, ImportStep
  <1>2. CASE PrunerNext \/ GcNext \/ Environment \/ UNCHANGED allVars
    BY <1>2, OtherSteps DEF OwnInv, ImportNs, Handling, Importing, Rejecting
  <1> QED
    BY <1>1, <1>2 DEF Next

\* The first free stamp from the run's start on is higher than every other.
LEMMA FreeIsNewest ==
    ASSUME NEW S \in SUBSET Nat, NEW from \in Nat, NEW s \in Nat, s >= from, s \notin S,
           from .. (s - 1) \subseteq S,
           \A u \in S : u >= from => from .. u \subseteq S
    PROVE  /\ \A u \in S : u <= s
           /\ \A u \in S \cup {s} : u >= from => from .. u \subseteq S \cup {s}
  <1>1. ASSUME NEW u \in S
        PROVE  u <= s
    <2>1. SUFFICES ASSUME u > s PROVE FALSE
      OBVIOUS
    <2>2. s \in from .. u /\ u >= from
      BY <2>1
    <2> QED
      BY <2>2
  <1>2. from .. s \subseteq S \cup {s}
    <2>1. ASSUME NEW t \in from .. s, t # s
          PROVE  t \in from .. (s - 1)
      BY <2>1
    <2> QED
      BY <2>1
  <1> QED
    BY <1>1, <1>2

LEMMA ImporterAhead ==
    ASSUME PromiseInv, OwnInv, AheadInv, SteadyClock, NEW r \in Repos, ImporterNext(r)
    PROVE  AheadInv'
  <1> USE ProcsAssumption, BundlesAssumption
      DEF PromiseInv, StageInv, RootedInv, BaseInv, TypeInv, TypeOK, Procs, At, Goto,
          storeVars, pinVars, keepVars, dropVars, runVars, waitVars, history
  <1>1. SUFFICES
            /\ lock' = r => \A ns \in Namespaces : NsRepo[ns] = r =>
                \A u \in Stamps(ns)' : u >= began' => began' .. u \subseteq Stamps(ns)'
            /\ pc'[r] = "latest" => \A u \in Stamps(ImportNs)' : u <= stamp'
    BY OneImporter DEF AheadInv
  <1>2. CASE RunImporter(r)
    <2>1. began' = now /\ pins' = pins /\ pc'[r] = "expire"
      BY <1>2 DEF RunImporter, Start, Acquire
    <2>2. \A ns \in Namespaces : NsRepo[ns] = r => \A u \in Stamps(ns) : u < now
      BY <1>2 DEF RunImporter, Stamps
    <2>3. \A ns \in Namespaces : Stamps(ns)' = Stamps(ns) /\ Stamps(ns) \subseteq Nat
      BY <2>1, StampsAreNat DEF Stamps
    <2> QED
      BY <2>1, <2>2, <2>3
  <1>3. CASE RenamePin(r)
    <2>1. cur \in Bundles /\ ImportNs \in Namespaces /\ lock = r
      BY <1>3 DEF RenamePin, CurInv, Importing, ImportNs, LockInv
    <2>2. PICK s \in {began} \cup {u + 1 : u \in Stamps(ImportNs)} :
            /\ s >= began
            /\ s \notin Stamps(ImportNs)
            /\ \A u \in began .. (s - 1) : u \in Stamps(ImportNs)
            /\ pins' = pins \cup
                  {[ns |-> ImportNs, stamp |-> s, targets |-> junk[ImportNs]]}
            /\ stamp' = s
      BY <1>3 DEF RenamePin
    <2>3. s \in Nat /\ Stamps(ImportNs) \subseteq Nat
      BY <2>2, StampsAreNat
    <2>4. NsRepo[ImportNs] = r
      BY <1>3 DEF RenamePin, OwnInv, Handling, Importing
    <2>5. \A u \in Stamps(ImportNs) : u >= began => began .. u \subseteq Stamps(ImportNs)
      BY <2>1, <2>4 DEF AheadInv
    <2>6. /\ \A u \in Stamps(ImportNs) : u <= s
          /\ \A u \in Stamps(ImportNs) \cup {s} :
                u >= began => began .. u \subseteq Stamps(ImportNs) \cup {s}
      <3>1. began .. (s - 1) \subseteq Stamps(ImportNs) /\ began \in Nat
        BY <2>2
      <3> HIDE DEF TypeOK
      <3> QED
        BY <2>2, <2>3, <2>5, <3>1, FreeIsNewest
    <2>7. /\ Stamps(ImportNs)' = Stamps(ImportNs) \cup {s}
          /\ \A ns \in Namespaces \ {ImportNs} : Stamps(ns)' = Stamps(ns)
      <3>1. ImportNs' = ImportNs
        BY <1>3 DEF RenamePin, ImportNs
      <3> DEFINE new == [ns |-> ImportNs, stamp |-> s, targets |-> junk[ImportNs]]
      <3>2. pins' = pins \cup {new} /\ new.ns = ImportNs /\ new.stamp = s
        BY <2>2
      <3> HIDE DEF new
      <3> QED
        BY <3>1, <3>2 DEF Stamps
    <2>8. began' = began /\ pc'[r] = "latest"
      BY <1>3 DEF RenamePin
    <2>9. \A ns \in Namespaces : NsRepo[ns] = r =>
            \A u \in Stamps(ns)' : u >= began' => began' .. u \subseteq Stamps(ns)'
      <3>1. ASSUME NEW ns \in Namespaces, NsRepo[ns] = r, NEW u \in Stamps(ns)', u >= began'
            PROVE  began' .. u \subseteq Stamps(ns)'
        <4>1. CASE ns = ImportNs
          <5>1. Stamps(ns)' = Stamps(ImportNs) \cup {s}
            BY <1>3, <2>7, <4>1 DEF RenamePin, ImportNs, Stamps
          <5> QED
            BY <2>6, <2>8, <3>1, <5>1
        <4>2. CASE ns # ImportNs
          <5>1. Stamps(ns)' = Stamps(ns)
            BY <2>7, <4>2
          <5> QED
            BY <2>1, <2>8, <3>1, <5>1 DEF AheadInv
        <4> QED
          BY <4>1, <4>2
      <3> QED
        BY <3>1
    <2>10. \A u \in Stamps(ImportNs)' : u <= stamp'
      BY <2>2, <2>3, <2>6, <2>7
    <2> QED
      BY <2>9, <2>10
  <1>4. CASE ~ RunImporter(r) /\ ~ RenamePin(r)
    <2>1. pins' = pins /\ (lock' = r => lock = r /\ began' = began) /\ pc'[r] # "latest"
      BY <1>4
      DEF ImporterNext, ImportStep, DropBundle, DropReason, ListIncoming, TakeExtra, TakeNext,
          Finish, Leave, Check, Fetch, Copy, Verify, SweepTemp, LinkRoot, SetLatest, Unlink,
          ImportFails, WriteReason, QueueAlert, MoveToFailed
    <2>2. \A ns \in Namespaces : Stamps(ns)' = Stamps(ns)
      BY <2>1 DEF Stamps
    <2> QED
      BY <2>1, <2>2 DEF AheadInv
  <1> QED
    BY <1>2, <1>3, <1>4

LEMMA AheadNext ==
    ASSUME PromiseInv, OwnInv, AheadInv, SteadyClock, [Next]_allVars
    PROVE  AheadInv'
  <1>1. CASE PrunerNext \/ GcNext \/ Environment \/ UNCHANGED allVars
    <2>1. CASE lock' \notin Repos /\ \A r \in Repos : pc'[r] \in {"idle", "wait"}
      BY <2>1 DEF AheadInv
    <2>2. CASE UNCHANGED <<pins, runVars, lock>> /\ \A r \in Repos : pc'[r] = pc[r]
      <3>1. \A ns : Stamps(ns)' = Stamps(ns)
        BY <2>2 DEF Stamps
      <3>2. Stamps(ImportNs)' = Stamps(ImportNs) /\ UNCHANGED <<began, stamp>>
        BY <2>2 DEF Stamps, ImportNs, runVars
      <3> QED
        BY <2>2, <3>1, <3>2 DEF AheadInv
    <2> QED
      BY <1>1, <2>1, <2>2, OtherSteps DEF PromiseInv, RootedInv
  <1> QED
    BY <1>1, ImporterAhead DEF Next

\* While `latest`, the history and the plan stay, nothing changes but the time.
LEMMA CurrentStays ==
    ASSUME TypeInv, CurrentInv, UNCHANGED <<latest, lastDone>>, now <= now', now' \in Nat,
           \A ns \in Namespaces : superseded'[ns] \subseteq superseded[ns],
           pc'[Pruner] \in Writing => /\ Before(Writing) /\ pins' = pins
                                      /\ plan'.delete \cup plan'.doomed \subseteq
                                            plan.delete \cup plan.doomed
    PROVE  CurrentInv'
  <1> USE DEF TypeInv, TypeOK
  <1>1. ASSUME NEW ns \in Namespaces, Recent(ns)'
        PROVE  Recent(ns)
    <2>1. lastDone[ns] \in Nat /\ ActiveSeconds \in Nat /\ now \in Nat
      BY HostAssumption
    <2>2. lastDone[ns] # 0 /\ now' <= lastDone[ns] + ActiveSeconds
      BY <1>1 DEF Recent
    <2> QED
      BY <2>1, <2>2 DEF Recent
  <1>2. ASSUME NEW ns \in Namespaces, pc'[Pruner] \in Writing
        PROVE  Surviving(ns) \subseteq Surviving(ns)'
    BY <1>2 DEF Surviving, Stamps
  <1>3. ASSUME NEW ns \in Namespaces
        PROVE  /\ \A s \in superseded'[ns] : s < lastDone'[ns]
               /\ Recent(ns)' => latest'[ns] >= lastDone'[ns]
               /\ Recent(ns)' /\ pc'[Pruner] \in Writing => Surviving(ns)' # {}
    BY <1>1, <1>2 DEF CurrentInv
  <1> QED
    BY <1>3 DEF CurrentInv, Before

LEMMA ImporterCurrent ==
    ASSUME PromiseInv, AheadInv, CurrentInv, NEW r \in Repos, ImporterNext(r)
    PROVE  CurrentInv'
  <1> USE ProcsAssumption, BundlesAssumption
      DEF PromiseInv, StageInv, RootedInv, BaseInv, TypeInv, At, Goto,
          storeVars, pinVars, keepVars, dropVars, runVars, waitVars, history
  <1>1. pc'[Pruner] \notin Writing
    BY OneImporter DEF Writing
  <1>2. now' = now /\ now \in Nat
    BY DEF ImporterNext, RunImporter, Start, ImportStep, DropBundle, DropReason,
        ListIncoming, TakeExtra, TakeNext, Finish, Check, Fetch, Copy, Verify,
        SweepTemp, LinkRoot, RenamePin, SetLatest, Unlink, ImportFails, WriteReason,
        QueueAlert, MoveToFailed, TypeOK
  <1>3. CASE SetLatest(r)
    <2>1. cur \in Bundles /\ ImportNs \in Namespaces
      BY <1>3 DEF SetLatest, CurInv, Importing, ImportNs
    <2>2. \A u \in Stamps(ImportNs) : u <= stamp
      BY <1>3 DEF SetLatest, AheadInv
    <2>3. Stamps(ImportNs) \subseteq Nat /\ stamp \in Nat
      BY StampsAreNat DEF TypeOK
    <2>4. \A s \in Stamps(ImportNs) \ {stamp} : s < stamp
      BY <2>2, <2>3
    <2>5. /\ latest'[ImportNs] = stamp /\ lastDone'[ImportNs] = stamp
          /\ superseded'[ImportNs] = Stamps(ImportNs) \ {stamp}
      BY <1>3, <2>1 DEF SetLatest, TypeOK
    <2>6. \A ns \in Namespaces \ {ImportNs} :
            /\ latest'[ns] = latest[ns] /\ lastDone'[ns] = lastDone[ns]
            /\ superseded'[ns] = superseded[ns]
      BY <1>3 DEF SetLatest, TypeOK
    <2>7. \A ns \in Namespaces :
            /\ \A s \in superseded'[ns] : s < lastDone'[ns]
            /\ Recent(ns)' => latest'[ns] >= lastDone'[ns]
      <3>1. \A ns \in Namespaces \ {ImportNs} : Recent(ns)' => Recent(ns)
        BY <1>2, <2>6 DEF Recent
      <3> QED
        BY <2>3, <2>4, <2>5, <2>6, <3>1 DEF CurrentInv
    <2> QED
      BY <1>1, <2>7 DEF CurrentInv, Before
  <1>4. CASE ~ SetLatest(r)
    <2>1. UNCHANGED <<latest, lastDone>>
      BY <1>4
      DEF ImporterNext, RunImporter, Start, ImportStep, DropBundle, DropReason,
          ListIncoming, TakeExtra, TakeNext, Finish, Check, Fetch, Copy, Verify,
          SweepTemp, LinkRoot, RenamePin, Unlink, ImportFails, WriteReason,
          QueueAlert, MoveToFailed
    <2>2. superseded' = superseded \/ RenamePin(r)
      BY <1>4
      DEF ImporterNext, RunImporter, Start, ImportStep, DropBundle, DropReason,
          ListIncoming, TakeExtra, TakeNext, Finish, Check, Fetch, Copy, Verify,
          SweepTemp, LinkRoot, Unlink, ImportFails, WriteReason, QueueAlert, MoveToFailed
    <2>3. \A ns \in Namespaces : superseded'[ns] \subseteq superseded[ns]
      <3>1. CASE RenamePin(r)
        <4>1. PICK s : superseded' = [superseded EXCEPT ![ImportNs] = @ \ {s}]
          BY <3>1 DEF RenamePin
        <4> QED
          BY <4>1 DEF TypeOK
      <3> QED
        BY <2>2, <3>1
    <2> QED
      BY <1>1, <1>2, <2>1, <2>3, CurrentStays
  <1> QED
    BY <1>3, <1>4

\* A plan never takes the pin that `latest` names in a namespace still active.
LEMMA PlanSpares ==
    ASSUME PromiseInv, NoEarly, CurrentInv, MakePlan
    PROVE  CurrentInv'
  <1> USE DEF PromiseInv, StageInv, RootedInv, BaseInv, TypeInv, TypeOK, At, Goto
  <1>1. PICK keep : plan' = [keep   |-> keep,
                             delete |-> {p \in pins \ ProtectedPins : ~ p.targets \subseteq keep},
                             doomed |-> {}]
    BY DEF MakePlan
  <1>2. UNCHANGED <<pins, latest, lastDone, superseded, now>>
    BY DEF MakePlan, pinVars, history
  <1>3. ASSUME NEW ns \in Namespaces, Recent(ns)
        PROVE  latest[ns] \in Surviving(ns)'
    <2>1. latest[ns] >= lastDone[ns] /\ latest[ns] \in Nat /\ lastDone[ns] \in Nat
      BY <1>3 DEF CurrentInv
    <2>2. lastDone[ns] # 0 /\ now <= lastDone[ns] + ActiveSeconds
      BY <1>3 DEF Recent
    <2>3. latest[ns] \in Stamps(ns)
      BY <2>1, <2>2 DEF LatestNamesAPin
    <2>4. ns \in ActiveNs
      <3>1. Stamps(ns) \in SUBSET Stamps(ns) /\ Stamps(ns) # {}
        BY <2>3
      <3>2. MaxOf(Stamps(ns)) \in Stamps(ns) /\ latest[ns] <= MaxOf(Stamps(ns))
        BY <2>3, <3>1, StampsHaveMax
      <3>3. MaxOf(Stamps(ns)) \in Nat
        BY <3>2, StampsAreNat
      <3>4. began <= now /\ began \in Nat /\ now \in Nat /\ ActiveSeconds \in Nat
        BY HostAssumption DEF NoEarly
      <3>5. began <= MaxOf(Stamps(ns)) + ActiveSeconds
        BY <2>1, <2>2, <3>2, <3>3, <3>4
      <3> QED
        BY <3>1, <3>5 DEF ActiveNs
    <2>5. LatestStamp(ns) = latest[ns]
      BY <2>3 DEF LatestStamp
    <2>6. \A p \in plan'.delete \cup plan'.doomed : p.ns = ns => p.stamp # latest[ns]
      BY <1>1, <2>4, <2>5 DEF ProtectedPins
    <2>7. latest[ns] \in Stamps(ns)'
      BY <1>2, <2>3 DEF Stamps
    <2> QED
      BY <1>2, <2>1, <2>6, <2>7 DEF Surviving
  <1>4. \A ns \in Namespaces : Recent(ns)' <=> Recent(ns)
    BY <1>2 DEF Recent
  <1> QED
    BY <1>2, <1>3, <1>4 DEF CurrentInv

\* ... and delete_pin moves `latest` to a pin that is no older.
LEMMA RetargetCurrent ==
    ASSUME PromiseInv, CurrentInv, Retarget
    PROVE  CurrentInv'
  <1> USE ProcsAssumption
      DEF PromiseInv, StageInv, RootedInv, BaseInv, TypeInv, TypeOK, At, Goto, Procs
  <1>1. PICK p \in plan.delete :
          /\ latest' = [latest EXCEPT ![p.ns] = NextLatest(p.ns, Stamps(p.ns) \ {p.stamp})]
          /\ plan' = [plan EXCEPT !.delete = @ \ {p}, !.doomed = {p}]
    BY DEF Retarget
  <1>2. UNCHANGED <<pins, lastDone, superseded, now>> /\ Before(Writing)
    BY DEF Retarget, history, Before, Writing
  <1>3. \A ns \in Namespaces : Recent(ns)' <=> Recent(ns)
    BY <1>2 DEF Recent
  <1>4. plan'.delete \cup plan'.doomed \subseteq plan.delete
    BY <1>1 DEF Plan
  <1>5. \A ns \in Namespaces : Surviving(ns) \subseteq Surviving(ns)'
    BY <1>2, <1>4 DEF Surviving, Stamps
  <1>6. ASSUME NEW ns \in Namespaces, Recent(ns)
        PROVE  latest'[ns] >= lastDone[ns]
    <2>1. CASE ns # p.ns
      BY <1>1, <1>6, <2>1 DEF CurrentInv
    <2>2. CASE ns = p.ns
      <3>1. PICK q \in Surviving(ns) : TRUE
        BY <1>2, <1>6 DEF CurrentInv
      <3>2. q \in Stamps(ns) /\ q >= lastDone[ns] /\ q # p.stamp
        BY <1>1, <2>2, <3>1 DEF Surviving
      <3> DEFINE others == Stamps(ns) \ {p.stamp}
      <3>3. others \in SUBSET Stamps(ns) /\ q \in others /\ others # {}
        BY <3>2
      <3>4. latest'[ns] = MaxOf(others)
        BY <1>1, <2>2, <3>3 DEF NextLatest
      <3> HIDE DEF others
      <3>5. MaxOf(others) \in others /\ q <= MaxOf(others)
        BY <3>3, StampsHaveMax
      <3>6. MaxOf(others) \in Nat /\ q \in Nat /\ lastDone[ns] \in Nat
        BY <3>3, <3>5, StampsAreNat
      <3> QED
        BY <3>2, <3>4, <3>5, <3>6
    <2> QED
      BY <2>1, <2>2
  <1> QED
    BY <1>2, <1>3, <1>5, <1>6 DEF CurrentInv

LEMMA RenamedCurrent ==
    ASSUME PromiseInv, CurrentInv, RenameAway
    PROVE  CurrentInv'
  <1> USE ProcsAssumption
      DEF PromiseInv, RootedInv, BaseInv, TypeInv, TypeOK, At, Goto, Procs
  <1>1. UNCHANGED <<latest, lastDone, superseded, now, plan>> /\ pins' = pins \ plan.doomed
    BY DEF RenameAway, history, runVars
  <1>2. Before(Writing)
    BY DEF RenameAway, Before, Writing
  <1>3. \A ns \in Namespaces : Recent(ns)' <=> Recent(ns)
    BY <1>1 DEF Recent
  <1>4. ASSUME NEW ns \in Namespaces, NEW q \in Surviving(ns)
        PROVE  q \in Surviving(ns)'
    <2>1. PICK x \in pins : x.ns = ns /\ x.stamp = q
      BY <1>4 DEF Surviving, Stamps
    <2>2. x \in pins'
      BY <1>1, <1>4, <2>1 DEF Surviving
    <2>3. q \in Stamps(ns)'
      BY <2>1, <2>2 DEF Stamps
    <2> QED
      BY <1>1, <1>4, <2>3 DEF Surviving
  <1> QED
    BY <1>1, <1>2, <1>3, <1>4 DEF CurrentInv

LEMMA PrunerCurrent ==
    ASSUME PromiseInv, NoEarly, CurrentInv, PrunerNext
    PROVE  CurrentInv'
  <1> USE ProcsAssumption
      DEF PromiseInv, RootedInv, BaseInv, TypeInv, TypeOK, Procs, At, Goto, storeVars,
          pinVars, keepVars, dropVars, runVars, waitVars, history, vars, counters
  <1>1. CASE MakePlan \/ Retarget \/ RenameAway
    BY <1>1, PlanSpares, RetargetCurrent, RenamedCurrent
  <1>2. CASE ~ MakePlan /\ ~ Retarget /\ ~ RenameAway
    <2>1. UNCHANGED <<pins, latest, lastDone, superseded, now>>
      BY <1>2
      DEF PrunerNext, TimerFires, AskPass, PassStep, StartPass, SweepAll, DropOrphans,
          LinkTop, ClearFinal, CommitKeep, DropOldKeep, KeepWritten, Purge, PassDone
    <2>2. pc'[Pruner] \in Writing => Before(Writing)
      BY <1>2
      DEF PrunerNext, TimerFires, AskPass, PassStep, StartPass, SweepAll, DropOrphans,
          LinkTop, ClearFinal, CommitKeep, DropOldKeep, KeepWritten, Purge, PassDone,
          Leave, Before, Writing
    <2>3. plan' \in {plan, EmptyPlan} \/ plan' = [plan EXCEPT !.doomed = {}]
      BY <1>2
      DEF PrunerNext, TimerFires, AskPass, PassStep, StartPass, SweepAll, DropOrphans,
          LinkTop, ClearFinal, CommitKeep, DropOldKeep, KeepWritten, Purge, PassDone, Leave
    <2>4. plan'.delete \cup plan'.doomed \subseteq plan.delete \cup plan.doomed
      BY <2>3 DEF Plan, EmptyPlan
    <2> QED
      BY <2>1, <2>2, <2>4, CurrentStays
  <1> QED
    BY <1>1, <1>2

LEMMA CurrentNext ==
    ASSUME PromiseInv, OrderInv, MaxSetBacks = 0, [Next]_allVars
    PROVE  CurrentInv'
  <1> USE DEF PromiseInv, RootedInv, BaseInv, OrderInv
  <1>1. CASE GcNext \/ Environment \/ UNCHANGED allVars
    <2> USE ProcsAssumption
        DEF TypeInv, TypeOK, LockInv, Procs, At, Goto, storeVars,
            pinVars, keepVars, dropVars, runVars, waitVars, history, vars, counters
    <2>1. UNCHANGED <<pins, latest, lastDone, superseded>>
      BY <1>1
      DEF GcNext, StartGc, GcStep, Collect, GcDone, Environment, Upload, Tick, SetBack,
          Probe, Crash, GiveUp, AutoCollect, allVars
    <2>2. now <= now' /\ now' \in Nat
      BY TimeGoesOn DEF Tick
    <2>3. pc'[Pruner] \in Writing => Before(Writing) /\ plan' = plan
      BY <1>1
      DEF GcNext, StartGc, GcStep, Collect, GcDone, Environment, Upload, Tick, SetBack,
          Probe, Crash, Leave, GiveUp, AutoCollect, allVars, Writing, Before
    <2> QED
      BY <2>1, <2>2, <2>3, CurrentStays
  <1> QED
    BY <1>1, ImporterCurrent, PrunerCurrent DEF Next

LEMMA OrderInvariant ==
    ASSUME ~ AutoGc, SteadyClock, MaxSetBacks = 0
    PROVE  Spec => [](PromiseInv /\ OrderInv)
  <1>1. InitAll => PromiseInv /\ OrderInv
    <2>1. InitAll => OrderInv
      BY ProcsAssumption
      DEF InitAll, Init, OrderInv, NoEarly, OwnInv, AheadInv, CurrentInv, Recent, Before,
          Writing, Handling, Importing, Rejecting, Procs
    <2> QED
      BY <2>1, PromiseInit
  <1>2. PromiseInv /\ OrderInv /\ [Next]_allVars => (PromiseInv /\ OrderInv)'
    BY PromiseInvNext, NoEarlyNext, OwnNext, AheadNext, CurrentNext
    DEF PromiseInv, RootedInv, BaseInv, OrderInv
  <1> QED
    BY <1>1, <1>2, PTL DEF Spec

\* Retention protects the pin of the last import, or one made later, and nothing
\* older, as long as stamps are in the order of imports: the clock is never set
\* back and an importer runs at a later second than the stamps of its namespaces.
THEOREM CurrentIsProtected ==
    ASSUME ~ AutoGc, SteadyClock, MaxSetBacks = 0
    PROVE  Spec => []NoRollback
  <1>1. PromiseInv /\ OrderInv => NoRollback
    <2> SUFFICES ASSUME PromiseInv, OrderInv, NEW ns \in Namespaces, Recent(ns)
                 PROVE  Stamps(ns) # {} /\ LatestStamp(ns) \notin superseded[ns]
      BY DEF NoRollback, Recent
    <2> USE DEF PromiseInv, RootedInv, BaseInv, TypeInv, TypeOK, OrderInv, CurrentInv
    <2>1. latest[ns] >= lastDone[ns] /\ lastDone[ns] # 0
      BY DEF Recent
    <2>2. latest[ns] \in Nat /\ lastDone[ns] \in Nat /\ superseded[ns] \subseteq Nat
      OBVIOUS
    <2>3. latest[ns] \in Stamps(ns)
      BY <2>1, <2>2 DEF LatestNamesAPin
    <2>4. LatestStamp(ns) = latest[ns]
      BY <2>3 DEF LatestStamp
    <2>5. \A s \in superseded[ns] : s < lastDone[ns]
      OBVIOUS
    <2>6. latest[ns] \notin superseded[ns]
      BY <2>1, <2>2, <2>5
    <2> QED
      BY <2>3, <2>4, <2>6
  <1> QED
    BY <1>1, OrderInvariant, PTL

=============================================================================
