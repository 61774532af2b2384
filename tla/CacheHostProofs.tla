--------------------------- MODULE CacheHostProofs ---------------------------
(***************************************************************************)
(* What holds of the cache host for every store graph, set of repos,       *)
(* namespaces and bundles, and every number of passes, crashes and clock   *)
(* steps: types and the lock; then what the roots guarantee.  As long as   *)
(* only cache-gc collects, no pin ever loses a path, and a pass that ends  *)
(* leaves exactly its plan rooted.                                         *)
(***************************************************************************)
EXTENDS CacheHost, StoreGraphProofs, FiniteSetTheorems

-----------------------------------------------------------------------------
(* Types and the lock *)

\* Exactly the lock's holder is at work.
LockInv == \A p \in Procs : pc[p] \notin {"idle", "wait"} <=> lock = p

\* An importer past its listing has a bundle at hand.
CurInv ==
    \A r \in Repos : pc[r] \in Importing \cup Rejecting \cup {"unlink"} => cur \in Bundles

\* Before a pass has planned there is no plan.
IdlePlan == pc[Pruner] \in {"idle", "wait", "sweep"} => plan = EmptyPlan

\* Stamps do not grow beyond all bounds: each namespace has a newest pin.
StampBound == \E n \in Nat : \A p \in pins : p.stamp <= n

TypeInv == TypeOK /\ LockInv /\ CurInv /\ IdlePlan
BaseInv == TypeInv /\ StampBound

LEMMA BaseInit == InitAll => BaseInv
<1> SUFFICES ASSUME InitAll PROVE BaseInv
  OBVIOUS
<1>1. Closure(SystemRoots) \in ClosedSets /\ {} \in ClosedSets
  BY ClosureIsClosed DEF ClosedSets, Closed
<1>2. TypeOK
  BY <1>1 DEF InitAll, Init, TypeOK, ClosedSets, Stages, Plan, EmptyPlan
<1>3. QED
  BY <1>2, ProcsAssumption DEF InitAll, Init, BaseInv, TypeInv, LockInv, CurInv, IdlePlan,
     StampBound, Procs, Importing, Rejecting

\* MaxOf is a maximum of every bounded set of stamps.
LEMMA BoundedHasMax ==
    ASSUME NEW S \in SUBSET Nat, S # {}, NEW n \in Nat, \A s \in S : s <= n
    PROVE  MaxOf(S) \in S /\ \A t \in S : t <= MaxOf(S)
<1> DEFINE Tails == {s .. n : s \in S}
<1>1. IsWellFoundedOn(StrictSubsetOrdering(Nat), FiniteSubsetsOf(Nat))
  BY FS_StrictSubsetOrderingWellFounded
<1>2. Tails # {} /\ Tails \subseteq FiniteSubsetsOf(Nat)
  <2>1. \A s \in S : s .. n \subseteq Nat /\ IsFiniteSet(s .. n)
    BY FS_Interval
  <2>2. QED
    BY <2>1 DEF FiniteSubsetsOf
<1>3. PICK T \in Tails : \A U \in Tails : ~ (<<U, T>> \in StrictSubsetOrdering(Nat))
  <2> HIDE DEF Tails
  <2> QED BY <1>1, <1>2, WFMin
<1>4. PICK m \in S : T = m .. n
  BY <1>3
<1>5. \A t \in S : t <= m
  <2>1. SUFFICES ASSUME NEW t \in S, m < t PROVE FALSE
    OBVIOUS
  <2>2. t .. n \subseteq m .. n /\ t .. n # m .. n
    <3>1. m \in m .. n /\ m \notin t .. n
      BY <2>1
    <3>2. t .. n \subseteq m .. n
      BY <2>1
    <3>3. QED
      BY <3>1, <3>2
  <2>3. <<t .. n, m .. n>> \in StrictSubsetOrdering(Nat)
    <3>1. t .. n \in SUBSET Nat /\ m .. n \in SUBSET Nat
      OBVIOUS
    <3> DEFINE A == t .. n  B == m .. n
    <3>2. A \in SUBSET Nat /\ B \in SUBSET Nat /\ A \subseteq B /\ A # B
      BY <2>2, <3>1
    <3> HIDE DEF A, B
    <3>3. <<A, B>> \in StrictSubsetOrdering(Nat)
      BY <3>2 DEF StrictSubsetOrdering
    <3>4. QED
      BY <3>3 DEF A, B
  <2>4. QED
    BY <1>3, <1>4, <2>3
<1>6. QED
  BY <1>5 DEF MaxOf

LEMMA StampsAreNat ==
    ASSUME pins \subseteq Pin, NEW ns
    PROVE  Stamps(ns) \subseteq Nat
BY DEF Stamps, Pin

\* Whatever stamps are left out, the newest of the rest is one of them.
LEMMA StampsHaveMax ==
    ASSUME pins \subseteq Pin, StampBound, NEW ns, NEW S \in SUBSET Stamps(ns), S # {}
    PROVE  MaxOf(S) \in S /\ \A t \in S : t <= MaxOf(S)
<1>1. PICK n \in Nat : \A p \in pins : p.stamp <= n
  BY DEF StampBound
<1>2. S \in SUBSET Nat /\ \A s \in S : s <= n
  BY <1>1, StampsAreNat DEF Stamps
<1>3. QED
  BY <1>1, <1>2, BoundedHasMax

\* Dropping pins keeps the bound, a new pin may raise it.
LEMMA BoundKept ==
    ASSUME StampBound, NEW D, pins' = pins \ D
    PROVE  StampBound'
BY DEF StampBound

LEMMA BoundRaised ==
    ASSUME pins \subseteq Pin, StampBound, NEW x \in Pin, pins' = pins \cup {x}
    PROVE  StampBound'
<1>1. PICK n \in Nat : \A p \in pins : p.stamp <= n
  BY DEF StampBound
<1>2. \A p \in pins' : p.stamp <= n + x.stamp
  BY <1>1 DEF Pin
<1>3. n + x.stamp \in Nat
  BY <1>1 DEF Pin
<1>4. QED
  BY <1>2, <1>3 DEF StampBound

LEMMA NoPlanIsPlan == EmptyPlan \in Plan
<1>1. {} \in ClosedSets
  BY DEF ClosedSets, Closed
<1>2. QED
  BY <1>1 DEF EmptyPlan, Plan

\* What a bundle names and what a closure holds are store paths.
LEMMA ImportedArePaths ==
    /\ Closure(Missing) \subseteq Paths
    /\ cur \in Bundles => /\ BundlePaths[cur] \in SUBSET Paths
                          /\ BundleRoots[cur] \in SUBSET Paths
                          /\ BundleNs[cur] \in Namespaces
BY BundlesAssumption, ClosureIsClosed DEF ClosedSets

LEMMA RegisterTypes ==
    ASSUME valid \subseteq Paths, fresh \subseteq Paths, NEW S \in SUBSET Paths, Register(S)
    PROVE  valid' \subseteq Paths /\ fresh' \subseteq Paths
BY DEF Register

LEMMA InterruptedTypes ==
    ASSUME TypeInv, NEW r \in Repos, Interrupted(r)
    PROVE  valid' \subseteq Paths /\ fresh' \subseteq Paths
<1> USE DEF TypeInv, TypeOK
<1>1. CASE \E S \in SUBSET (Closure(Missing) \cap Upstream) : TakesIn(S)
  BY <1>1, ImportedArePaths, RegisterTypes DEF TakesIn
<1>2. CASE At(r, "copy") /\ \E S \in SUBSET BundlePaths[cur] : TakesIn(S)
  <2>1. cur \in Bundles
    BY <1>2 DEF At, CurInv, Importing
  <2>2. QED
    BY <1>2, <2>1, ImportedArePaths, RegisterTypes DEF TakesIn
<1>3. CASE UNCHANGED storeVars
  BY <1>3 DEF storeVars
<1>4. QED
  BY <1>1, <1>2, <1>3 DEF Interrupted

LEMMA ImporterTypes ==
    ASSUME TypeInv, NEW r \in Repos, ImporterNext(r)
    PROVE  TypeInv'
<1> USE ProcsAssumption, BundlesAssumption
    DEF Procs, Stages, Importing, Rejecting, At, Goto, storeVars, pinVars, keepVars,
        dropVars, runVars, waitVars, history, vars, counters, TypeInv, TypeOK,
        LockInv, CurInv, IdlePlan
<1>1. CASE RunImporter(r)
  BY <1>1 DEF RunImporter, Start, Acquire, Incoming
<1>1a. CASE DropBundle(r) /\ UNCHANGED counters
  BY <1>1a DEF DropBundle, OldBundles
<1>1b. CASE DropReason(r) /\ UNCHANGED counters
  BY <1>1b DEF DropReason, OldReasons
<1>1c. CASE ListIncoming(r) /\ UNCHANGED counters
  BY <1>1c DEF ListIncoming, Incoming
<1>2. CASE TakeExtra(r) /\ UNCHANGED counters
  BY <1>2 DEF TakeExtra
<1>3. CASE TakeNext(r) /\ UNCHANGED counters
  BY <1>3 DEF TakeNext
<1>4. CASE Finish(r) /\ UNCHANGED counters
  BY <1>4, NoPlanIsPlan DEF Finish, Leave
<1>5. CASE Check(r) /\ UNCHANGED counters
  BY <1>5 DEF Check
<1>6. CASE Fetch(r) /\ UNCHANGED counters
  <2>1. valid' \subseteq Paths /\ fresh' \subseteq Paths
    BY <1>6, ImportedArePaths, RegisterTypes DEF Fetch
  <2>2. QED
    BY <1>6, <2>1 DEF Fetch
<1>7. CASE Copy(r) /\ UNCHANGED counters
  <2>1. valid' \subseteq Paths /\ fresh' \subseteq Paths
    BY <1>7, ImportedArePaths, RegisterTypes DEF Copy, TakesIn
  <2>2. QED
    BY <1>7, <2>1 DEF Copy
<1>8. CASE Verify(r) /\ UNCHANGED counters
  BY <1>8 DEF Verify
<1>9. CASE SweepTemp(r) /\ UNCHANGED counters
  BY <1>9 DEF SweepTemp
<1>10. CASE LinkRoot(r) /\ UNCHANGED counters
  <2>1. PICK root \in BundleRoots[cur] : junk' = [junk EXCEPT ![ImportNs] = @ \cup {root}]
    BY <1>10 DEF LinkRoot
  <2>2. root \in Paths
    BY <1>10, <2>1, ImportedArePaths DEF LinkRoot
  <2>3. junk' \in [Namespaces -> SUBSET Paths]
    BY <2>1, <2>2
  <2>4. pc' = [pc EXCEPT ![r] = "rename"] \/ pc' = [pc EXCEPT ![r] = "link"]
    BY <1>10 DEF LinkRoot
  <2>5. QED
    BY <1>10, <2>3, <2>4 DEF LinkRoot
<1>11. CASE RenamePin(r) /\ UNCHANGED counters
  <2>1. PICK s \in {began} \cup {u + 1 : u \in Stamps(ImportNs)} :
            /\ stamp' = s
            /\ pins' = pins \cup {[ns |-> ImportNs, stamp |-> s, targets |-> junk[ImportNs]]}
            /\ superseded' = [superseded EXCEPT ![ImportNs] = @ \ {s}]
    BY <1>11 DEF RenamePin
  <2>2. s \in Nat
    BY <2>1, StampsAreNat
  <2>3. ImportNs \in Namespaces /\ junk[ImportNs] \in SUBSET Paths
    BY <1>11, ImportedArePaths DEF RenamePin, ImportNs
  <2>4. pins' \subseteq Pin
    BY <2>1, <2>2, <2>3 DEF Pin
  <2>5. superseded' \in [Namespaces -> SUBSET Nat]
    BY <2>1
  <2>6. QED
    BY <1>11, <2>1, <2>2, <2>4, <2>5 DEF RenamePin
<1>12. CASE SetLatest(r) /\ UNCHANGED counters
  <2>1. Stamps(ImportNs) \subseteq Nat
    BY StampsAreNat
  <2>2. superseded' \in [Namespaces -> SUBSET Nat]
    BY <1>12, <2>1 DEF SetLatest
  <2>3. QED
    BY <1>12, <2>2 DEF SetLatest
<1>13. CASE Unlink(r) /\ UNCHANGED counters
  BY <1>13 DEF Unlink
<1>14. CASE ImportFails(r) /\ UNCHANGED counters
  <2>1. valid' \subseteq Paths /\ fresh' \subseteq Paths
    BY <1>14, InterruptedTypes DEF ImportFails
  <2>2. junk' \in [Namespaces -> SUBSET Paths]
    BY <1>14 DEF ImportFails
  <2>3. QED
    BY <1>14, <2>1, <2>2 DEF ImportFails
<1>15. CASE WriteReason(r) /\ UNCHANGED counters
  BY <1>15 DEF WriteReason
<1>16. CASE QueueAlert(r) /\ UNCHANGED counters
  BY <1>16 DEF QueueAlert
<1>17. CASE MoveToFailed(r) /\ UNCHANGED counters
  BY <1>17 DEF MoveToFailed
<1>18. QED
  BY <1>1, <1>1a, <1>1b, <1>1c, <1>2, <1>3, <1>4, <1>5, <1>6, <1>7, <1>8, <1>9, <1>10, <1>11, <1>12, <1>13,
     <1>14, <1>15, <1>16, <1>17 DEF ImporterNext, ImportStep

\* A plan keeps a closed set and names pins to delete.
LEMMA PlanTypes ==
    ASSUME pins \subseteq Pin, NEW keep \in ClosedSets
    PROVE  [keep |-> keep, delete |-> {p \in pins \ ProtectedPins : ~ p.targets \subseteq keep},
            doomed |-> {}] \in Plan
BY DEF Plan

LEMMA PrunerTypes ==
    ASSUME TypeInv, StampBound, PrunerNext
    PROVE  TypeInv'
<1> USE ProcsAssumption, BundlesAssumption
    DEF Procs, Stages, Importing, Rejecting, At, Goto, storeVars, pinVars, keepVars,
        dropVars, runVars, waitVars, history, vars, counters, TypeInv, TypeOK, LockInv,
        CurInv, IdlePlan
<1>1. CASE TimerFires
  BY <1>1 DEF TimerFires, AskPass
<1>2. CASE StartPass /\ UNCHANGED counters
  BY <1>2 DEF StartPass, Acquire
<1>3. CASE SweepAll /\ UNCHANGED counters
  BY <1>3 DEF SweepAll
<1>4. CASE MakePlan /\ UNCHANGED counters
  <2>1. plan' \in Plan
    BY <1>4, PlanTypes DEF MakePlan, IsPlanFor
  <2>2. QED
    BY <1>4, <2>1 DEF MakePlan
<1>5. CASE DropOrphans /\ UNCHANGED counters
  BY <1>5 DEF DropOrphans
<1>6. CASE LinkTop /\ UNCHANGED counters
  <2>1. keepTmp' \subseteq Paths
    BY <1>6 DEF LinkTop, Tops, Plan, ClosedSets
  <2>2. QED
    BY <1>6, <2>1 DEF LinkTop
<1>7. CASE ClearFinal /\ UNCHANGED counters
  BY <1>7 DEF ClearFinal
<1>8. CASE CommitKeep /\ UNCHANGED counters
  BY <1>8 DEF CommitKeep
<1>9. CASE DropOldKeep /\ UNCHANGED counters
  BY <1>9 DEF DropOldKeep
<1>10. CASE KeepWritten /\ UNCHANGED counters
  BY <1>10 DEF KeepWritten
<1>11. CASE Retarget /\ UNCHANGED counters
  <2>1. PICK p \in plan.delete :
          /\ latest' = [latest EXCEPT ![p.ns] = NextLatest(p.ns, Stamps(p.ns) \ {p.stamp})]
          /\ plan' = [plan EXCEPT !.delete = @ \ {p}, !.doomed = {p}]
    BY <1>11 DEF Retarget
  <2>2. p \in Pin /\ plan' \in Plan
    <3>1. plan.delete \in SUBSET Pin
      BY DEF Plan
    <3>2. p \in Pin
      BY <2>1, <3>1
    <3>3. plan.delete \ {p} \in SUBSET Pin /\ {p} \in SUBSET Pin
      BY <3>1, <3>2
    <3>4. QED
      BY <2>1, <3>2, <3>3 DEF Plan
  <2>3. latest' \in [Namespaces -> Nat]
    <3>1. Stamps(p.ns) \ {p.stamp} # {} => MaxOf(Stamps(p.ns) \ {p.stamp}) \in Nat
      <4>1. pins \subseteq Pin /\ Stamps(p.ns) \ {p.stamp} \in SUBSET Stamps(p.ns)
        OBVIOUS
      <4>2. QED
        BY <4>1, StampsHaveMax, StampsAreNat
    <3>2. QED
      BY <2>1, <3>1 DEF NextLatest
  <2>4. QED
    BY <1>11, <2>2, <2>3 DEF Retarget
<1>12. CASE RenameAway /\ UNCHANGED counters
  <2>1. junk' \in [Namespaces -> SUBSET Paths]
    BY <1>12 DEF RenameAway, Plan, Pin
  <2>2. QED
    BY <1>12, <2>1 DEF RenameAway
<1>13. CASE Purge /\ UNCHANGED counters
  <2>1. plan' \in Plan
    BY <1>13 DEF Purge, Plan
  <2>2. QED
    BY <1>13, <2>1 DEF Purge
<1>14. CASE PassDone /\ UNCHANGED counters
  <2>1. gcWanted' \in BOOLEAN
    BY <1>14 DEF PassDone
  <2>2. TypeOK'
    BY <1>14, <2>1, NoPlanIsPlan DEF PassDone, Leave
  <2>3. LockInv'
    BY <1>14 DEF PassDone, Leave
  <2>4. CurInv'
    BY <1>14 DEF PassDone, Leave
  <2>5. IdlePlan'
    BY <1>14 DEF PassDone, Leave
  <2>6. QED
    BY <2>2, <2>3, <2>4, <2>5
<1>15. QED
  BY <1>1, <1>2, <1>3, <1>4, <1>5, <1>6, <1>7, <1>8, <1>9, <1>10, <1>11, <1>12, <1>13,
     <1>14 DEF PrunerNext, PassStep

LEMMA GcTypes ==
    ASSUME TypeInv, GcNext
    PROVE  TypeInv'
<1> USE ProcsAssumption
    DEF Procs, Stages, Importing, Rejecting, At, Goto, storeVars, pinVars, keepVars,
        dropVars, runVars, waitVars, history, vars, counters, TypeInv, TypeOK, LockInv,
        CurInv, IdlePlan
<1>1. CASE StartGc /\ UNCHANGED counters
  BY <1>1 DEF StartGc, Acquire
<1>2. CASE Collect /\ UNCHANGED counters
  BY <1>2 DEF Collect, Remove
<1>3. CASE GcDone /\ UNCHANGED counters
  <2>1. gcWanted' \in BOOLEAN
    BY <1>3 DEF GcDone
  <2>2. TypeOK'
    BY <1>3, <2>1, NoPlanIsPlan DEF GcDone, Leave
  <2>3. LockInv'
    BY <1>3 DEF GcDone, Leave
  <2>4. CurInv'
    BY <1>3 DEF GcDone, Leave
  <2>5. IdlePlan'
    BY <1>3 DEF GcDone, Leave
  <2>6. QED
    BY <2>2, <2>3, <2>4, <2>5
<1>4. QED
  BY <1>1, <1>2, <1>3 DEF GcNext, GcStep

LEMMA EnvironmentTypes ==
    ASSUME TypeInv, Environment
    PROVE  TypeInv'
<1> USE ProcsAssumption
    DEF Procs, Stages, Importing, Rejecting, At, Goto, storeVars, pinVars, keepVars,
        dropVars, runVars, waitVars, history, vars, counters, TypeInv, TypeOK, LockInv,
        CurInv, IdlePlan
<1>1. CASE \E b \in Bundles : Upload(b)
  BY <1>1 DEF Upload
<1>2. CASE Tick
  BY <1>2 DEF Tick
<1>3. CASE SetBack
  BY <1>3 DEF SetBack
<1>4. CASE \E p \in Paths : Probe(p)
  BY <1>4 DEF Probe
<1>5. CASE \E p \in Procs : Crash(p)
  <2>1. valid' \subseteq Paths /\ fresh' \subseteq Paths
    BY <1>5, InterruptedTypes DEF Crash
  <2>2. QED
    BY <1>5, <2>1, NoPlanIsPlan DEF Crash, Leave
<1>6. CASE GiveUp
  BY <1>6 DEF GiveUp
<1>7. CASE AutoCollect
  BY <1>7 DEF AutoCollect, Remove
<1>8. QED
  BY <1>1, <1>2, <1>3, <1>4, <1>5, <1>6, <1>7 DEF Environment

\* Only RenamePin adds a pin and only RenameAway removes some.
LEMMA BoundNext ==
    ASSUME TypeInv, StampBound, [Next]_allVars
    PROVE  StampBound'
<1> USE ProcsAssumption DEF Procs, storeVars, pinVars, keepVars, dropVars, runVars, waitVars,
        history, vars, counters
<1>1. ASSUME NEW r \in Repos, RenamePin(r) PROVE StampBound'
  <2>1. PICK s \in {began} \cup {u + 1 : u \in Stamps(ImportNs)} :
            pins' = pins \cup {[ns |-> ImportNs, stamp |-> s, targets |-> junk[ImportNs]]}
    BY <1>1 DEF RenamePin
  <2>2. s \in Nat
    BY <2>1, StampsAreNat DEF TypeInv, TypeOK
  <2>3. ImportNs \in Namespaces /\ junk[ImportNs] \in SUBSET Paths
    BY <1>1, ImportedArePaths DEF RenamePin, ImportNs, TypeInv, TypeOK, CurInv, At, Importing
  <2>4. [ns |-> ImportNs, stamp |-> s, targets |-> junk[ImportNs]] \in Pin
    BY <2>2, <2>3 DEF Pin
  <2>5. QED
    BY <2>1, <2>4, BoundRaised DEF TypeInv, TypeOK
<1>2. ASSUME RenameAway PROVE StampBound'
  BY <1>2, BoundKept DEF RenameAway
<1>3. ASSUME pins' = pins PROVE StampBound'
  BY <1>3 DEF StampBound
<1>4. ASSUME NEW r \in Repos, ImporterNext(r), ~ RenamePin(r) PROVE pins' = pins
  BY <1>4 DEF ImporterNext, RunImporter, ImportStep, Start, DropBundle, DropReason,
     ListIncoming, TakeExtra, TakeNext, Finish, Check, Fetch, Copy, Verify, SweepTemp,
     LinkRoot, SetLatest, Unlink, ImportFails, WriteReason, QueueAlert, MoveToFailed
<1>5. ASSUME PrunerNext, ~ RenameAway PROVE pins' = pins
  BY <1>5 DEF PrunerNext, TimerFires, AskPass, PassStep, StartPass, SweepAll, MakePlan,
     DropOrphans, LinkTop, ClearFinal, CommitKeep, DropOldKeep, KeepWritten, Retarget,
     Purge, PassDone
<1>6. ASSUME GcNext PROVE pins' = pins
  BY <1>6 DEF GcNext, StartGc, GcStep, Collect, GcDone
<1>7. ASSUME Environment PROVE pins' = pins
  BY <1>7 DEF Environment, Upload, Tick, SetBack, Probe, Crash, GiveUp, AutoCollect
<1>8. ASSUME UNCHANGED allVars PROVE pins' = pins
  BY <1>8 DEF allVars
<1>9. QED
  BY <1>1, <1>2, <1>3, <1>4, <1>5, <1>6, <1>7, <1>8 DEF Next

LEMMA BaseNext == BaseInv /\ [Next]_allVars => BaseInv'
<1> SUFFICES ASSUME BaseInv, [Next]_allVars PROVE BaseInv'
  OBVIOUS
<1>1. StampBound'
  BY BoundNext DEF BaseInv
<1>2. TypeInv'
  <2>1. ASSUME NEW r \in Repos, ImporterNext(r) PROVE TypeInv'
    BY <2>1, ImporterTypes DEF BaseInv
  <2>2. CASE PrunerNext
    BY <2>2, PrunerTypes DEF BaseInv
  <2>3. CASE GcNext
    BY <2>3, GcTypes DEF BaseInv
  <2>4. CASE Environment
    BY <2>4, EnvironmentTypes DEF BaseInv
  <2>5. CASE UNCHANGED allVars
    BY <2>5 DEF BaseInv, TypeInv, TypeOK, LockInv, CurInv, IdlePlan, allVars, vars, counters,
       storeVars, pinVars, keepVars, dropVars, runVars, waitVars, history
  <2>6. QED
    BY <2>1, <2>2, <2>3, <2>4, <2>5 DEF Next
<1>3. QED
  BY <1>1, <1>2 DEF BaseInv

\* The lock excludes: whatever crashes and whoever waits, at most one program is
\* at work, and it is the one the lock names.
THEOREM OneAtATime == Spec => []BaseInv
<1>1. InitAll => BaseInv
  BY BaseInit
<1>2. BaseInv /\ [Next]_allVars => BaseInv'
  BY BaseNext
<1>3. QED
  BY <1>1, <1>2, PTL DEF Spec

\* Every variable keeps to the values its comment in HostState gives it.
THEOREM TypeCorrect == Spec => []TypeOK
<1>1. BaseInv => TypeOK
  BY DEF BaseInv, TypeInv
<1>2. QED
  BY <1>1, OneAtATime, PTL

-----------------------------------------------------------------------------
(* The inductive invariant of the store *)

\* The store is closed, and every root is in it.
StoreInv == Closed(valid) /\ Roots \subseteq valid

\* So is what the run at work is about to root: the bundle's roots once they
\* were looked at for the last time, ...
ImportInv ==
    \A r \in Repos : pc[r] \in {"sweep", "link", "rename"} => BundleRoots[cur] \subseteq valid

\* ... the planned keep set, and the pins on their way out.
PlanInv ==
    /\ plan.keep \subseteq valid
    /\ \A p \in plan.delete \cup plan.doomed : p.targets \subseteq valid

RootedInv == BaseInv /\ StoreInv /\ ImportInv /\ PlanInv

-----------------------------------------------------------------------------
(* The inductive invariant of a pass *)

Before(stages) == pc[Pruner] \in stages
Writing == {"orphans", "top", "commit", "old", "delete", "away", "purge"}

\* Temp directories are gone once swept, but for the pin being deleted.
JunkInv ==
    /\ Before({"plan", "orphans", "top", "commit", "old", "delete", "away"}) =>
        \A ns \in Namespaces : junk[ns] = {}
    /\ Before({"purge"}) =>
        \A ns \in Namespaces : junk[ns] # {} => \E p \in plan.doomed : p.ns = ns

\* The keep directory is filled, committed, and then the only one.
ThisKeep == [at |-> began, tops |-> Tops(plan.keep)]

KeepInv ==
    /\ Before({"top"}) => keepTmp \subseteq Tops(plan.keep)
    /\ Before({"commit"}) => keepTmp = Tops(plan.keep) /\ \A k \in keeps : k.at # began
    /\ Before({"old", "delete", "away", "purge"}) => keepTmp = {}
    /\ Before({"old"}) => ThisKeep \in keeps /\ \A k \in keeps : k.at = began => k = ThisKeep
    /\ Before({"delete", "away", "purge"}) => keeps = {ThisKeep}

\* A pin that needs more than the plan keeps is on its way out.
DeleteInv ==
    /\ Before(Writing) =>
        \A p \in pins : p.targets \subseteq plan.keep \/ p \in plan.delete \cup plan.doomed
    /\ pc[Pruner] \notin {"away", "purge"} => plan.doomed = {}
    /\ Before({"purge"}) => pins \cap plan.doomed = {}

PassParts == JunkInv /\ KeepInv /\ DeleteInv
PassInv == RootedInv /\ PassParts

-----------------------------------------------------------------------------
(* Roots and the store *)

\* Rooted paths stay in the store if no new root appears.
LEMMA RootsFrame ==
    ASSUME UNCHANGED <<pins, junk, keeps, keepTmp>>
    PROVE  Roots' = Roots
BY DEF Roots, PinRoots, JunkRoots, KeepRoots

\* Where the roots come from, one kind at a time.
LEMMA RootsBelow ==
    ASSUME NEW S,
           SystemRoots \subseteq S,
           \A p \in pins' : p.targets \subseteq S,
           \A ns \in Namespaces : junk'[ns] \subseteq S,
           \A k \in keeps' : k.tops \subseteq S,
           keepTmp' \subseteq S
    PROVE  Roots' \subseteq S
BY DEF Roots, PinRoots, JunkRoots, KeepRoots

LEMMA RootsAbove ==
    ASSUME NEW S, Roots \subseteq S
    PROVE  /\ SystemRoots \subseteq S
           /\ \A p \in pins : p.targets \subseteq S
           /\ \A ns \in Namespaces : junk[ns] \subseteq S
           /\ \A k \in keeps : k.tops \subseteq S
           /\ keepTmp \subseteq S
BY DEF Roots, PinRoots, JunkRoots, KeepRoots

\* While anyone but the pruner is at work there is no plan.
LEMMA NoPlan ==
    ASSUME TypeInv, lock # Pruner
    PROVE  pc[Pruner] \in {"idle", "wait"} /\ plan = EmptyPlan
BY ProcsAssumption DEF TypeInv, TypeOK, LockInv, IdlePlan, Procs

LEMMA EmptyPlanInv == plan = EmptyPlan => PlanInv
BY DEF PlanInv, EmptyPlan

\* What an import adds to the store keeps it closed.
LEMMA StoreGrows ==
    ASSUME TypeInv, StoreInv, NEW S \in SUBSET Paths, Register(S), Closed(valid \cup S),
           UNCHANGED <<pins, junk, keeps, keepTmp>>
    PROVE  StoreInv'
<1>1. Closed(valid)' /\ valid \subseteq valid'
  BY DEF Register, Closed
<1>2. QED
  BY <1>1, RootsFrame DEF StoreInv

\* So does an import that stops half way.
LEMMA InterruptedGrows ==
    ASSUME StoreInv, NEW p, Interrupted(p)
    PROVE  Closed(valid)' /\ valid \subseteq valid'
<1>1. ASSUME NEW S, TakesIn(S) PROVE Closed(valid') /\ valid \subseteq valid'
  BY <1>1 DEF TakesIn, Register
<1>2. CASE UNCHANGED storeVars
  BY <1>2 DEF StoreInv, Closed, storeVars
<1>3. Closed(valid') /\ valid \subseteq valid'
  BY <1>1, <1>2 DEF Interrupted
<1>4. QED
  BY <1>3 DEF Closed

LEMMA StoreStays ==
    ASSUME StoreInv, valid' = valid, UNCHANGED <<pins, junk, keeps, keepTmp>>
    PROVE  StoreInv'
<1>1. Closed(valid)'
  BY DEF StoreInv, Closed
<1>2. QED
  BY <1>1, RootsFrame DEF StoreInv

LEMMA StoreKeepsRoots ==
    ASSUME StoreInv, valid' = valid, (Roots \subseteq valid)'
    PROVE  StoreInv'
BY DEF StoreInv, Closed

\* The missing references with all they need fit the store.
LEMMA FetchFits ==
    ASSUME TypeInv, StoreInv
    PROVE  Closed(valid \cup Closure(Missing))
<1>1. valid \in ClosedSets /\ Closure(Missing) \in ClosedSets
  BY ClosureIsClosed DEF StoreInv, ClosedSets, TypeInv, TypeOK
<1>2. QED
  BY <1>1, ClosedUnion DEF ClosedSets

LEMMA ImporterRooted ==
    ASSUME RootedInv, NEW r \in Repos, ImporterNext(r)
    PROVE  (StoreInv /\ ImportInv /\ PlanInv)'
<1> USE ProcsAssumption
    DEF RootedInv, BaseInv, Procs, At, Goto, storeVars, pinVars, keepVars, dropVars, runVars,
        waitVars, history, vars, counters
<1> DEFINE Linking == {"sweep", "link", "rename"}
<1>1. lock # Pruner /\ lock' # Pruner /\ \A q \in Repos \ {r} : pc[q] \in {"idle", "wait"}
  <2>1. CASE RunImporter(r)
    BY <2>1 DEF RunImporter, Start, Acquire, TypeInv, LockInv
  <2>2. CASE ImportStep(r)
    <3>1. pc[r] \notin {"idle", "wait"}
      BY <2>2 DEF ImportStep, DropBundle, DropReason, ListIncoming, TakeExtra, TakeNext,
         Finish, Check, Fetch, Copy, Verify, SweepTemp, LinkRoot, RenamePin, SetLatest,
         Unlink, ImportFails, WriteReason, QueueAlert, MoveToFailed, Importing
    <3>2. lock = r
      BY <3>1 DEF TypeInv, LockInv
    <3>3. lock' = r \/ lock' = NoProc
      BY <2>2, <3>2 DEF ImportStep, DropBundle, DropReason, ListIncoming, TakeExtra, TakeNext,
         Finish, Leave, Check, Fetch, Copy, Verify, SweepTemp, LinkRoot, RenamePin, SetLatest,
         Unlink, ImportFails, WriteReason, QueueAlert, MoveToFailed
    <3>4. QED
      BY <3>2, <3>3 DEF TypeInv, LockInv
  <2>3. QED
    BY <2>1, <2>2 DEF ImporterNext
<1>2. PlanInv'
  <2>1. TypeInv'
    BY ImporterTypes
  <2>2. plan' = EmptyPlan
    BY <1>1, <2>1, ProcsAssumption DEF TypeInv, TypeOK, LockInv, IdlePlan
  <2>3. QED
    BY <2>2, EmptyPlanInv DEF PlanInv, EmptyPlan
<1>3. \A q \in Repos \ {r} : pc'[q] = pc[q]
  BY DEF ImporterNext, RunImporter, Start, ImportStep, DropBundle, DropReason, ListIncoming,
     TakeExtra, TakeNext, Finish, Leave, Check, Fetch, Copy, Verify, SweepTemp, LinkRoot,
     RenamePin, SetLatest, Unlink, ImportFails, WriteReason, QueueAlert, MoveToFailed,
     TypeInv, TypeOK
<1>4. ASSUME pc'[r] \in Linking => BundleRoots[cur'] \subseteq valid'
      PROVE  ImportInv'
  BY <1>1, <1>3, <1>4 DEF ImportInv
<1> USE DEF TypeInv, TypeOK
<1>5. CASE Fetch(r)
  <2>1. Closure(Missing) \in SUBSET Paths
    BY ImportedArePaths
  <2>2. StoreInv'
    BY <1>5, <2>1, FetchFits, StoreGrows DEF Fetch
  <2>3. QED
    BY <1>5, <2>2, <1>2, <1>4 DEF Fetch
<1>6. CASE Copy(r)
  <2>1. BundlePaths[cur] \in SUBSET Paths
    BY <1>6, ImportedArePaths DEF Copy, CurInv, Importing
  <2>2. StoreInv'
    BY <1>6, <2>1, StoreGrows DEF Copy, TakesIn
  <2>3. QED
    BY <1>6, <2>2, <1>2, <1>4 DEF Copy
<1>7. CASE Verify(r)
  BY <1>7, <1>2, <1>4, StoreStays DEF Verify
<1>8. CASE SweepTemp(r)
  <2>1. (Roots \subseteq valid)'
    BY <1>8, RootsAbove, RootsBelow DEF SweepTemp, StoreInv
  <2>2. QED
    BY <1>8, <2>1, <1>2, <1>4, StoreKeepsRoots DEF SweepTemp, ImportInv
<1>9. CASE LinkRoot(r)
  <2>1. PICK root \in BundleRoots[cur] : junk' = [junk EXCEPT ![ImportNs] = @ \cup {root}]
    BY <1>9 DEF LinkRoot
  <2>2. root \in valid
    BY <1>9, <2>1 DEF LinkRoot, ImportInv
  <2>3. (Roots \subseteq valid)'
    <3>1. /\ SystemRoots \subseteq valid /\ keepTmp \subseteq valid
          /\ \A p \in pins : p.targets \subseteq valid
          /\ \A ns \in Namespaces : junk[ns] \subseteq valid
          /\ \A k \in keeps : k.tops \subseteq valid
      BY RootsAbove DEF StoreInv
    <3>2. \A ns \in Namespaces : junk'[ns] \subseteq valid
      BY <2>1, <2>2, <3>1
    <3>3. UNCHANGED <<valid, pins, keeps, keepTmp>>
      BY <1>9 DEF LinkRoot
    <3>4. QED
      BY <3>1, <3>2, <3>3, RootsBelow
  <2>4. QED
    BY <1>9, <2>3, <1>2, <1>4, StoreKeepsRoots DEF LinkRoot, ImportInv
<1>10. CASE RenamePin(r)
  <2>1. PICK s : pins' = pins \cup
                    {[ns |-> ImportNs, stamp |-> s, targets |-> junk[ImportNs]]}
    BY <1>10 DEF RenamePin
  <2>2. ImportNs \in Namespaces
    BY <1>10, ImportedArePaths DEF RenamePin, ImportNs, CurInv, Importing
  <2>3. (Roots \subseteq valid)'
    <3>1. /\ SystemRoots \subseteq valid /\ keepTmp \subseteq valid
          /\ \A p \in pins : p.targets \subseteq valid
          /\ \A ns \in Namespaces : junk[ns] \subseteq valid
          /\ \A k \in keeps : k.tops \subseteq valid
      BY RootsAbove DEF StoreInv
    <3>2. \A p \in pins' : p.targets \subseteq valid
      BY <2>1, <2>2, <3>1
    <3>3. \A ns \in Namespaces : junk'[ns] \subseteq valid
      BY <1>10, <3>1 DEF RenamePin
    <3>4. UNCHANGED <<valid, keeps, keepTmp>>
      BY <1>10 DEF RenamePin
    <3>5. QED
      BY <3>1, <3>2, <3>3, <3>4, RootsBelow
  <2>4. QED
    BY <1>10, <2>3, <1>2, <1>4, StoreKeepsRoots DEF RenamePin
<1>11. CASE ImportFails(r)
  <2>1. Closed(valid') /\ valid \subseteq valid'
    BY <1>11, InterruptedGrows DEF ImportFails
  <2>2. (Roots \subseteq valid)'
    BY <1>11, <2>1, RootsAbove, RootsBelow DEF ImportFails, StoreInv
  <2>3. QED
    BY <1>11, <2>1, <2>2, <1>2, <1>4 DEF ImportFails, StoreInv, Closed
<1>12. CASE \/ RunImporter(r) \/ DropBundle(r) \/ DropReason(r) \/ ListIncoming(r)
            \/ TakeExtra(r) \/ TakeNext(r) \/ Finish(r) \/ Check(r) \/ SetLatest(r)
            \/ Unlink(r) \/ WriteReason(r) \/ QueueAlert(r) \/ MoveToFailed(r)
  <2>1. UNCHANGED <<valid, pins, junk, keeps, keepTmp>> /\ pc'[r] \notin Linking
    BY <1>12 DEF RunImporter, Start, DropBundle, DropReason, ListIncoming, TakeExtra,
       TakeNext, Finish, Leave, Check, SetLatest, Unlink, WriteReason, QueueAlert,
       MoveToFailed
  <2>2. QED
    BY <2>1, <1>2, <1>4, StoreStays
<1>13. QED
  BY <1>5, <1>6, <1>7, <1>8, <1>9, <1>10, <1>11, <1>12 DEF ImporterNext, ImportStep

\* A plan is made of what the store has.
LEMMA PlanFits ==
    ASSUME RootedInv, MakePlan
    PROVE  PlanInv'
<1> USE DEF RootedInv, BaseInv, TypeInv, TypeOK
<1>1. PICK keep \in ClosedSets :
        /\ IsPlanFor(keep, Must, Pool)
        /\ plan' = [keep   |-> keep,
                    delete |-> {p \in pins \ ProtectedPins : ~ p.targets \subseteq keep},
                    doomed |-> {}]
  BY DEF MakePlan, IsPlanFor
<1>2. valid \in ClosedSets /\ Must \cup Pool \subseteq valid
  BY DEF StoreInv, ClosedSets, Must, Pool
<1>3. keep \subseteq valid
  BY <1>1, <1>2, ClosureIsLeast DEF IsPlanFor
<1>4. \A p \in pins : p.targets \subseteq valid
  BY RootsAbove DEF StoreInv
<1>5. valid' = valid
  BY DEF MakePlan, storeVars
<1>6. QED
  BY <1>1, <1>3, <1>4, <1>5 DEF PlanInv

LEMMA PrunerRooted ==
    ASSUME RootedInv, PrunerNext
    PROVE  (StoreInv /\ ImportInv /\ PlanInv)'
<1> USE ProcsAssumption
    DEF RootedInv, BaseInv, TypeInv, TypeOK, Procs, At, Goto, storeVars, pinVars, keepVars,
        dropVars, runVars, waitVars, history, vars, counters
<1>1. valid' = valid
  BY DEF PrunerNext, TimerFires, AskPass, PassStep, StartPass, SweepAll, MakePlan,
     DropOrphans, LinkTop, ClearFinal, CommitKeep, DropOldKeep, KeepWritten, Retarget,
     RenameAway, Purge, PassDone
<1>2. /\ SystemRoots \subseteq valid /\ keepTmp \subseteq valid
      /\ \A p \in pins : p.targets \subseteq valid
      /\ \A ns \in Namespaces : junk[ns] \subseteq valid
      /\ \A k \in keeps : k.tops \subseteq valid
  BY RootsAbove DEF StoreInv
<1>3. ImportInv'
  <2>1. \A r \in Repos : pc'[r] = pc[r]
    BY DEF PrunerNext, TimerFires, AskPass, PassStep, StartPass, SweepAll, MakePlan,
       DropOrphans, LinkTop, ClearFinal, CommitKeep, DropOldKeep, KeepWritten, Retarget,
       RenameAway, Purge, PassDone, Leave
  <2>2. cur' = cur \/ lock = Pruner
    BY DEF PrunerNext, TimerFires, AskPass, PassStep, StartPass, SweepAll, MakePlan,
       DropOrphans, LinkTop, ClearFinal, CommitKeep, DropOldKeep, KeepWritten, Retarget,
       RenameAway, Purge, PassDone, LockInv
  <2>3. QED
    BY <1>1, <2>1, <2>2 DEF ImportInv, LockInv
<1>4. CASE SweepAll
  BY <1>1, <1>2, <1>3, <1>4, RootsBelow, StoreKeepsRoots DEF SweepAll, PlanInv
<1>5. CASE MakePlan
  BY <1>3, <1>5, PlanFits, StoreStays DEF MakePlan
<1>6. CASE DropOrphans
  BY <1>1, <1>2, <1>3, <1>6, RootsBelow, StoreKeepsRoots DEF DropOrphans, PlanInv
<1>7. CASE LinkTop
  <2>1. Tops(plan.keep) \subseteq valid
    BY DEF Tops, PlanInv
  <2>2. keepTmp' \subseteq valid
    BY <1>2, <1>7, <2>1 DEF LinkTop
  <2>3. QED
    BY <1>1, <1>2, <1>3, <1>7, <2>2, RootsBelow, StoreKeepsRoots DEF LinkTop, PlanInv
<1>8. CASE ClearFinal
  BY <1>1, <1>2, <1>3, <1>8, RootsBelow, StoreKeepsRoots DEF ClearFinal, PlanInv
<1>9. CASE CommitKeep
  <2>1. \A k \in keeps' : k.tops \subseteq valid
    BY <1>2, <1>9 DEF CommitKeep
  <2>2. QED
    BY <1>1, <1>2, <1>3, <1>9, <2>1, RootsBelow, StoreKeepsRoots DEF CommitKeep, PlanInv
<1>10. CASE DropOldKeep
  BY <1>1, <1>2, <1>3, <1>10, RootsBelow, StoreKeepsRoots DEF DropOldKeep, PlanInv
<1>11. CASE Retarget
  <2>1. PlanInv'
    BY <1>1, <1>11 DEF Retarget, PlanInv, Plan
  <2>2. QED
    BY <1>3, <1>11, <2>1, StoreStays DEF Retarget
<1>12. CASE RenameAway
  <2>1. \A ns \in Namespaces : junk'[ns] \subseteq valid
    BY <1>2, <1>12 DEF RenameAway, PlanInv
  <2>2. \A p \in pins' : p.targets \subseteq valid
    BY <1>2, <1>12 DEF RenameAway
  <2>3. UNCHANGED <<keeps, keepTmp, plan>>
    BY <1>12 DEF RenameAway
  <2>4. (Roots \subseteq valid)'
    BY <1>1, <1>2, <2>1, <2>2, <2>3, RootsBelow
  <2>5. QED
    BY <1>1, <1>3, <2>3, <2>4, StoreKeepsRoots DEF PlanInv
<1>13. CASE Purge
  <2>1. PlanInv'
    BY <1>1, <1>13 DEF Purge, PlanInv, Plan
  <2>2. \A ns \in Namespaces : junk'[ns] \subseteq valid
    BY <1>2, <1>13 DEF Purge
  <2>3. UNCHANGED <<pins, keeps, keepTmp>>
    BY <1>13 DEF Purge
  <2>4. (Roots \subseteq valid)'
    BY <1>1, <1>2, <2>2, <2>3, RootsBelow
  <2>5. QED
    BY <1>1, <1>3, <2>1, <2>4, StoreKeepsRoots
<1>14. CASE TimerFires \/ StartPass \/ KeepWritten \/ PassDone
  <2>1. UNCHANGED <<pins, junk, keeps, keepTmp>> /\ plan' \in {plan, EmptyPlan}
    BY <1>14 DEF TimerFires, AskPass, StartPass, KeepWritten, PassDone, Leave
  <2>2. PlanInv'
    BY <1>1, <2>1 DEF PlanInv, EmptyPlan
  <2>3. QED
    BY <1>1, <1>3, <2>1, <2>2, StoreStays
<1>15. QED
  BY <1>4, <1>5, <1>6, <1>7, <1>8, <1>9, <1>10, <1>11, <1>12, <1>13, <1>14
  DEF PrunerNext, PassStep

\* The collector takes nothing a root needs, and nobody has a run at work.
LEMMA CollectRooted ==
    ASSUME RootedInv, lock # Pruner, \A r \in Repos : pc[r] \in {"idle", "wait"},
           NEW p \in valid, Collectable(p), Remove(p),
           UNCHANGED <<pins, junk, keeps, keepTmp, pc, plan>>
    PROVE  (StoreInv /\ ImportInv /\ PlanInv)'
<1> USE DEF RootedInv, BaseInv, TypeInv, TypeOK
<1>1. Roots \in SUBSET Paths
  BY DEF StoreInv
<1>2. p \notin Roots
  BY <1>1, ClosureContains DEF Collectable, Live
<1>3. Closed(valid')
  BY DEF Closed, Collectable, Remove, StoreInv
<1>4. Roots' \subseteq valid'
  BY <1>2, RootsFrame DEF Remove, StoreInv
<1>5. ImportInv' /\ PlanInv'
  BY NoPlan DEF ImportInv, PlanInv, EmptyPlan
<1>6. QED
  BY <1>3, <1>4, <1>5 DEF StoreInv, Closed

LEMMA GcRooted ==
    ASSUME RootedInv, GcNext
    PROVE  (StoreInv /\ ImportInv /\ PlanInv)'
<1> USE ProcsAssumption
    DEF RootedInv, BaseInv, TypeInv, TypeOK, Procs, At, Goto, storeVars, pinVars, keepVars,
        dropVars, runVars, waitVars, history, vars, counters
<1>1. CASE Collect
  <2>1. lock = Gc
    BY <1>1 DEF Collect, LockInv
  <2>2. lock # Pruner /\ \A r \in Repos : pc[r] \in {"idle", "wait"}
    BY <2>1 DEF LockInv
  <2>3. QED
    BY <1>1, <2>2, CollectRooted DEF Collect
<1>2. CASE StartGc \/ GcDone
  <2>1. UNCHANGED <<valid, pins, junk, keeps, keepTmp>> /\ \A r \in Repos : pc'[r] = pc[r]
    BY <1>2 DEF StartGc, GcDone, Leave
  <2>2. lock # Pruner /\ \A r \in Repos : pc[r] \in {"idle", "wait"}
    BY <1>2 DEF StartGc, GcDone, Acquire, LockInv
  <2>3. plan' = EmptyPlan
    BY <1>2, <2>2, NoPlan DEF StartGc, GcDone, Leave
  <2>4. ImportInv' /\ PlanInv'
    BY <2>1, <2>2, <2>3 DEF ImportInv, PlanInv, EmptyPlan
  <2>5. QED
    BY <2>1, <2>4, StoreStays
<1>3. QED
  BY <1>1, <1>2 DEF GcNext, GcStep

LEMMA EnvironmentRooted ==
    ASSUME RootedInv, Environment, ~ AutoGc
    PROVE  (StoreInv /\ ImportInv /\ PlanInv)'
<1> USE ProcsAssumption
    DEF RootedInv, BaseInv, TypeInv, TypeOK, Procs, At, Goto, storeVars, pinVars, keepVars,
        dropVars, runVars, waitVars, history, vars, counters
<1>1. UNCHANGED <<pins, junk, keeps, keepTmp>>
  BY DEF Environment, Upload, Tick, SetBack, Probe, Crash, GiveUp, AutoCollect
<1>2. StoreInv'
  <2>1. CASE \E p \in Procs : Crash(p)
    <3>1. Closed(valid)' /\ valid \subseteq valid'
      BY <2>1, InterruptedGrows DEF Crash, StoreInv, Closed
    <3>2. QED
      BY <1>1, <3>1, RootsFrame DEF StoreInv
  <2>2. CASE ~ \E p \in Procs : Crash(p)
    BY <1>1, <2>2, StoreStays DEF Environment, Upload, Tick, SetBack, Probe, GiveUp, AutoCollect
  <2>3. QED
    BY <2>1, <2>2
<1>3. CASE \E p \in Procs : Crash(p)
  <2>1. PICK p \in Procs : Crash(p)
    BY <1>3
  <2>2. \A r \in Repos : pc'[r] \in {"idle", "wait"}
    BY <2>1 DEF Crash, Leave, LockInv
  <2>3. plan' = EmptyPlan
    BY <2>1 DEF Crash, Leave
  <2>4. QED
    BY <1>2, <2>2, <2>3 DEF ImportInv, PlanInv, EmptyPlan
<1>4. CASE ~ \E p \in Procs : Crash(p)
  <2>1. UNCHANGED <<valid, plan, cur>> /\ \A r \in Repos : pc'[r] = pc[r]
    BY <1>4 DEF Environment, Upload, Tick, SetBack, Probe, GiveUp, AutoCollect
  <2>2. QED
    BY <1>1, <1>2, <2>1 DEF ImportInv, PlanInv
<1>5. QED
  BY <1>3, <1>4

LEMMA RootedInit == InitAll => RootedInv
<1> SUFFICES ASSUME InitAll PROVE RootedInv
  OBVIOUS
<1>1. BaseInv
  BY BaseInit
<1>2. Closed(valid) /\ SystemRoots \subseteq valid
  BY HostAssumption, ClosureIsClosed, ClosureContains DEF InitAll, Init, ClosedSets
<1>3. StoreInv
  BY <1>2 DEF InitAll, Init, StoreInv, Roots, PinRoots, JunkRoots, KeepRoots
<1>4. ImportInv /\ PlanInv
  BY DEF InitAll, Init, ImportInv, PlanInv, EmptyPlan, Procs
<1>5. QED
  BY <1>1, <1>3, <1>4 DEF RootedInv

LEMMA RootedNext ==
    ASSUME RootedInv, [Next]_allVars, ~ AutoGc
    PROVE  RootedInv'
<1>1. BaseInv'
  BY BaseNext DEF RootedInv
<1>2. (StoreInv /\ ImportInv /\ PlanInv)'
  <2>1. ASSUME NEW r \in Repos, ImporterNext(r) PROVE (StoreInv /\ ImportInv /\ PlanInv)'
    BY <2>1, ImporterRooted
  <2>2. CASE PrunerNext
    BY <2>2, PrunerRooted
  <2>3. CASE GcNext
    BY <2>3, GcRooted
  <2>4. CASE Environment
    BY <2>4, EnvironmentRooted
  <2>5. CASE UNCHANGED allVars
    BY <2>5, StoreStays DEF RootedInv, ImportInv, PlanInv, allVars, vars, storeVars, pinVars,
       keepVars, runVars
  <2>6. QED
    BY <2>1, <2>2, <2>3, <2>4, <2>5 DEF Next
<1>3. QED
  BY <1>1, <1>2 DEF RootedInv

\* Nothing a pin needs is ever collected, under any interleaving of imports,
\* passes, collections and crashes, as long as every collector takes the lock.
THEOREM PinnedStaysValid ==
    ASSUME ~ AutoGc
    PROVE  Spec => []PinnedValid
<1>1. InitAll => RootedInv
  BY RootedInit
<1>2. RootedInv /\ [Next]_allVars => RootedInv'
  BY RootedNext
<1>3. RootedInv => PinnedValid
  <2>1. SUFFICES ASSUME RootedInv PROVE PinnedValid
    OBVIOUS
  <2>2. valid \in ClosedSets /\ PinRoots \subseteq valid
    BY <2>1 DEF RootedInv, StoreInv, BaseInv, TypeInv, TypeOK, ClosedSets, Roots
  <2>3. QED
    BY <2>2, ClosureIsLeast DEF PinnedValid
<1>4. QED
  BY <1>1, <1>2, <1>3, PTL DEF Spec

-----------------------------------------------------------------------------
(* A pass, stage by stage *)

\* While anyone else is at work the parts hold vacuously.
LEMMA OthersPass ==
    ASSUME RootedInv, TypeInv', lock # Pruner, lock' # Pruner
    PROVE  PassParts'
<1>1. pc'[Pruner] \in {"idle", "wait"} /\ plan' = EmptyPlan
  BY ProcsAssumption DEF TypeInv, TypeOK, LockInv, IdlePlan, Procs
<1>2. QED
  BY <1>1 DEF PassParts, JunkInv, KeepInv, DeleteInv, Before, Writing, EmptyPlan

\* The plan drops every pin it does not keep whole.
LEMMA PlanCoversPins ==
    ASSUME RootedInv, MakePlan
    PROVE  DeleteInv'
<1> USE ProcsAssumption DEF RootedInv, BaseInv, TypeInv, TypeOK, At, Goto, Procs
<1>1. PICK keep \in ClosedSets :
        /\ IsPlanFor(keep, Must, Pool)
        /\ plan' = [keep   |-> keep,
                    delete |-> {p \in pins \ ProtectedPins : ~ p.targets \subseteq keep},
                    doomed |-> {}]
  BY DEF MakePlan, IsPlanFor
<1>2. \A p \in ProtectedPins : p.targets \subseteq Must
  <2>1. \A p \in pins : p.targets \subseteq valid
    BY RootsAbove DEF StoreInv
  <2>2. QED
    BY <2>1 DEF ProtectedPins, Must
<1>3. Must \subseteq keep
  <2>1. Must \in SUBSET Paths
    BY DEF Must
  <2>2. QED
    BY <1>1, <2>1, ClosureContains DEF IsPlanFor
<1>4. pins' = pins /\ pc'[Pruner] = "orphans"
  BY DEF MakePlan, pinVars
<1>5. QED
  BY <1>1, <1>2, <1>3, <1>4 DEF DeleteInv, Before, Writing

LEMMA PrunerPass ==
    ASSUME PassInv, PrunerNext
    PROVE  PassParts'
<1> USE ProcsAssumption
    DEF RootedInv, BaseInv, TypeInv, TypeOK, Procs, At, Goto, storeVars, pinVars, keepVars,
        dropVars, runVars, waitVars, history, vars, counters, PassInv, PassParts, Before,
        Writing
<1>1. CASE TimerFires
  BY <1>1 DEF TimerFires, AskPass, JunkInv, KeepInv, DeleteInv
<1>2. CASE StartPass
  BY <1>2 DEF StartPass, JunkInv, KeepInv, DeleteInv
<1>3. CASE SweepAll
  BY <1>3 DEF SweepAll, JunkInv, KeepInv, DeleteInv
<1>4. CASE MakePlan
  <2>1. DeleteInv'
    BY <1>4, PlanCoversPins
  <2>2. JunkInv' /\ KeepInv'
    BY <1>4 DEF MakePlan, JunkInv, KeepInv
  <2>3. QED
    BY <2>1, <2>2
<1>5. CASE DropOrphans
  BY <1>5 DEF DropOrphans, JunkInv, KeepInv, DeleteInv
<1>6. CASE LinkTop
  <2>1. keepTmp' \subseteq Tops(plan.keep)
    BY <1>6 DEF LinkTop, KeepInv
  <2>2. QED
    BY <1>6, <2>1 DEF LinkTop, JunkInv, KeepInv, DeleteInv
<1>7. CASE ClearFinal
  BY <1>7 DEF ClearFinal, JunkInv, KeepInv, DeleteInv
<1>8. CASE CommitKeep
  BY <1>8 DEF CommitKeep, JunkInv, KeepInv, DeleteInv, ThisKeep
<1>9. CASE DropOldKeep
  BY <1>9 DEF DropOldKeep, JunkInv, KeepInv, DeleteInv, ThisKeep
<1>10. CASE KeepWritten
  <2>1. keeps' = {ThisKeep'}
    BY <1>10 DEF KeepWritten, KeepInv, ThisKeep
  <2>2. QED
    BY <1>10, <2>1 DEF KeepWritten, JunkInv, KeepInv, DeleteInv, ThisKeep
<1>11. CASE Retarget
  <2>1. PICK p \in plan.delete : plan' = [plan EXCEPT !.delete = @ \ {p}, !.doomed = {p}]
    BY <1>11 DEF Retarget
  <2>2. plan'.keep = plan.keep /\ plan'.delete \cup plan'.doomed = plan.delete
    BY <2>1 DEF Plan
  <2>3. plan.doomed = {}
    BY <1>11 DEF Retarget, DeleteInv
  <2>4. UNCHANGED <<pins, junk, keeps, keepTmp, began>> /\ pc'[Pruner] = "away"
    BY <1>11 DEF Retarget
  <2>5. JunkInv'
    BY <1>11, <2>4 DEF Retarget, JunkInv
  <2>6. KeepInv'
    BY <1>11, <2>2, <2>4 DEF Retarget, KeepInv, ThisKeep
  <2>7. DeleteInv'
    BY <1>11, <2>2, <2>3, <2>4 DEF Retarget, DeleteInv
  <2>8. QED
    BY <2>5, <2>6, <2>7
<1>12. CASE RenameAway
  <2>1. UNCHANGED <<plan, keeps, keepTmp, began>> /\ pc'[Pruner] = "purge"
        /\ pins' = pins \ plan.doomed
    BY <1>12 DEF RenameAway
  <2>2. JunkInv'
    BY <1>12, <2>1 DEF RenameAway, JunkInv
  <2>3. KeepInv'
    BY <1>12, <2>1 DEF RenameAway, KeepInv, ThisKeep
  <2>4. DeleteInv'
    BY <1>12, <2>1 DEF RenameAway, DeleteInv
  <2>5. QED
    BY <2>2, <2>3, <2>4
<1>13. CASE Purge
  <2>1. plan'.keep = plan.keep /\ plan'.delete = plan.delete /\ plan'.doomed = {}
    BY <1>13 DEF Purge, Plan
  <2>2. UNCHANGED <<pins, keeps, keepTmp, began>> /\ pc'[Pruner] = "delete"
    BY <1>13 DEF Purge
  <2>3. JunkInv'
    BY <1>13, <2>2 DEF Purge, JunkInv
  <2>4. KeepInv'
    BY <1>13, <2>1, <2>2 DEF Purge, KeepInv, ThisKeep
  <2>5. DeleteInv'
    BY <1>13, <2>1, <2>2 DEF Purge, DeleteInv
  <2>6. QED
    BY <2>3, <2>4, <2>5
<1>14. CASE PassDone
  BY <1>14 DEF PassDone, Leave, EmptyPlan, JunkInv, KeepInv, DeleteInv
<1>15. QED
  BY <1>1, <1>2, <1>3, <1>4, <1>5, <1>6, <1>7, <1>8, <1>9, <1>10, <1>11, <1>12, <1>13,
     <1>14 DEF PrunerNext, PassStep

\* The environment leaves a pass alone, or kills it.
LEMMA EnvironmentPass ==
    ASSUME PassInv, Environment, TypeInv'
    PROVE  PassParts'
<1> USE ProcsAssumption
    DEF RootedInv, BaseInv, Procs, At, Goto, storeVars, pinVars, keepVars, dropVars, runVars,
        waitVars, history, vars, counters, PassInv
<1>1. CASE lock # Pruner
  <2>1. lock' # Pruner
    BY <1>1 DEF Environment, Upload, Tick, SetBack, Probe, Crash, Leave, GiveUp, AutoCollect
  <2>2. QED
    BY <1>1, <2>1, OthersPass
<1>2. CASE Crash(Pruner)
  BY <1>2 DEF Crash, Leave, EmptyPlan, PassParts, JunkInv, KeepInv, DeleteInv, Before,
     Writing, TypeInv, TypeOK
<1>3. CASE lock = Pruner /\ ~ Crash(Pruner)
  <2>1. pc[Pruner] # "wait"
    BY <1>3 DEF TypeInv, LockInv
  <2>2. UNCHANGED <<pins, junk, keeps, keepTmp, pc, plan, began>>
    BY <1>3, <2>1 DEF Environment, Upload, Tick, SetBack, Probe, Crash, GiveUp, AutoCollect
  <2>3. QED
    BY <2>2 DEF PassParts, JunkInv, KeepInv, DeleteInv, Before, Writing, ThisKeep
<1>4. QED
  BY <1>1, <1>2, <1>3

LEMMA PassNext ==
    ASSUME PassInv, [Next]_allVars, ~ AutoGc
    PROVE  PassInv'
<1>1. RootedInv' /\ TypeInv'
  BY RootedNext DEF PassInv, RootedInv, BaseInv
<1> SUFFICES PassParts'
  BY <1>1 DEF PassInv
<1>2. ASSUME NEW r \in Repos, ImporterNext(r) PROVE PassParts'
  <2> USE ProcsAssumption DEF RootedInv, BaseInv, Procs, At, Goto, PassInv
  <2>1. lock # Pruner /\ lock' # Pruner
    <3>1. CASE RunImporter(r)
      BY <3>1 DEF RunImporter, Start, Acquire
    <3>2. CASE ImportStep(r)
      <4>1. pc[r] \notin {"idle", "wait"}
        BY <3>2 DEF ImportStep, DropBundle, DropReason, ListIncoming, TakeExtra, TakeNext,
           Finish, Check, Fetch, Copy, Verify, SweepTemp, LinkRoot, RenamePin, SetLatest,
           Unlink, ImportFails, WriteReason, QueueAlert, MoveToFailed, Importing
      <4>2. lock = r
        BY <4>1 DEF TypeInv, LockInv
      <4>3. lock' = r \/ lock' = NoProc
        BY <3>2, <4>2 DEF ImportStep, DropBundle, DropReason, ListIncoming, TakeExtra,
           TakeNext, Finish, Leave, Check, Fetch, Copy, Verify, SweepTemp, LinkRoot,
           RenamePin, SetLatest, Unlink, ImportFails, WriteReason, QueueAlert, MoveToFailed
      <4>4. QED
        BY <4>2, <4>3
    <3>3. QED
      BY <1>2, <3>1, <3>2 DEF ImporterNext
  <2>2. QED
    BY <1>1, <2>1, OthersPass
<1>3. CASE PrunerNext
  BY <1>3, PrunerPass
<1>4. CASE GcNext
  <2>1. lock # Pruner /\ lock' # Pruner
    BY <1>4, ProcsAssumption DEF Procs, At, PassInv, RootedInv, BaseInv, GcNext, StartGc, Acquire,
       GcStep, Collect, GcDone, Leave, TypeInv, LockInv
  <2>2. QED
    BY <1>1, <2>1, OthersPass DEF PassInv
<1>5. CASE Environment
  BY <1>1, <1>5, EnvironmentPass
<1>6. CASE UNCHANGED allVars
  BY <1>6 DEF PassParts, JunkInv, KeepInv, DeleteInv, Before, Writing, ThisKeep,
     allVars, vars, pinVars, keepVars, runVars, PassInv
<1>7. QED
  BY <1>1, <1>2, <1>3, <1>4, <1>5, <1>6 DEF Next

\* A pass that got to its last pin leaves its plan rooted, no more and no less.
LEMMA PassEndsRooted == PassInv => PassRealisesPlan
<1> SUFFICES ASSUME PassInv, At(Pruner, "delete"), plan.delete = {}
             PROVE  Closure(Roots) = plan.keep \cup Closure(SystemRoots)
  BY DEF PassRealisesPlan
<1> USE DEF PassInv, PassParts, RootedInv, BaseInv, TypeInv, TypeOK, At
<1> DEFINE Kept == PinRoots \cup Tops(plan.keep)
<1>1. plan.keep \in ClosedSets
  BY DEF Plan
<1>2. PinRoots \subseteq plan.keep
  BY DEF DeleteInv, Before, Writing, PinRoots
<1>3. Tops(plan.keep) \subseteq plan.keep
  BY DEF Tops
<1>4. JunkRoots = {} /\ KeepRoots = Tops(plan.keep) /\ keepTmp = {}
  <2>1. JunkRoots = {}
    BY DEF JunkInv, Before, JunkRoots
  <2>2. keeps = {ThisKeep} /\ keepTmp = {}
    BY DEF KeepInv, Before
  <2>3. KeepRoots = Tops(plan.keep)
    BY <2>2 DEF KeepRoots, ThisKeep
  <2>4. QED
    BY <2>1, <2>2, <2>3
<1>5. Roots = SystemRoots \cup Kept
  BY <1>4 DEF Roots
<1>6. Closure(Kept) = plan.keep
  <2>1. Closure(Kept) \subseteq plan.keep
    BY <1>1, <1>2, <1>3, ClosureIsLeast
  <2>2. plan.keep \subseteq Closure(Kept)
    BY <1>1, TopsRootAll, ClosureMonotone
  <2>3. QED
    BY <2>1, <2>2
<1>7. SystemRoots \in SUBSET Paths /\ Kept \in SUBSET Paths
  BY <1>1, <1>2, <1>3, HostAssumption DEF ClosedSets
<1>8. Closure(SystemRoots \cup Kept) = Closure(SystemRoots) \cup Closure(Kept)
  BY <1>7, ClosureUnion
<1>9. QED
  BY <1>5, <1>6, <1>8

\* When a pass ends, exactly its plan is rooted beside the system: the budget the
\* plan respects is the budget the store respects after cache-gc.
THEOREM PassKeepsItsWord ==
    ASSUME ~ AutoGc
    PROVE  Spec => []PassRealisesPlan
<1>1. InitAll => PassInv
  <2>1. InitAll => PassParts
    BY DEF InitAll, Init, PassParts, JunkInv, KeepInv, DeleteInv, Before, Writing, EmptyPlan,
       Procs
  <2>2. QED
    BY <2>1, RootedInit DEF PassInv
<1>2. PassInv /\ [Next]_allVars => PassInv'
  BY PassNext
<1>3. PassInv => PassRealisesPlan
  BY PassEndsRooted
<1>4. QED
  BY <1>1, <1>2, <1>3, PTL DEF Spec

=============================================================================
