# Verification of the binary-cache host

The repository is a Nix flake: packages, NixOS modules, workflows that bump and
build the packages, and a program of its own, `nix/pkgs/nix-cache`, with the
NixOS module `nix/modules/nixos/nix-cache-host` that deploys it. CI builds
packages and uploads *bundles* of store paths to a small host; the host imports
and pins them, decides every hour what stays within its budget, collects the
rest and serves what it has. That program keeps state, runs several processes
over shared files, and has to survive being killed anywhere; the rest of the
repository is mostly declarative. This project models it in TLA+, checks the
models with TLC and proves the central results with TLAPS.

Paths below are relative to `src/`; `nix_cache/` stands for
`nix/pkgs/nix-cache/src/nix_cache/` and `host/` for
`nix/modules/nixos/nix-cache-host/`.

## 1. Inventory

| Component | State it keeps | Operations | Talks to |
|---|---|---|---|
| Upload receiver (`cache-receive.sh`, `host/upload.nix`) | files in `<repo>/incoming/` | receive to a `.part`, rename | path unit of the importer |
| Importer (`importer.py`, `host/importer.nix`) | `incoming/`, `failed/`, `.reason` files, the store, pins | `run`, `import_bundle`, `reject`, `prune_failed` | lock, store, pin layout, alert spool |
| Size guard (`importer.SizeGuard`) | none of its own; reads roots | `check` | store, pin layout |
| Pin layout (`pins.py`) | `<repo>/<set>/<arch>/<stamp>/` link directories, `latest`, `.tmp` and `.del` directories | `pin`, `_set_latest`, `delete_pin`, `sweep_all`, `latest_stamps` | GC roots |
| Pruner (`pruner.py`, `host/retention.nix`) | `keep.<time>` directories | `run`, `write_keep`, `emit_notices` | all of the above, database, planner; starts the collector |
| Retention planner (`retention.py`) | none | `_core`, `plan_retention` | graph |
| Store graph (`graph.py`) | none | `closure`, `closure_excluding` | planner, size guard |
| Collector (`cache-gc`, `host/retention.nix`; min-free in `host/default.nix`) | the store | `flock <lock> nix-store --gc` | lock, roots |
| Shared lock (`lock.py`) | one flock | `locked` | importers, pruner, collector |
| Access log (`accesslog.py`, `host/read.nix`) | position in the log, hit counters | `ingest` | nginx, logrotate, pruner |
| Database (`db.py`) | ingest position, notices seen, per-path and per-user rows | transactions | pruner, access log |
| Alert spool (`alert.py`, `host/alerts.nix`) | `alerts/`, `alerts.tmp/`, `alerts.deferred/` | `queue_alert`, `flush`, `requeue` | pruner, importer, external command |
| Bundler and push workflow (`bundle.py`, `push-bundle.sh`, `nix-cache-push.yml`) | a bundle in CI | probe caches, pack, upload, wait | receiver, read path |
| Push retry, cache setup, hash healing (`.github/actions/`, `scripts/`) | a git branch; files in a work tree | rebase and push; configure; rewrite a hash | git, nix |
| Parsing, configuration, tokens, nix wrappers | none | pure or one command each | |

`PROJECT.json` lists each with its status, the parts left out too.

**What is hard here.** Several importers, the pruner and the collector share one
lock, but uploads, clients, nginx, logrotate, the alert delivery and the
nix-daemon do not take it. Any program can be killed between any two file-system
operations (a unit timeout, a power cut, an exception nobody catches), and the
next one must cope with what it finds. Decisions rest on the wall clock and on
what was read earlier: the time read before waiting for the lock, the log read
before planning, the inode looked up before the open. Order matters within
almost every operation (link before rename, alert before move, `latest` before
delete, notice before commit). The hazards are listed line by line in
`PROJECT.json`, with the properties that cover each.

**What makes each part correct.** A pin names what is there, with everything it
needs (`PinnedValid`), and exactly one bundle's roots (`PinsWhole`). `latest`
names an existing pin and the right one (`LatestNamesAPin`, `NoRollback`). A
bundle is never lost: it is imported or rejected with a reason and an alert
(`ImportedMeansPinned`, `RejectedHasReason`, `BundlesSettle`), and nothing but a
sound bundle that fits reaches the store (`AdmitsOnlySound`, `RootsTrusted`,
`GrowthCharged`, `RefusedForCause`). After a pass the roots are the plan, no more
and no less (`PassRealisesPlan`), and the plan fits the budget and wastes none
of it (`WithinBudget`, `UsedIsCharge`, `EvictedDidNotFit`). Log lines are counted
once (`FollowsTheLog`), and notices reach somebody, once (`SeenMeansQueued`,
`NoticedOnce`, `AlertsSettle`). A CI build drops no root it could ship or that the
cache has, and is green only if all it built is served (`NoRootLost`,
`BundleWillDo`, `OkMeansDelivered`); a bump reaches the branch once
(`LandedOnce`, `FailsForCause`). All of the host together is what `Cache` promises
(`KeepsPromise`).

## 2. Modules

| Module | Models | Extends |
|---|---|---|
| `StoreGraph` | store paths and references; `Closure`, `Walk` and `Tops` by what they return; `IsPlanFor`, what a plan promises | |
| `GraphWalk` | the two worklist loops of `graph.py`, step by step | `StoreGraph` |
| `Retention` | the budget loop of `plan_retention` | `StoreGraph` |
| `HostState` | everything importers, pruner and collector share, and the locals of a run | `StoreGraph` |
| `Importer` | `importer.run` with `pins.pin` | `HostState` |
| `Pruner` | `pruner.run`, `write_keep`, `pins.delete_pin`, `cache-gc` | `HostState` |
| `Cache` | what the host promises, with none of its mechanism: receive, add, pin, point, unpin, accept, tell, refuse, forget, reclaim | `StoreGraph` |
| `CacheHost` | the composition, the environment, the properties, the mapping to `Cache` | `Importer`, `Pruner`; `INSTANCE Cache` |
| `Admission` | `import_bundle` check by check: unpacking, manifest, size guard, signatures, roots, estimate, fetch, copy | `StoreGraph` |
| `Push` | `make_bundle`, the push job's upload and verify steps, the receiver, against a cache that changes meanwhile | `Cache` |
| `PushRetry` | the push loop of the bump workflows | |
| `AccessLog` | `accesslog.ingest` against nginx and logrotate | |
| `Alerts` | the spool, those who queue and the one who delivers | |
| `StoreGraphProofs` | theorems about closures and walks | `StoreGraph` |
| `BudgetProofs` | theorems about the worklists, the planner, sums of sizes and the import checks | `GraphWalk`, `Retention`, `Admission` |
| `CacheHostProofs`, `CacheRefinement` | theorems about the composed host; its refinement of `Cache` | `CacheHost` |
| `CacheProofs` | theorems about `Cache` and about `Push` | `Push` |
| `PushRetryProofs`, `AccessLogProofs`, `AlertsProofs` | theorems | their module |
| `MC*` | instances for TLC | their module |

`map` in `PROJECT.json` gives the lines behind each definition. How they hang
together: `GraphWalk` shows that the loops return reachability, `StoreGraph`
defines reachability without a loop, so the other modules can be proved about.
`Retention` shows that the planner's loop returns a plan in the sense of
`IsPlanFor`, and `Pruner` plans *any* such set: the host's guarantees hold for
every sort order, budget and size, and not for one the model would have had to
pick. `PlanIsSound` is the theorem that closes this gap.

`Cache` stands between the two sides. Below it, `CacheHost` implements it: the
mapping takes `stored` from `valid`, `pins` and `latest` as they are, `drop` from
`bundle`, `request` from the bundles' constants and `told` from `alerted`. The
lock, temp and keep directories, reasons, plans and control points disappear; so
does every kill. Above it, `Push` talks to a cache that may do whatever `Cache`
lets a cache do, and not to the host's mechanism. `Push` takes only `Receive`,
`Add` and `Reclaim` and pins nothing, which is more than the host can do to a
job: with nothing pinned a path may be collected as soon as nothing needs it, and
with uploads left open it may come at any time.

**State and code.** `pins`, `latest`, `junk`, `keeps` and `keepTmp` are the
directories under `gcroots/cache`. Temp directories count as roots, as they do
for nix, which follows every link below that directory; `junk` merges the links
of all temp and `.del` directories of one namespace, since nothing tells them
apart but their names. `bundle`, `arrived`, `reason` and `alerted` are the drop
directories and the alerts queued from there. `lock` and `pc` say who runs and
where; the locals of a run (`began`, `todo`, `cur`, `stamp`, `known`, `plan`)
exist once, because all runs are under the lock, and are emptied by `Leave`.
`asked` is the `now` a pass read before it got the lock. `lastDone` and
`superseded` are history for `NoRollback` only. In `Admission`, `at` names the
check that is next, `host` is what the bundle found, `total`, `raw` and `names`
are the unpacker's counters and the files it has written, `claimed` is
`bundled_new`. In `Push`, `ask`, `tries` and `found` are one round of narinfo
questions, `made` is the bundle; `had` and `gone` are history, to tell a root the
cache lost meanwhile from one the job lost. In `PushRetry`, `base` is the tip a
job rebased onto; `faults` and `start` are history.

**Actions and code.** One action is what a kill cannot split: a rename, a link, a
write of one file, an sqlite commit, one path the collector deletes. `Crash`
kills the lock's holder at any of them; what it wrote stays, the kernel frees
the lock, and a realise or a copy under way leaves any part that keeps the store
closed under references (`Interrupted`). An exception inside `import_bundle` is
`ImportFails`, at each of its steps. In `importer.run` and the pruner an
exception ends the program, which is `Crash`.

Several operators carry the comment "Mutant of ...": plausible wrong versions of
the definition they stand beside. No specification uses them; `mutants` in
`PROJECT.json` substitutes each for the real one to show that the property it is
listed with can fail.

### Abstractions

- In `Importer`, whatever makes a bundle unacceptable (caps, manifest, key
  binding, size guard, an I/O error) is the free choice of `ImportFails`. That may
  refuse at any point, so it includes every decision `Admission` shows in detail.
- In `Admission` sizes are small numbers. A tar member is its kind, what it is
  and whose, and the bytes of its header and content; whether the text of a
  manifest or narinfo is well-formed is one Boolean each, and so is nix's verdict
  on a signature. A call of an import that fails ends it: `statvfs` as `unread`,
  any other one before the store is touched as `failed`, a later one as `broken`.
  An empty `path-info --all`, which the size guard refuses to believe, is a host
  with nothing valid; one that comes back empty from a store that is not is a
  call that failed. `build_graph` and `protected_bytes` are the set `core` of the
  host, whose closure and charge are `Retention`'s subject. Other programs use up
  space at any time; nothing else changes the store, because of the lock.
- In `Push` the own cache is configured, there is one upstream, and a bundle is
  its roots and paths. The seed narinfos of `copy_missing` (in the directory only
  while `nix copy` runs), credentials and signing are left out. A connection that
  breaks half way leaves a file nobody can read: a bundle with no paths and no
  roots. `fetch_narinfo`'s waits between attempts are no time at all.
- In `PushRetry` a rebase never conflicts, as the action's comment says of files
  each workflow has to itself; commits are the jobs' names, and the branch is their
  sequence.
- Removing a directory tree is one step. The code renames a pin to `.del` before
  it removes it and removes temp and old keep directories in place; a removal
  that was cut short leaves fewer links in a directory that is no longer a pin,
  which the next pass sweeps or replaces. Fewer roots in `junk`, of paths the
  plan or a pin roots if anything needs them, reach no property here.
- A pass sees one snapshot of the store: it holds the lock, so no import and no
  `cache-gc` runs. The daemon's own collection can run; a path it takes from
  under a pass is the business of `HostAutoGc`.
- The collector evaluates its roots at each step, and removes a path once no
  valid path references it, in any order.
- In `CacheHost` an upload arrives in one step: a cut one is a bundle that
  `ImportFails` rejects. Which cut uploads are queued is in `Push`.
- Leaving the protection window is a free choice at each tick (`Tick`), so no
  window length is modelled; a clock that is set back leaves `fresh` alone. A
  pass that waited for the lock has an older cutoff and may take more paths for
  fresh than are; this is the free `more` in `StartPass`.
- In `AccessLog` an offset counts lines, and the counters are the sequence of
  lines that went into them: whether any of them is lost, counted twice or out
  of order is visible, what a line says is not. A log truncated in place is not
  modelled (`read.nix` rotates by rename), and nginx has one worker. `Reopen` is
  nginx creating the new log and the worker's switch to it in one step; in
  between the worker would go on writing to `<log>.1`.
- In `Alerts` a file that cannot be read is dropped, as `flush` does on purpose,
  and `AlertsSettle` excepts it. A notice is a key; the notices about the disk, the budget
  and expiring keys differ in text only. The one about a stale read token is not
  modelled: it remembers what it did in `users.last_alert` and not in `notices`
  (`pruner.py:113-122`), and is sent again after a while.
- `HostState` does not hold the per-path statistics; their removal
  (`prune_paths`) and the dry run, which writes nothing, are not modelled.

## 3. Runs

| Run | Question | Bounds |
|---|---|---|
| `HostCrashes` | All safety properties of the host with a kill at any step, and the refinement of `Cache` | 1 repo and namespace, 2 bundles, 2 passes, 1 kill, 2 seconds, `MaxPending` 1 |
| `HostShared` | Two repos sharing paths: does one cost the other a pinned path? | 2 repos and namespaces, a bundle each, 1 pass, 1 probe, 1 set-back, 2 seconds, `ActiveSeconds` 0 |
| `HostLiveness` | Does every bundle settle and every collection end? | 2 repos, 2 kills, 1 pass, the daemon's collector on |
| `Admission` | Who gets past the checks, and is what arrives paid for? | 4 paths, 9 sound bundles and 29 with one thing changed, on 135 hosts from empty to full |
| `Push` | From build to green job: what is lost, and what does green mean? | 2 paths, 2 jobs, 2 runs each, 3 uploads, 2 attempts per question |
| `PushRetry` | Does every bump reach the branch, and once? | 3 jobs, 3 attempts, 4 commits, 1 fault per job |
| `RetentionPlan` | The planner's loop against its specification | 5 paths with a shared reference, every core, pool and budget 0 to 7 |
| `GraphWalk` | The worklist loops against reachability | 5 paths, every sub-graph, start and excluded set |
| `LogRotation` | Log ingestion against nginx, logrotate and a kill | 4 lines, one of them bad, 2 rotations, 3 inodes, 1 kill |
| `AlertSpool` | The spool against failing delivery and a kill | a notice, a rejection, 2 failures, 1 unreadable file, 1 kill |
| `HostClockBack`, `HostAutoGc` | The two findings of section 6 | the smallest that show them |

**Why these bounds.** The host's three paths `app -> lib -> sys` are one of each
kind: only in bundles, substitutable, the system's own. Two bundles of one
namespace are what it takes for `latest`, `max_pending`, supersession and
eviction to do anything; one ships a path, the other pins what the host has (the
case in which only the window protects a root). `HostCrashes` lets both be
imported in one second, so that stamps move on to the next free one. With one pass before and one
after, every leftover of a killed run meets a whole pass. `ActiveSeconds` 0
in `HostCrashes` and `HostShared` makes the active window end within two seconds
(`FailedRetention` 0 does the same for `prune_failed` in the former): in
`HostShared` a pass in the second after an import can evict the only pin of that
repo, which shares paths with the pin the other repo still has.
A third bundle is needed only for `NoRollback` under a clock set-back. One
kill is enough for a leftover to meet an undisturbed run; the liveness run has
two, so that a retry can fail as well. In `RetentionPlan` the costs run up to 7,
so the budgets reach from "not even the core" to "everything", and `app`
and `tool` cost less alone than with the `lib` they share. In `LogRotation` a third
inode is what lets `<log>.1` be replaced and an inode number be used again.
`AlertSpool` has one notice key, which is found due by every pass: notices
interact only through the spool, where the rejection is the second alert.
In `Admission`, `app` needs `lib` and `gcc`, which share `base`: the least for
which pieces of one path each (`Chunk` 1) count a shared path twice, and for
which the rounding of one piece can hide a byte the other needs (`Tenth` 3).
Budgets and free space run from nothing to more than everything. Every check
has bundles just inside and just outside it. In `Push` one root is built by
one job and found in the cache by the other; the third upload lets one job fail
and try again while the other's is under way. In `PushRetry` three jobs with three attempts are the least in which a
job can lose to each of the others and still push.

**Assumptions of single runs.** `SteadyClock` (in `HostShared` and
`HostAutoGc`) starts an importer only at a second later than its repo's stamps;
`HostClockBack`, `HostCrashes` and `HostLiveness` do without. `NoRollback` needs a clock that is
not set back, as `HostClockBack` shows, and stamps that are not ahead of the clock:
without `SteadyClock` four bundles of one namespace break it with no set-back at
all. Three imports within second 1 take the stamps 1, 2 and 3; in second 2 a pass
evicts 2, the fourth import takes 2 as the next free stamp and becomes `latest`,
and the next pass evicts 1 and moves `latest` to 3, an older build. Two bundles,
as in `HostCrashes`, never get there; the theorem (`CurrentIsProtected`) therefore
assumes both, and `HostCrashes` adds kills and imports in one second for two
bundles. `EachFileRead` in `LogRotation` has
a pass between two rotations, as the hourly timer and any ordinary rotation
schedule give it. `HostClockBack` narrows its search with `NothingRejected` and
`CalmRuns`, which only leaves histories out, and a counterexample among the rest
is one.

**Deadlock.** All runs say `CHECK_DEADLOCK FALSE`. An idle host with no upload,
no timer tick left and a full clock bound has nothing to do, a planner whose
queue is empty has ended, and a log nobody writes to needs no pass. A bundle that is decided, a job that
has ended and a branch at its bound likewise. Whether anyone waits for ever is what
the liveness properties say.

**Fairness.** `FairSpec` is weakly fair to each importer, to the pass and to the
collector: systemd keeps running a unit it started, starts an importer
while its path unit sees something in `incoming/`, and starts `cache-gc` when
the pass succeeds. Weak fairness is enough for the lock although three
programs wait for it: in the bounded runs passes and uploads end. Uploads,
clients, the clock and the timer owe nothing, and kills are finitely many. Path
units stop after 100 starts in a minute (`host/importer.nix`); that this is not
reached is an assumption, and a limit in dense time is out of the model.
`LogSpec` has the timer go on starting passes, nginx complete the lines it began
and answer the reopen signal. `AlertsSpec` has passes and deliveries go on; the
failures are finitely many ("if the command recovers"). `FairPushSpec` is weakly
fair to the steps of a job whose runner is up (a process that can go on, does);
builds, re-runs, the host and the network owe nothing, so `JobsEnd` is about
`fetch_narinfo` alone: its attempts run out.

## 4. Proofs

All for every store, bundle set, number of namespaces, jobs, lines, alerts, kills
and clock steps, from the assumptions the modules name, which TLC evaluates in
the runs: `RefsAssumption`, `AcyclicAssumption` (a store), `ProcsAssumption`,
`BundlesAssumption`, `HostAssumption`, `ScenarioAssumption` (the host),
`ChargeAssumption`, `ValueAssumption`, `BudgetsAssumption` (the planner),
`UploadsAssumption`, `HostsAssumption`, `SizesAssumption`, `UpstreamAssumption`,
`LimitsAssumption` (an import), `JobsAssumption`, `RetryAssumption`, `LogAssumption`,
`AlertsAssumption`. What a theorem assumes beyond these is in its statement.

- **Store graph** (`StoreGraphProofs`). `Closure` returns the least closed set
  around its roots; it is monotone and distributes over union; a walk around a
  closed set completes it (`WalkAroundClosed`); and in a store without cycles
  rooting only the tops of a closed set roots all of it (`TopsRootAll`). The last
  is what allows `plan_retention` to leave most roots out. It is by contradiction:
  what the tops do not reach would be a set with an unreferenced member,
  which is then a top.
- **Sums** (`BudgetProofs`, first part). The planner and the size guard add up
  sizes of sets. `SumStep` unfolds the fold behind `SumOf` once; the rest is
  induction over finite sets without an operator parameter: if a law failed of some
  subset it would fail of a smallest one, and that one has an element to take out.
  `SumsAreCharges` then shows that `_charge` is what `ChargeAssumption` says, so the
  planner's assumption is met by every set of sizes.
- **Worklists** (`BudgetProofs`). `WalkInv` says that everything seen is
  reachable and that every reference of something seen is seen or on the stack;
  with the stack empty this is equality.
- **Planner** (`BudgetProofs`). `PlanInv`: the keep set is closed and its cost
  is `used`; it lies between the core and what core and pool need; every
  candidate passed over did not fit beside the more valuable ones. `ExtraCompletes`
  is the key: what `closure_excluding` adds is disjoint from the keep set and
  closes it again, so differences add up.
- **Checks before an import** (`BudgetProofs`, last part). `AdmInv` is a ledger of
  what each check has established: the unpacker's counters are the sums over the
  members read (`ReadSoFar`), a check that was passed still holds (`Passed`), and
  the store holds what it had and part of what the checks were about, with the
  free space going down by exactly that (`Stored`). `OnlySoundAdmitted`,
  `RootsAreTrusted` and `GrowthIsCharged` follow from its last lines.
  `OnlyRefusedForCause` is the other direction and is itself a part of the
  invariant: each refusing step has its own reason, the guard's two refusals to
  guess (an empty listing, free space it cannot read) among them, and what the
  guard charges is bytes the bundle adds. The estimate is the hard one,
  since a path that two pieces share is counted twice and a size is rounded up;
  `Margin` is what that can add, for every `Chunk` and `Tenth`.
- **Types and the lock** (`CacheHostProofs`). `BaseInv` adds to `TypeOK` that
  exactly the lock's holder is at work (`LockInv`), that an importer past its
  listing has a bundle at hand (`CurInv`), that there is no plan before one is
  made (`IdlePlan`), and that stamps are bounded, without which "the newest pin"
  would not exist among unboundedly many (`StampBound`, used by `delete_pin`).
- **Pins stay valid** (`CacheHostProofs`, `PinnedStaysValid`). `PinnedValid` alone
  is not inductive: a pin is made of links made earlier, and a pass roots paths
  it planned earlier. `RootedInv` adds that the store is closed and holds
  *every* root, temp directories included; that the bundle's roots are valid
  from the last look on; and that so are the plan's keep set and the pins on
  their way out. The lock invariant is what keeps a collector from running in
  these windows.
- **A pass keeps its word** (`PassKeepsItsWord`). `PassInv` follows a pass: swept
  namespaces stay swept but for the pin being deleted, the keep directory is
  filled, committed and then the only one, and a pin that needs more than the plan
  is on the plan's list. `TopsRootAll` turns the links into the keep set.
- **The host implements `Cache`** (`CacheRefinement`). `PromiseInv` adds to
  `RootedInv` what a run has done when it is where it is: the bundle at hand has
  not left `incoming/` and is not listed again (`DropInv`); the temp directory
  holds nothing but its roots, all of them when it is renamed (`MakingInv`);
  `latest` has moved off the pin that goes (`DoomInv`); no stamp is 0
  (`ClockInv`); with `LatestNamesAPin` and `PinsWhole`, which are thereby theorems
  too (`LatestNeverDangles`, `PinsStayWhole`). `HostKeepsPromise` then goes through
  every action: a link, a sweep, a plan or a reason is a stutter, the rename is
  `PinRootsOf`, and so on, and a kill is `Add` of a part or a stutter.
  `ImportedIsPinned` is the action property of the same invariant.
- **Rejections** (`CacheRefinement`, `RejectionsExplained`). `RejectedInv` adds that
  a run's `now` is not later than the clock (`NoEarly`), and that a `.reason` is no
  older than its bundle and there before the bundle moves (`ReasonInv`): then
  `prune_failed`, which takes the two one after the other, takes no reason whose
  bundle stays. A clock set back breaks that order, hence `MaxSetBacks = 0`.
- **The current pin** (`CacheRefinement`, `CurrentIsProtected`). What a run adds to a
  namespace follows its own start without a gap, so that the stamp `pins.pin`
  takes is the highest (`AheadInv`, which needs `SteadyClock`). `CurrentInv` then
  says that whatever the last import superseded is older than it, that `latest`
  is not, and that some pin as recent survives the plan that a pass is carrying
  out (`Surviving`), for as long as the namespace is active.
- **What follows from `Cache`** (`CacheProofs`). `EveryPinIsServed`,
  `EveryPinAnswers` and `NoSilentRefusal` are short, as they should be from an
  abstract specification; through the refinement they hold of the host.
- **From a build to a green job** (`CacheProofs`, second part). `PushInv` has what a
  job knows at each point: an answer is true of the cache or of what was collected
  since, which `gone` remembers (`AskInv`); what the chosen roots need is in the
  bundle to be, upstream, or excused in that way (`MadeInv`); and a job that waits
  has its whole bundle queued and only paths that were served behind it
  (`SentInv`). A collection by the cache is the step that tests it.
- **The push loop** (`PushRetryProofs`). `GivesUpForCause` rests on `Paid`: what a
  job has spent on attempts is covered by the commits of others it was rebased
  onto and by faults, since each lost race means that the branch grew past
  `base`. `LandsOnce` needs nothing of that: nobody's push drops a commit, and one
  that is there is not made again.
- **The access log** (`AccessLogProofs`). `LogInv`: the files still there hold the
  last lines without a gap (`FilesInv`), the database's row is a place in one of
  them and the counters are everything up to it (`RowInv`), and an open
  transaction adds everything up to where the pass reads (`PassInv`).
  `LogFollowed` and `PassesCurrent` assume `EachFileRead`: a log that no pass read
  before it is rotated twice is lost, and the code does not claim otherwise.
- **The alert spool** (`AlertsProofs`). The lock's holder has at most one alert in
  hand, written and not yet published, and a delivery run has its item no more in
  its list (`AlertsTypes`). `MarkedInv` puts the open transaction under the same
  promise as the table. `NoticeInv` and `TriedInv` count: a notice that no pass
  has taken up has at most as many alerts as there were kills, and an alert that
  is due for a try has had no more tries than kills and requeues.

The theorems about the host except `TypeCorrect` and `OneAtATime` assume
`~ AutoGc`: `PinnedValid` is false with the daemon's own collection (section 6).

**Only model-checked.** Liveness (`BundlesSettle`, `GcSettles`, `WalkEnds`,
`LinesCounted`, `AlertsSettle`, `JobsEnd`) is beyond the prover, as is anything
with ENABLED. Every invariant and every action property of a passing run has a
theorem.

## 5. Reading the properties

Safety of the host: `PinnedValid`, `PinsWhole`, `LatestNamesAPin`,
`PassRealisesPlan`, `RejectedHasReason`, `NoRollback` are invariants,
`ImportedMeansPinned` says what no step may do, and `KeepsPromise` that each is a
promised one. A bundle that was
rejected after its pin was renamed (moving `latest` failed) keeps that pin; this
is why `RejectedHasReason` does not say that there is none. `PassRealisesPlan` is
stated at the end of a pass, the moment `cache-gc` is started.
`RejectedHasReason` lets the reason go when the bundle itself is due for
pruning, since `prune_failed` removes the two one after the other.
`NoticedOnce` allows one repetition per kill: a pass that dies between queueing
and committing repeats, rather than loses.

`GrowthCharged` and `RefusedForCause` bound the size guard from both sides: it
admits nothing that goes over, and what it refuses would go over, give or take
what rounding and references shared between two pieces may add (`Margin`), with
two exceptions the property names. If nix lists an empty store, or the free space
cannot be read, the guard refuses whatever adds a byte, fit or not; it asks
neither question for a bundle that adds nothing. Other failing calls (`Fails`) end an
import too, as the code has it, and are no verdict of a check.
`OkMeansDelivered` looks odd with `gone`: a path may be collected between the
answer the job saw and its end. `FailsForCause` counts: a job that failed met as
many foreign commits and faults as it had attempts.

## 6. Findings

- **A set-back clock and an eviction move `latest` backwards** (`HostClockBack`,
  `nix_cache/pins.py:163`). `delete_pin` sets `latest` to the highest remaining
  stamp even when the pin it deletes is not the one `latest` names.
  Three imports, the clock corrected backwards before the last, and a pass that
  evicts the middle one: `latest` jumps from the last import to the first, and
  the last one's pin is no longer protected. Imports that come faster than one a
  second lead there too, without any set-back (section 3).
- **The daemon's own collection takes no lock** (`HostAutoGc`,
  `host/default.nix:343`). It can fall between a copy and its pin, which
  `lock.py:1-2` rules out for "GC".

**Known limits.** Not shown by a run, met while modelling:

- The access log is read once, before planning (`nix_cache/pruner.py:143`). A path
  probed after that can be deleted by the collection the pass starts; the option
  text (`host/default.nix:235`) says probed paths are always kept.
- `ingest` checks the inode of `<log>.1` by name and opens it by name
  (`nix_cache/accesslog.py:141-142`). Two rotations within one pass interval, one
  of them in between, make it read the log it has open twice.
- `FailsForCause` is tight: a job with 5 attempts may fail when five others push,
  and eight workflows use the action. Their real schedules make that unlikely.
- The verify step's comment (`nix-cache-push.yml:239-244`) says roots outside
  the bundle may be substituted by the importer, and that 200 means imported. The
  importer substitutes no root (`importer.py:193-196`), and a path can be served
  because another bundle brought it: green means delivered and served.
- `extract.py` allows 1 MiB for tar headers and 100 000 members, which need more
  than that in headers: a bundle that fills its cap with small files is
  refused, on the safe side.
- The size guard charges nothing for paths that are valid but not protected;
  pinning them again makes them protected. It is the documented rule ("never
  fails on budget or space"), and `GrowthCharged` is stated for what it promises.

## 7. Plan

Done: the store and the planner, the composed host with crashes, its abstract
specification and the refinement, the checks before an import, the way from a
CI build to the cache, the push loop, the access log, the alert spool, and the
proofs of section 4.

Next, in this order:

1. **Statistics**: per-path rows and `prune_paths`, per-user failure counters.
2. **Cache setup**: the action's revert path.

Every invariant and action property of the runs has its theorem; what these two
add will need theirs.

Not planned: the syntax of manifests, narinfos and configuration, and the token
tools (pure functions over one input, no shared state), the nginx and harmonia
configuration, the packages and desktop modules (declarative), and the hash
healing script (sequential, one failure path).
