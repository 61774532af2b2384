-------------------------------- MODULE Push --------------------------------
(***************************************************************************)
(* From a CI build to the cache: nix-cache-bundle (bundle.py) asks the own *)
(* cache and upstream what they have and decides what a bundle must carry; *)
(* the push job sends it over ssh and waits until the cache serves it.     *)
(* Meanwhile the host imports, evicts and collects, as module Cache lets   *)
(* it.                                                                     *)
(***************************************************************************)
EXTENDS Cache

CONSTANTS
    Jobs,       \* CI builds, each of one namespace
    JobNs,
    JobRoots,   \* the roots the build is asked for
    Built,      \* what the runner's store has after the build, closed
    Upstream,   \* what the upstream cache serves
    Attempts,   \* len(RETRY_DELAYS) + 1
    MaxRuns     \* bound: runs of one push job

ASSUME JobsAssumption ==
    /\ JobNs \in [Jobs -> Namespaces]
    /\ JobRoots \in [Jobs -> SUBSET Paths]
    /\ \A j \in Jobs : Built[j] \in ClosedSets
    /\ Upstream \in ClosedSets
    /\ Attempts \in Nat \ {0} /\ MaxRuns \in Nat

VARIABLES
    at,         \* where each job is
    ask,        \* the paths whose narinfo it is still asking for
    tries,      \* attempts spent on each of them
    found,      \* those this round has found
    made,       \* the bundle so far, as [roots, upload, paths]
    runs,       \* how often its push job was started
    had, gone   \* history: stored when the job began; collected since then

jobVars == <<at, ask, tries, found, made, runs, had, gone>>
pushVars == <<cacheVars, jobVars>>

Empty == [roots |-> {}, upload |-> {}, paths |-> {}]
NoTries == [p \in Paths |-> 0]

\* j asks about the paths S next.
Round(j, there, S) ==
    /\ at' = [at EXCEPT ![j] = there]
    /\ ask' = [ask EXCEPT ![j] = S]
    /\ found' = [found EXCEPT ![j] = {}]
    /\ tries' = [tries EXCEPT ![j] = NoTries]

Move(j, there) == at' = [at EXCEPT ![j] = there]

-----------------------------------------------------------------------------
(* make_bundle *)

Begin(j) ==
    /\ at[j] = "build"
    /\ Round(j, "roots", JobRoots[j])
    /\ had' = [had EXCEPT ![j] = stored]
    /\ UNCHANGED <<cacheVars, made, runs, gone>>

Probing == {"roots", "own", "upstream"}
Asked(j) == IF at[j] = "upstream" THEN Upstream ELSE stored

\* 200 or 404: the only answers that count.
Answer(j, p) ==
    /\ at[j] \in Probing /\ p \in ask[j]
    /\ ask' = [ask EXCEPT ![j] = @ \ {p}]
    /\ found' = [found EXCEPT ![j] = @ \cup ({p} \cap Asked(j))]
    /\ tries' = [tries EXCEPT ![j][p] = 0]
    /\ UNCHANGED <<cacheVars, at, made, runs, had, gone>>

\* Mutant of Busy: takes a busy cache's answer for a 404.
BusyIsAbsent(j, p) ==
    /\ at[j] \in Probing /\ p \in ask[j]
    /\ ask' = [ask EXCEPT ![j] = @ \ {p}]
    /\ tries' = [tries EXCEPT ![j][p] = 0]
    /\ UNCHANGED <<cacheVars, at, found, made, runs, had, gone>>

\* Mutant of Busy: tries again for ever.
BusyForever(j, p) ==
    /\ at[j] \in Probing /\ p \in ask[j]
    /\ tries' = [tries EXCEPT ![j][p] = (@ + 1) % Attempts]
    /\ UNCHANGED <<cacheVars, at, ask, found, made, runs, had, gone>>

\* 429, 5xx or no connection: asked again, then the whole bundle is given up.
Busy(j, p) ==
    /\ at[j] \in Probing /\ p \in ask[j]
    /\ tries' = [tries EXCEPT ![j][p] = @ + 1]
    /\ at' = [at EXCEPT ![j] = IF tries[j][p] + 1 < Attempts THEN @ ELSE "no bundle"]
    /\ UNCHANGED <<cacheVars, ask, found, made, runs, had, gone>>

\* Any other answer, or a nix command that fails.
Fails(j) ==
    /\ at[j] \in Probing
    /\ Move(j, "no bundle")
    /\ UNCHANGED <<cacheVars, ask, tries, found, made, runs, had, gone>>

RoundDone(j, here) == at[j] = here /\ ask[j] = {}

\* Roots the own cache has are pinned, those built here are shipped as well;
\* others are skipped.
SplitRoots(j) ==
    /\ RoundDone(j, "roots")
    /\ LET upload == (JobRoots[j] \cap Built[j]) \ found[j]
           pinned == found[j] \cup upload
       IN  IF pinned = {}
           THEN Move(j, "no bundle") /\ UNCHANGED <<ask, tries, found, made>>
           ELSE /\ Round(j, "own", Closure(upload))
                /\ made' = [made EXCEPT ![j] =
                    [roots |-> pinned, upload |-> upload, paths |-> {}]]
    /\ UNCHANGED <<cacheVars, runs, had, gone>>

OwnDone(j) ==
    /\ RoundDone(j, "own")
    /\ Round(j, "upstream", Closure(made[j].upload) \ found[j])
    /\ made' = [made EXCEPT ![j].paths = Closure(made[j].upload) \ found[j]]
    /\ UNCHANGED <<cacheVars, runs, had, gone>>

\* Mutant of Missing: leaves out whatever upstream has.
MissingUpstream(j) == made[j].paths \ found[j]

\* A root ships even if upstream has it: the importer substitutes no root.
Missing(j) ==
    (made[j].paths \ found[j]) \cup (found[j] \cap made[j].upload)

Pack(j) ==
    /\ RoundDone(j, "upstream")
    /\ made' = [made EXCEPT ![j].paths = Missing(j)]
    /\ Round(j, "packed", {})
    /\ UNCHANGED <<cacheVars, runs, had, gone>>

-----------------------------------------------------------------------------
(* The push job: upload, then wait until the cache serves what was sent *)

Whole(j) == [ns |-> JobNs[j], roots |-> made[j].roots, paths |-> made[j].paths]

\* The push job is started on the artifact the build left, and again by hand when
\* it failed.
StartPush(j) ==
    /\ at[j] \in {"packed", "failed"}
    /\ runs[j] < MaxRuns
    /\ Move(j, "upload")
    /\ runs' = [runs EXCEPT ![j] = @ + 1]
    /\ UNCHANGED <<cacheVars, ask, tries, found, made, had, gone>>

\* Cut off: a shorter file is queued all the same, which nobody can read.
CutOff(j) == [ns |-> JobNs[j], roots |-> {}, paths |-> {}]

\* Upload names differ, so it does not matter which one this is.
NextUpload(b) == drop[b] = "new" /\ b = CHOOSE c \in Bundles : drop[c] = "new"

Sent(j, there) ==
    /\ at[j] = "upload"
    /\ Move(j, there)
    /\ UNCHANGED <<tries, found, made, runs, had, gone>>

\* Mutant of SendCut: only the last command of the pipe counts.
SendCutUnseen(j, b) ==
    Sent(j, "verify") /\ Receive(b, CutOff(j)) /\ ask' = [ask EXCEPT ![j] = made[j].paths]

Send(j, b) ==
    Sent(j, "verify") /\ Receive(b, Whole(j)) /\ ask' = [ask EXCEPT ![j] = made[j].paths]

\* The receiver queued it, but its "ok" did not arrive.
SendUnheard(j, b) == Sent(j, "failed") /\ Receive(b, Whole(j)) /\ UNCHANGED ask

\* The archiver or the connection stops half way: ssh or pipefail says so.
SendCut(j, b) == Sent(j, "failed") /\ Receive(b, CutOff(j)) /\ UNCHANGED ask

\* Over the cap, empty, no connection, or the receiver died before its rename.
NotSent(j) == Sent(j, "failed") /\ UNCHANGED <<cacheVars, ask>>

\* A path answers 200 in some round.
SeeServed(j, p) ==
    /\ at[j] = "verify" /\ p \in ask[j] \cap stored
    /\ ask' = [ask EXCEPT ![j] = @ \ {p}]
    /\ UNCHANGED <<cacheVars, at, tries, found, made, runs, had, gone>>

Verified(j) ==
    /\ RoundDone(j, "verify")
    /\ Move(j, "ok")
    /\ UNCHANGED <<cacheVars, ask, tries, found, made, runs, had, gone>>

TimedOut(j) ==
    /\ at[j] = "verify" /\ ask[j] # {}
    /\ Move(j, "failed")
    /\ UNCHANGED <<cacheVars, ask, tries, found, made, runs, had, gone>>

-----------------------------------------------------------------------------
(* The host.  Of all it does only what it serves matters here: uploads stay    *)
(* open and nothing is pinned, so paths come whenever Cache lets them come     *)
(* and go more often.                                                          *)

Import(b) ==
    /\ \E S \in SUBSET (Closure(request[b].paths) \ stored) : S # {} /\ Add(b, S)
    /\ UNCHANGED jobVars

Collect(p) ==
    /\ Reclaim(p)
    /\ gone' = [j \in Jobs |-> IF at[j] = "build" THEN {} ELSE gone[j] \cup {p}]
    /\ UNCHANGED <<at, ask, tries, found, made, runs, had>>

JobStep(j) ==
    \/ \E p \in Paths : Answer(j, p) \/ Busy(j, p) \/ SeeServed(j, p)
    \/ Fails(j) \/ SplitRoots(j) \/ OwnDone(j) \/ Pack(j)
    \/ \E b \in Bundles : NextUpload(b) /\ (Send(j, b) \/ SendUnheard(j, b) \/ SendCut(j, b))
    \/ NotSent(j) \/ Verified(j) \/ TimedOut(j)

PushInit ==
    /\ stored = Closure(SystemRoots) /\ pins = {}
    /\ latest = [ns \in Namespaces |-> 0]
    /\ drop = [b \in Bundles |-> "new"]
    /\ request \in [Bundles -> {[ns |-> ns, roots |-> {}, paths |-> {}] : ns \in Namespaces}]
    /\ told = {}
    /\ at = [j \in Jobs |-> "build"]
    /\ ask = [j \in Jobs |-> {}] /\ found = [j \in Jobs |-> {}]
    /\ tries = [j \in Jobs |-> NoTries]
    /\ made = [j \in Jobs |-> Empty] /\ runs = [j \in Jobs |-> 0]
    /\ had = [j \in Jobs |-> {}] /\ gone = [j \in Jobs |-> {}]

PushNext ==
    \/ \E j \in Jobs : Begin(j) \/ JobStep(j) \/ StartPush(j)
    \/ \E b \in Bundles : Import(b)
    \/ \E p \in Paths : Collect(p)

PushSpec == PushInit /\ [][PushNext]_pushVars

\* A step of a runner that is up is taken; builds, reruns and the host owe nothing.
FairPushSpec == PushSpec /\ \A j \in Jobs : WF_pushVars(JobStep(j))

-----------------------------------------------------------------------------
(* Properties *)

Packed == {j \in Jobs : at[j] \in {"packed", "upload", "verify", "ok", "failed"}}

\* A root that CI built, or that the own cache had all along, is in the bundle's
\* manifest: a busy cache is never read as an absent root, which the next pin
\* would then drop (fetch_narinfo, make_bundle).
NoRootLost ==
    \A j \in Packed :
        JobRoots[j] \cap (Built[j] \cup (had[j] \ gone[j])) \subseteq made[j].roots

\* What the host will need for the bundle is in it, upstream or on the host,
\* unless it was collected since the build asked: the roots all but upstream,
\* which the importer does not substitute roots from (make_bundle, importer.py:193).
BundleWillDo ==
    \A j \in Packed :
        /\ made[j].roots \subseteq made[j].paths \cup stored \cup gone[j]
        /\ Closure(made[j].roots) \subseteq
                made[j].paths \cup Upstream \cup stored \cup gone[j]

\* A job that ends well had its whole bundle queued, and the cache served all of
\* it: no upload cut short, no lost reply and no other job's upload of the same
\* paths passes for that (cache-receive.sh, push-bundle.sh, nix-cache-push.yml).
OkMeansDelivered ==
    \A j \in Jobs : at[j] = "ok" =>
        /\ \E b \in Bundles : drop[b] # "new" /\ request[b] = Whole(j)
        /\ made[j].paths \subseteq stored \cup gone[j]

\* A build that asks gets an end, however busy the caches are: retries run out.
JobsEnd ==
    \A j \in Jobs : at[j] \in Probing ~> at[j] \in {"no bundle", "packed"}

=============================================================================
