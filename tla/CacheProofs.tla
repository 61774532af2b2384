----------------------------- MODULE CacheProofs -----------------------------
(***************************************************************************)
(* What a user of the cache may rely on, derived from the abstract         *)
(* specification alone: whatever implements it has these properties too.   *)
(* And what CI leaves there: the invariants of Push, which talks to the    *)
(* same cache.                                                             *)
(***************************************************************************)
EXTENDS Push, StoreGraphProofs

\* The store stays closed and keeps what is pinned, pins stay what somebody
\* asked for, and a bundle is only refused aloud.
ServedInv ==
    /\ stored \in ClosedSets
    /\ Pinned \subseteq stored

AnswerInv ==
    /\ request \in [Bundles -> Request]
    /\ drop \in [Bundles -> {"new", "incoming", "failed", "pruned", "done"}]
    /\ latest = [ns \in Namespaces |-> latest[ns]]
    /\ PinsAnswer

CacheInv == ServedInv /\ AnswerInv /\ RefusedAreTold

\* One bundle's step leaves what the others asked for alone.
LEMMA StillAnswered ==
    ASSUME AnswerInv,
           \A b \in Bundles : drop[b] # "new" =>
                drop'[b] # "new" /\ request'[b] = request[b],
           pins' \subseteq pins
    PROVE  \A p \in pins' : \E b \in Bundles : drop'[b] # "new" /\ Answers(p, b)'
  BY DEF AnswerInv, PinsAnswer, Answers

LEMMA PointersStay ==
    ASSUME AnswerInv, latest' = latest, pins \subseteq pins'
    PROVE  \A ns \in Namespaces : latest'[ns] \in StampsOf(ns)' \cup {0}
  BY DEF AnswerInv, PinsAnswer, StampsOf

LEMMA CacheInitial == CacheInit => CacheInv
  <1> SUFFICES ASSUME CacheInit PROVE CacheInv
    OBVIOUS
  <1>1. stored \in ClosedSets
    BY ClosureIsClosed DEF CacheInit
  <1>2. Pinned = {}
    BY DEF CacheInit, Pinned
  <1> QED
    BY <1>1, <1>2
    DEF CacheInit, CacheInv, ServedInv, AnswerInv, PinsAnswer, StampsOf, RefusedAreTold

LEMMA ServedNext ==
    ASSUME CacheInv, [CacheNext]_cacheVars
    PROVE  ServedInv'
  <1> USE DEF CacheInv, ServedInv
  <1>1. ASSUME pins' \subseteq pins, stored' = stored
        PROVE  ServedInv'
    BY <1>1 DEF Pinned
  <1>2. ASSUME NEW b \in Bundles, Add(b, stored' \ stored)
        PROVE  ServedInv'
    <2>1. stored' \subseteq Paths /\ Closed(stored') /\ stored \subseteq stored'
      BY <1>2 DEF Add, ClosedSets, Closure
    <2>2. Pinned' = Pinned
      BY <1>2 DEF Add, Pinned
    <2> QED
      BY <2>1, <2>2 DEF ClosedSets
  <1>3. ASSUME NEW b \in Bundles, NEW s, PinRootsOf(b, s)
        PROVE  ServedInv'
    <2>1. request[b].roots \subseteq Paths
      BY DEF AnswerInv, Request
    <2>2. request[b].roots \subseteq stored
      BY <1>3, <2>1, ClosureContains DEF PinRootsOf
    <2> QED
      BY <1>3, <2>2 DEF PinRootsOf, Pinned
  <1>4. ASSUME NEW p \in Paths, Reclaim(p)
        PROVE  ServedInv'
    <2>1. stored' \in ClosedSets
      BY <1>4 DEF Reclaim, ClosedSets, Closed
    <2>2. Pinned \in SUBSET Paths
      BY DEF ClosedSets
    <2>3. Pinned \subseteq Closure(Pinned)
      BY <2>2, ClosureContains
    <2>4. Closure(Pinned) \subseteq Closure(Pinned \cup SystemRoots)
      BY ClosureMonotone
    <2>5. p \notin Pinned
      BY <1>4, <2>3, <2>4 DEF Reclaim
    <2>6. Pinned' = Pinned
      BY <1>4 DEF Reclaim, Pinned
    <2> QED
      BY <1>4, <2>1, <2>5, <2>6 DEF Reclaim
  <1> QED
    BY <1>1, <1>2, <1>3, <1>4
    DEF CacheNext, Receive, Accept, Tell, Refuse, Forget, Point, Unpin, cacheVars

LEMMA AnswerNext ==
    ASSUME CacheInv, [CacheNext]_cacheVars
    PROVE  AnswerInv'
  <1> USE DEF CacheInv
  <1>1. ASSUME NEW b \in Bundles,
               \/ Receive(b, request'[b]) \/ Accept(b) \/ Refuse(b) \/ Forget(b)
               \/ Tell(b) \/ Add(b, stored' \ stored)
        PROVE  AnswerInv'
    <2>1. \A c \in Bundles : drop[c] # "new" =>
            drop'[c] # "new" /\ request'[c] = request[c]
      BY <1>1 DEF Receive, Accept, Refuse, Forget, Tell, Add, Open, AnswerInv
    <2>2. /\ request' \in [Bundles -> Request]
          /\ drop' \in [Bundles -> {"new", "incoming", "failed", "pruned", "done"}]
          /\ pins' = pins /\ latest' = latest
      BY <1>1 DEF Receive, Accept, Refuse, Forget, Tell, Add, Open, AnswerInv
    <2> QED
      BY <2>1, <2>2, StillAnswered, PointersStay DEF AnswerInv, PinsAnswer
  <1>2. ASSUME NEW b \in Bundles, NEW s, PinRootsOf(b, s)
        PROVE  AnswerInv'
    <2>1. /\ pins' = pins \cup
                {[ns |-> request[b].ns, stamp |-> s, targets |-> request[b].roots]}
          /\ drop[b] # "new" /\ UNCHANGED <<latest, drop, request>>
      BY <1>2 DEF PinRootsOf, Open
    <2>2. \A p \in pins' : \E c \in Bundles : drop'[c] # "new" /\ Answers(p, c)'
      BY <2>1 DEF AnswerInv, PinsAnswer, Answers
    <2> QED
      BY <2>1, <2>2, PointersStay DEF AnswerInv, PinsAnswer
  <1>3. ASSUME NEW ns \in Namespaces, Point(ns, latest'[ns])
        PROVE  AnswerInv'
    <2>1. UNCHANGED <<pins, drop, request>>
      BY <1>3 DEF Point
    <2>2. \A m \in Namespaces : latest'[m] \in StampsOf(m) \cup {0}
      BY <1>3 DEF Point, AnswerInv, PinsAnswer
    <2>3. \A m \in Namespaces : StampsOf(m)' = StampsOf(m)
      BY <2>1 DEF StampsOf
    <2>4. latest' = [m \in Namespaces |-> latest'[m]]
      BY <1>3 DEF Point, AnswerInv
    <2> QED
      BY <2>1, <2>2, <2>3, <2>4, StillAnswered DEF AnswerInv, PinsAnswer
  <1>4. ASSUME NEW p \in pins, Unpin(p)
        PROVE  AnswerInv'
    <2>1. UNCHANGED <<latest, drop, request>> /\ pins' = pins \ {p}
      BY <1>4 DEF Unpin
    <2>2. \A ns \in Namespaces : latest[ns] \in StampsOf(ns)' \cup {0}
      BY <1>4, <2>1 DEF Unpin, AnswerInv, PinsAnswer, StampsOf
    <2> QED
      BY <2>1, <2>2, StillAnswered DEF AnswerInv, PinsAnswer
  <1>5. ASSUME UNCHANGED <<pins, latest, drop, request>>
        PROVE  AnswerInv'
    BY <1>5 DEF AnswerInv, PinsAnswer, Answers, StampsOf
  <1> QED
    BY <1>1, <1>2, <1>3, <1>4, <1>5 DEF CacheNext, Reclaim, cacheVars

LEMMA ToldNext ==
    ASSUME CacheInv, [CacheNext]_cacheVars
    PROVE  RefusedAreTold'
  BY DEF CacheInv, AnswerInv, RefusedAreTold, CacheNext, Receive, Add, PinRootsOf,
         Accept, Tell, Refuse, Forget, Point, Unpin, Reclaim, Open, cacheVars

LEMMA CacheInvariant == CacheSpec => []CacheInv
  <1>1. CacheInv /\ [CacheNext]_cacheVars => CacheInv'
    BY ServedNext, AnswerNext, ToldNext DEF CacheInv
  <1> QED
    BY <1>1, CacheInitial, PTL DEF CacheSpec

\* The closure of every pin can be served at any time.
THEOREM EveryPinIsServed == CacheSpec => []PinsServed
  <1>1. CacheInv => PinsServed
    BY ClosureIsLeast DEF CacheInv, ServedInv, PinsServed
  <1> QED
    BY <1>1, CacheInvariant, PTL

\* Each pin holds one bundle's roots whole, and `latest` never dangles.
THEOREM EveryPinAnswers == CacheSpec => []PinsAnswer
  <1>1. CacheInv => PinsAnswer
    BY DEF CacheInv, AnswerInv
  <1> QED
    BY <1>1, CacheInvariant, PTL

\* No bundle is refused, or forgotten after that, without somebody being told.
THEOREM NoSilentRefusal == CacheSpec => []RefusedAreTold
  <1>1. CacheInv => RefusedAreTold
    BY DEF CacheInv
  <1> QED
    BY <1>1, CacheInvariant, PTL

-----------------------------------------------------------------------------
(* Push: what CI leaves in the cache.  The argument: what a job has learnt  *)
(* in a round of questions is true of the cache, or was until something the *)
(* job needed was collected, and `gone` remembers that.  So the roots it    *)
(* keeps, and what the bundle leaves out, are on the host or excused.       *)

PushTypes ==
    /\ stored \in ClosedSets
    /\ request \in [Bundles -> Request]
    /\ drop \in [Bundles -> {"new", "incoming"}]
    /\ made \in [Jobs -> [roots : SUBSET Paths, upload : SUBSET Paths, paths : SUBSET Paths]]
    /\ at = [j \in Jobs |-> at[j]] /\ ask = [j \in Jobs |-> ask[j]]
    /\ found \in [Jobs -> SUBSET Paths]
    /\ had = [j \in Jobs |-> had[j]] /\ gone = [j \in Jobs |-> gone[j]]

\* What the host has, or has had since job j began.
Seen(j) == stored \cup gone[j]

Shipped == {"packed", "upload", "verify", "ok", "failed"}
Split == {"own", "upstream"} \cup Shipped

\* What j has learnt is true of the cache, or of what the cache had meanwhile.
AskInv(j) ==
    /\ at[j] = "build" => gone[j] = {}
    /\ at[j] # "build" => had[j] \subseteq Seen(j)
    /\ at[j] = "roots" =>
        /\ Closure(found[j]) \subseteq Seen(j)
        /\ JobRoots[j] \cap (had[j] \ gone[j]) \subseteq ask[j] \cup found[j]
    /\ at[j] = "own" => found[j] \subseteq Seen(j)
    /\ at[j] = "upstream" => found[j] \subseteq Upstream

\* From the choice of the roots on, no root is lost, and what the pin needs and the
\* bundle does not carry is accounted for.
MadeInv(j) ==
    /\ at[j] \in Split => JobRoots[j] \cap (Built[j] \cup (had[j] \ gone[j])) \subseteq made[j].roots
    /\ at[j] = "own" =>
        /\ made[j].roots \subseteq made[j].upload \cup Seen(j)
        /\ Closure(made[j].roots) \subseteq Closure(made[j].upload) \cup Seen(j)
    /\ at[j] = "upstream" =>
        /\ made[j].roots \subseteq (made[j].paths \cap made[j].upload) \cup Seen(j)
        /\ Closure(made[j].roots) \subseteq made[j].paths \cup Seen(j)
    /\ at[j] \in Shipped =>
        /\ made[j].roots \subseteq made[j].paths \cup Seen(j)
        /\ Closure(made[j].roots) \subseteq made[j].paths \cup Upstream \cup Seen(j)

Queued(j) == \E b \in Bundles : drop[b] # "new" /\ request[b] = Whole(j)

\* A job that waits, or has ended well, has its whole bundle in the queue.
SentInv(j) ==
    /\ at[j] \in {"verify", "ok"} => Queued(j) /\ made[j].paths \ ask[j] \subseteq Seen(j)
    /\ at[j] = "ok" => ask[j] = {}

JobInv(j) == AskInv(j) /\ MadeInv(j) /\ SentInv(j)

PushInv == PushTypes /\ \A j \in Jobs : JobInv(j)
-----------------------------------------------------------------------------

\* No job has begun.
LEMMA PushInitial == PushInit => PushInv
<1> SUFFICES ASSUME PushInit PROVE PushInv
  OBVIOUS
<1>1. PushTypes
  BY ClosureIsClosed DEF PushInit, PushTypes, Request, Empty
<1>2. ASSUME NEW j \in Jobs PROVE JobInv(j)
  <2>1. at[j] = "build" /\ gone[j] = {}
    BY DEF PushInit
  <2>2. QED
    BY <2>1 DEF JobInv, AskInv, MadeInv, SentInv, Split, Shipped
<1>3. QED
  BY <1>1, <1>2 DEF PushInv

\* A round's paths, and where it goes.
LEMMA RoundOf ==
    ASSUME PushTypes, NEW j \in Jobs, NEW there, NEW S, Round(j, there, S)
    PROVE  /\ at'[j] = there /\ ask'[j] = S /\ found'[j] = {}
           /\ at' = [i \in Jobs |-> at'[i]] /\ ask' = [i \in Jobs |-> ask'[i]]
           /\ found' \in [Jobs -> SUBSET Paths]
           /\ \A i \in Jobs \ {j} : at'[i] = at[i] /\ ask'[i] = ask[i] /\ found'[i] = found[i]
  BY DEF PushTypes, Round

\* A move changes the place of one job and nothing else of it.
LEMMA MoveOf ==
    ASSUME PushTypes, NEW j \in Jobs, NEW there, Move(j, there)
    PROVE  /\ at'[j] = there /\ at' = [i \in Jobs |-> at'[i]]
           /\ \A i \in Jobs \ {j} : at'[i] = at[i]
  BY DEF PushTypes, Move

\* Whatever is queued stays queued as it is.
QueueGrows ==
    /\ request' \in [Bundles -> Request]
    /\ drop' \in [Bundles -> {"new", "incoming"}]
    /\ \A b \in Bundles : drop[b] # "new" => drop'[b] # "new" /\ request'[b] = request[b]

\* A received bundle is in the queue, and those before it still are.
LEMMA ReceiveGrows ==
    ASSUME PushTypes, NEW b \in Bundles, NEW r, Receive(b, r)
    PROVE  /\ QueueGrows /\ UNCHANGED stored
           /\ drop'[b] # "new" /\ request'[b] = r
  BY DEF PushTypes, Receive, QueueGrows

\* What is in the queue stays there while the requests do.
LEMMA SameQueue ==
    ASSUME PushTypes, UNCHANGED <<drop, request>>
    PROVE  QueueGrows
  BY DEF PushTypes, QueueGrows

\* What a step of job j leaves of the others and of the host, whichever it is.
LEMMA StepTypes ==
    ASSUME PushTypes, NEW j \in Jobs, Begin(j) \/ JobStep(j) \/ StartPush(j)
    PROVE  /\ PushTypes' /\ QueueGrows /\ UNCHANGED <<stored, gone>>
           /\ \A i \in Jobs \ {j} :
                /\ at'[i] = at[i] /\ ask'[i] = ask[i] /\ found'[i] = found[i]
                /\ made'[i] = made[i] /\ had'[i] = had[i]
<1> USE DEF PushTypes
<1>1. CASE Begin(j)
  BY <1>1, RoundOf, SameQueue DEF Begin, cacheVars
<1>2. ASSUME NEW p \in Paths, Answer(j, p) \/ Busy(j, p) \/ SeeServed(j, p)
      PROVE  /\ PushTypes' /\ QueueGrows /\ UNCHANGED <<stored, gone>>
             /\ \A i \in Jobs \ {j} :
                  /\ at'[i] = at[i] /\ ask'[i] = ask[i] /\ found'[i] = found[i]
                  /\ made'[i] = made[i] /\ had'[i] = had[i]
  <2>1. CASE Answer(j, p)
    BY <2>1, SameQueue DEF Answer, cacheVars
  <2>2. CASE Busy(j, p)
    BY <2>2, SameQueue DEF Busy, cacheVars
  <2>3. CASE SeeServed(j, p)
    BY <2>3, SameQueue DEF SeeServed, cacheVars
  <2>4. QED
    BY <1>2, <2>1, <2>2, <2>3
<1>3. CASE Fails(j) \/ Verified(j) \/ TimedOut(j) \/ StartPush(j)
  BY <1>3, MoveOf, SameQueue DEF Fails, Verified, TimedOut, StartPush, cacheVars
<1>4. CASE SplitRoots(j)
  <2>1. CASE UNCHANGED <<ask, tries, found, made>> /\ Move(j, "no bundle")
    BY <1>4, <2>1, MoveOf, SameQueue DEF SplitRoots, cacheVars
  <2>2. CASE ~ (UNCHANGED <<ask, tries, found, made>> /\ Move(j, "no bundle"))
    <3> DEFINE upload == (JobRoots[j] \cap Built[j]) \ found[j]
               m == [roots |-> found[j] \cup upload, upload |-> upload, paths |-> {}]
    <3>1. /\ Round(j, "own", Closure(upload)) /\ made' = [made EXCEPT ![j] = m]
          /\ UNCHANGED <<cacheVars, had, gone>>
      BY <1>4, <2>2 DEF SplitRoots
    <3>2. m \in [roots : SUBSET Paths, upload : SUBSET Paths, paths : SUBSET Paths]
      BY JobsAssumption
    <3> HIDE DEF m, upload
    <3>3. QED
      BY <3>1, <3>2, RoundOf, SameQueue DEF cacheVars
  <2>3. QED
    BY <2>1, <2>2
<1>5. CASE OwnDone(j)
  <2>1. Closure(made[j].upload) \ found[j] \subseteq Paths
    BY DEF Closure
  <2>2. QED
    BY <1>5, <2>1, RoundOf, SameQueue DEF OwnDone, cacheVars
<1>6. CASE Pack(j)
  <2>1. Missing(j) \subseteq Paths
    BY DEF Missing
  <2>2. QED
    <3>1. /\ Round(j, "packed", {}) /\ made' = [made EXCEPT ![j].paths = Missing(j)]
          /\ UNCHANGED <<stored, drop, request, had, gone>>
      BY <1>6 DEF Pack, cacheVars
    <3>2. /\ made' \in [Jobs -> [roots : SUBSET Paths, upload : SUBSET Paths, paths : SUBSET Paths]]
          /\ \A i \in Jobs \ {j} : made'[i] = made[i]
      BY <2>1, <3>1
    <3>3. QED
      BY <3>1, <3>2, RoundOf, SameQueue
<1>7. CASE NotSent(j)
  BY <1>7, MoveOf, SameQueue DEF NotSent, Sent, cacheVars
<1>8. ASSUME NEW b \in Bundles, Send(j, b) \/ SendUnheard(j, b) \/ SendCut(j, b)
      PROVE  /\ PushTypes' /\ QueueGrows /\ UNCHANGED <<stored, gone>>
             /\ \A i \in Jobs \ {j} :
                  /\ at'[i] = at[i] /\ ask'[i] = ask[i] /\ found'[i] = found[i]
                  /\ made'[i] = made[i] /\ had'[i] = had[i]
  <2>1. /\ Move(j, "verify") \/ Move(j, "failed")
        /\ UNCHANGED <<found, made, had, gone>>
        /\ ask' = [ask EXCEPT ![j] = made[j].paths] \/ UNCHANGED ask
    BY <1>8 DEF Send, SendUnheard, SendCut, Sent
  <2>2. QueueGrows /\ UNCHANGED stored
    BY <1>8, ReceiveGrows DEF Send, SendUnheard, SendCut
  <2>3. QED
    BY <2>1, <2>2, MoveOf DEF QueueGrows
<1>9. QED
  BY <1>1, <1>2, <1>3, <1>4, <1>5, <1>6, <1>7, <1>8 DEF JobStep

\* A step of the host or of another job leaves what a job knows true.
LEMMA OthersStay ==
    ASSUME PushTypes, QueueGrows, NEW j \in Jobs, JobInv(j),
           at'[j] = at[j], ask'[j] = ask[j], found'[j] = found[j], made'[j] = made[j],
           had'[j] = had[j],
           at[j] = "build" => gone'[j] = {},
           at[j] # "build" => gone[j] \subseteq gone'[j] /\ Seen(j) \subseteq Seen(j)'
    PROVE  JobInv(j)'
<1>1. AskInv(j)'
  BY DEF JobInv, AskInv
<1>2. MadeInv(j)'
  BY DEF JobInv, MadeInv, Split, Shipped
<1>3. SentInv(j)'
  <2>1. at[j] \in {"verify", "ok"} /\ Queued(j) => Queued(j)'
    BY DEF Queued, Whole, QueueGrows
  <2>2. QED
    BY <2>1 DEF JobInv, SentInv
<1>4. QED
  BY <1>1, <1>2, <1>3 DEF JobInv

\* The host imports and collects: the store stays closed, and what it loses counts
\* as gone for every job that has begun.
LEMMA HostSteps ==
    ASSUME PushInv, (\E b \in Bundles : Import(b)) \/ (\E p \in Paths : Collect(p))
    PROVE  PushInv'
<1>1. UNCHANGED <<at, ask, found, made, had, drop, request>>
  BY DEF Import, Collect, Add, Reclaim, jobVars
<1>2. QueueGrows
  BY <1>1, SameQueue DEF PushInv
<1>3. /\ stored' \in ClosedSets /\ gone' = [j \in Jobs |-> gone'[j]]
      /\ \A j \in Jobs :
            /\ at[j] = "build" => gone'[j] = {}
            /\ at[j] # "build" => gone[j] \subseteq gone'[j] /\ Seen(j) \subseteq Seen(j)'
  <2>1. ASSUME NEW b \in Bundles, Import(b)
        PROVE  /\ stored' \in ClosedSets /\ stored \subseteq stored' /\ UNCHANGED gone
    BY <2>1 DEF Import, Add, jobVars, PushInv, PushTypes, ClosedSets, Closure
  <2>2. ASSUME NEW p \in Paths, Collect(p)
        PROVE  /\ stored' = stored \ {p} /\ \A q \in stored : p \notin Refs[q]
               /\ gone' = [j \in Jobs |-> IF at[j] = "build" THEN {} ELSE gone[j] \cup {p}]
    BY <2>2 DEF Collect, Reclaim
  <2>3. ASSUME NEW p \in Paths, Collect(p)
        PROVE  stored' \in ClosedSets
    BY <2>2, <2>3 DEF PushInv, PushTypes, ClosedSets, Closed
  <2>4. CASE \E b \in Bundles : Import(b)
    BY <2>1, <2>4 DEF PushInv, PushTypes, Seen, JobInv, AskInv
  <2>5. CASE \E p \in Paths : Collect(p)
    BY <2>2, <2>3, <2>5 DEF Seen
  <2>6. QED
    BY <2>4, <2>5
<1>4. PushTypes'
  BY <1>1, <1>2, <1>3 DEF PushInv, PushTypes, QueueGrows
<1>5. ASSUME NEW j \in Jobs PROVE JobInv(j)'
  BY <1>1, <1>2, <1>3, OthersStay DEF PushInv
<1>6. QED
  BY <1>4, <1>5 DEF PushInv

-----------------------------------------------------------------------------

\* An answer of 200 is about the path and all it needs, a 404 about what was not
\* there: nothing the cache had all along is missed.
LEMMA AnswerKnows ==
    ASSUME PushTypes, NEW j \in Jobs, JobInv(j), NEW p \in Paths, Answer(j, p)
    PROVE  JobInv(j)'
<1> USE DEF PushTypes
<1>1. /\ at[j] \in Probing /\ p \in ask[j]
      /\ ask'[j] = ask[j] \ {p} /\ found'[j] = found[j] \cup ({p} \cap Asked(j))
      /\ UNCHANGED <<stored, drop, request, at, made, had, gone>>
  BY DEF Answer, cacheVars
<1>2. ASSUME at[j] = "roots" PROVE Closure(found'[j]) \subseteq Seen(j)
  <2>1. Asked(j) = stored
    BY <1>2 DEF Asked
  <2>2. Closure({p} \cap stored) \subseteq stored
    BY ClosureIsLeast
  <2>3. found[j] \in SUBSET Paths /\ {p} \cap stored \in SUBSET Paths
    OBVIOUS
  <2>4. Closure(found'[j]) = Closure(found[j]) \cup Closure({p} \cap stored)
    BY <1>1, <2>1, <2>3, ClosureUnion
  <2>5. QED
    BY <1>2, <2>2, <2>4 DEF JobInv, AskInv, Seen
<1>3. ASSUME at[j] = "roots" PROVE JobRoots[j] \cap (had[j] \ gone[j]) \subseteq ask'[j] \cup found'[j]
  BY <1>1, <1>3 DEF JobInv, AskInv, Seen, Asked
<1>4. AskInv(j)'
  <2>1. at[j] = "own" => found'[j] \subseteq Seen(j)
    BY <1>1 DEF JobInv, AskInv, Seen, Asked
  <2>2. at[j] = "upstream" => found'[j] \subseteq Upstream
    BY <1>1 DEF JobInv, AskInv, Asked
  <2>3. QED
    BY <1>1, <1>2, <1>3, <2>1, <2>2 DEF JobInv, AskInv, Seen, Probing
<1>5. MadeInv(j)'
  BY <1>1 DEF JobInv, MadeInv, Seen
<1>6. SentInv(j)'
  BY <1>1 DEF SentInv, Probing
<1>7. QED
  BY <1>4, <1>5, <1>6 DEF JobInv

\* A job gives up, or moves on with its bundle as it is.
LEMMA GivesUp ==
    ASSUME PushTypes, NEW j \in Jobs, JobInv(j),
           at[j] # "build", at'[j] = "no bundle",
           UNCHANGED <<stored, had, gone>>
    PROVE  JobInv(j)'
  BY DEF JobInv, AskInv, MadeInv, SentInv, Seen, Split, Shipped

\* What was packed stays packed.
LEMMA StaysShipped ==
    ASSUME PushTypes, NEW j \in Jobs, JobInv(j),
           at[j] \in Shipped, at'[j] \in Shipped,
           UNCHANGED <<stored, made, had, gone>>
    PROVE  AskInv(j)' /\ MadeInv(j)'
  BY DEF JobInv, AskInv, MadeInv, Seen, Split, Shipped

\* The roots chosen are those found and those built.
LEMMA SplitKnows ==
    ASSUME PushTypes, NEW j \in Jobs, JobInv(j), SplitRoots(j)
    PROVE  JobInv(j)'
<1> USE DEF PushTypes
<1> DEFINE upload == (JobRoots[j] \cap Built[j]) \ found[j]
           roots == found[j] \cup upload
<1>1. /\ at[j] = "roots" /\ ask[j] = {} /\ UNCHANGED <<stored, had, gone>>
  BY DEF SplitRoots, RoundDone, cacheVars
<1>2. CASE Move(j, "no bundle")
  BY <1>1, <1>2, MoveOf, GivesUp
<1>3. CASE ~ Move(j, "no bundle")
  <2>1. /\ Round(j, "own", Closure(upload))
        /\ made' = [made EXCEPT ![j] = [roots |-> roots, upload |-> upload, paths |-> {}]]
    BY <1>3 DEF SplitRoots
  <2>2. /\ at'[j] = "own" /\ found'[j] = {}
        /\ made'[j].roots = roots /\ made'[j].upload = upload
    BY <2>1, RoundOf
  <2>3. found[j] \in SUBSET Paths /\ upload \in SUBSET Paths
    BY JobsAssumption
  <2>4. /\ had[j] \subseteq Seen(j) /\ Closure(found[j]) \subseteq Seen(j)
        /\ JobRoots[j] \cap (had[j] \ gone[j]) \subseteq found[j]
    BY <1>1 DEF JobInv, AskInv
  <2>5. Closure(roots) \subseteq Closure(upload) \cup Seen(j)
    BY <2>3, <2>4, ClosureUnion
  <2>6. roots \subseteq upload \cup Seen(j)
    BY <2>3, <2>4, ClosureContains
  <2>7. JobRoots[j] \cap (Built[j] \cup (had[j] \ gone[j])) \subseteq roots
    BY <2>4
  <2>8. AskInv(j)'
    BY <1>1, <2>2, <2>4 DEF AskInv, Seen
  <2> HIDE DEF upload, roots
  <2>9. MadeInv(j)'
    BY <1>1, <2>2, <2>5, <2>6, <2>7 DEF MadeInv, Seen, Split, Shipped
  <2>10. QED
    BY <2>2, <2>8, <2>9 DEF JobInv, SentInv
<1>4. QED
  BY <1>2, <1>3

\* What the own cache has of the closures needs not be shipped.
LEMMA OwnKnows ==
    ASSUME PushTypes, NEW j \in Jobs, JobInv(j), OwnDone(j)
    PROVE  JobInv(j)'
<1> USE DEF PushTypes
<1>1. /\ at[j] = "own" /\ UNCHANGED <<stored, had, gone>>
      /\ Round(j, "upstream", Closure(made[j].upload) \ found[j])
      /\ made' = [made EXCEPT ![j].paths = Closure(made[j].upload) \ found[j]]
  BY DEF OwnDone, RoundDone, cacheVars
<1>2. at'[j] = "upstream" /\ found'[j] = {}
  BY <1>1, RoundOf
<1>3. /\ made'[j].roots = made[j].roots /\ made'[j].upload = made[j].upload
      /\ made'[j].paths = Closure(made[j].upload) \ found[j]
  BY <1>1
<1>4. /\ had[j] \subseteq Seen(j) /\ found[j] \subseteq Seen(j)
      /\ JobRoots[j] \cap (Built[j] \cup (had[j] \ gone[j])) \subseteq made[j].roots
      /\ made[j].roots \subseteq made[j].upload \cup Seen(j)
      /\ Closure(made[j].roots) \subseteq Closure(made[j].upload) \cup Seen(j)
  BY <1>1 DEF JobInv, AskInv, MadeInv, Split
<1>5. made[j].upload \subseteq Closure(made[j].upload)
  BY ClosureContains
<1>6. AskInv(j)'
  BY <1>1, <1>2, <1>4 DEF AskInv, Seen
<1>7. MadeInv(j)'
  BY <1>1, <1>2, <1>3, <1>4, <1>5 DEF MadeInv, Seen, Split, Shipped
<1>8. QED
  BY <1>2, <1>6, <1>7 DEF JobInv, SentInv

\* What upstream has is left out, all but the roots.
LEMMA PackKnows ==
    ASSUME PushTypes, NEW j \in Jobs, JobInv(j), Pack(j)
    PROVE  JobInv(j)'
<1> USE DEF PushTypes
<1>1. /\ at[j] = "upstream" /\ UNCHANGED <<stored, had, gone>>
      /\ Round(j, "packed", {})
      /\ made' = [made EXCEPT ![j].paths = Missing(j)]
  BY DEF Pack, RoundDone, cacheVars
<1>2. at'[j] = "packed"
  BY <1>1, RoundOf
<1>3. made'[j].roots = made[j].roots /\ made'[j].paths = Missing(j)
  BY <1>1
<1>4. /\ had[j] \subseteq Seen(j) /\ found[j] \subseteq Upstream
      /\ JobRoots[j] \cap (Built[j] \cup (had[j] \ gone[j])) \subseteq made[j].roots
      /\ made[j].roots \subseteq (made[j].paths \cap made[j].upload) \cup Seen(j)
      /\ Closure(made[j].roots) \subseteq made[j].paths \cup Seen(j)
  BY <1>1 DEF JobInv, AskInv, MadeInv, Split
<1>5. /\ made[j].paths \cap made[j].upload \subseteq Missing(j)
      /\ made[j].paths \subseteq Missing(j) \cup Upstream
  BY <1>4 DEF Missing
<1>6. AskInv(j)'
  BY <1>1, <1>2, <1>4 DEF AskInv, Seen
<1>7. MadeInv(j)'
  BY <1>1, <1>2, <1>3, <1>4, <1>5 DEF MadeInv, Seen, Split, Shipped
<1>8. QED
  BY <1>2, <1>6, <1>7 DEF JobInv, SentInv

\* A bundle counts as sent when it is in the queue, and as served path by path.
LEMMA PushKnows ==
    ASSUME PushTypes, NEW j \in Jobs, JobInv(j),
           \/ \E b \in Bundles : Send(j, b) \/ SendUnheard(j, b) \/ SendCut(j, b)
           \/ \E p \in Paths : SeeServed(j, p)
           \/ NotSent(j) \/ Verified(j) \/ TimedOut(j) \/ StartPush(j)
    PROVE  JobInv(j)'
<1> USE DEF PushTypes
<1>1. ASSUME NEW b \in Bundles, Send(j, b)
      PROVE  JobInv(j)'
  <2>1. /\ at[j] = "upload" /\ at'[j] = "verify" /\ ask'[j] = made[j].paths
        /\ UNCHANGED <<made, had, gone>> /\ Receive(b, Whole(j))
    BY <1>1, MoveOf DEF Send, Sent
  <2>2. UNCHANGED stored /\ drop'[b] # "new" /\ request'[b] = Whole(j)
    BY <2>1, ReceiveGrows
  <2>3. SentInv(j)'
    BY <2>1, <2>2 DEF SentInv, Queued, Whole
  <2>4. QED
    BY <2>1, <2>2, <2>3, StaysShipped DEF JobInv, Shipped
<1>2. ASSUME NotSent(j) \/ \E b \in Bundles : SendUnheard(j, b) \/ SendCut(j, b)
      PROVE  JobInv(j)'
  <2>1. /\ at[j] = "upload" /\ at'[j] = "failed"
        /\ UNCHANGED <<stored, made, had, gone>>
    BY <1>2, MoveOf DEF SendUnheard, SendCut, NotSent, Sent, Receive, cacheVars
  <2>2. QED
    BY <2>1, StaysShipped DEF JobInv, SentInv, Shipped
<1>3. ASSUME NEW p \in Paths, SeeServed(j, p)
      PROVE  JobInv(j)'
  <2>1. /\ at[j] = "verify" /\ at'[j] = "verify" /\ p \in stored
        /\ ask'[j] = ask[j] \ {p} /\ UNCHANGED <<stored, drop, request, made, had, gone>>
    BY <1>3 DEF SeeServed, cacheVars
  <2>2. SentInv(j)'
    BY <2>1 DEF JobInv, SentInv, Queued, Whole, Seen
  <2>3. QED
    BY <2>1, <2>2, StaysShipped DEF JobInv, Shipped
<1>4. CASE Verified(j)
  <2>1. /\ at[j] = "verify" /\ at'[j] = "ok" /\ ask[j] = {} /\ ask'[j] = ask[j]
        /\ UNCHANGED <<stored, drop, request, made, had, gone>>
    BY <1>4, MoveOf DEF Verified, RoundDone, cacheVars
  <2>2. SentInv(j)'
    BY <2>1 DEF JobInv, SentInv, Queued, Whole, Seen
  <2>3. QED
    BY <2>1, <2>2, StaysShipped DEF JobInv, Shipped
<1>5. CASE TimedOut(j) \/ StartPush(j)
  <2>1. /\ at[j] \in Shipped /\ at'[j] \in {"failed", "upload"}
        /\ UNCHANGED <<stored, made, had, gone>>
    BY <1>5, MoveOf DEF TimedOut, StartPush, Shipped, cacheVars
  <2>2. QED
    BY <2>1, StaysShipped DEF JobInv, SentInv, Shipped
<1>6. QED
  BY <1>1, <1>2, <1>3, <1>4, <1>5

\* A job's own step keeps what is known of it.
LEMMA OwnSteps ==
    ASSUME PushTypes, NEW j \in Jobs, JobInv(j), Begin(j) \/ JobStep(j) \/ StartPush(j)
    PROVE  JobInv(j)'
<1> USE DEF PushTypes
<1>1. CASE Begin(j)
  <2>1. /\ at[j] = "build" /\ at'[j] = "roots" /\ ask'[j] = JobRoots[j] /\ found'[j] = {}
        /\ had'[j] = stored /\ UNCHANGED <<stored, gone>>
    BY <1>1, RoundOf DEF Begin, cacheVars
  <2>2. Closure({}) \subseteq stored
    BY ClosureIsLeast
  <2>3. QED
    BY <2>1, <2>2 DEF JobInv, AskInv, MadeInv, SentInv, Seen, Split, Shipped
<1>2. ASSUME NEW p \in Paths, Busy(j, p)
      PROVE  JobInv(j)'
  <2>1. /\ at[j] \in Probing /\ UNCHANGED <<cacheVars, ask, found, made, had, gone>>
        /\ at'[j] \in {at[j], "no bundle"}
    BY <1>2 DEF Busy
  <2>2. CASE at'[j] = "no bundle"
    BY <2>1, <2>2, GivesUp DEF Probing, cacheVars
  <2>3. CASE at'[j] = at[j]
    BY <2>1, <2>3, OthersStay, SameQueue DEF Probing, cacheVars, Seen
  <2>4. QED
    BY <2>1, <2>2, <2>3
<1>3. CASE Fails(j)
  BY <1>3, MoveOf, GivesUp DEF Fails, Probing, cacheVars
<1>4. CASE SplitRoots(j) \/ OwnDone(j) \/ Pack(j)
  BY <1>4, SplitKnows, OwnKnows, PackKnows
<1>5. QED
  BY <1>1, <1>2, <1>3, <1>4, AnswerKnows, PushKnows DEF JobStep

\* The invariant holds whatever the jobs, the import and the collector do.
LEMMA PushInvariant == PushSpec => []PushInv
<1>1. PushInv /\ [PushNext]_pushVars => PushInv'
  <2> SUFFICES ASSUME PushInv, [PushNext]_pushVars PROVE PushInv'
    OBVIOUS
  <2>1. ASSUME NEW j \in Jobs, Begin(j) \/ JobStep(j) \/ StartPush(j)
        PROVE  PushInv'
    <3>1. /\ PushTypes' /\ QueueGrows /\ UNCHANGED <<stored, gone>>
          /\ \A i \in Jobs \ {j} :
                /\ at'[i] = at[i] /\ ask'[i] = ask[i] /\ found'[i] = found[i]
                /\ made'[i] = made[i] /\ had'[i] = had[i]
      BY <2>1, StepTypes DEF PushInv
    <3>2. ASSUME NEW i \in Jobs \ {j} PROVE JobInv(i)'
      <4>1. JobInv(i) /\ (at[i] = "build" => gone'[i] = {})
        BY <3>1 DEF PushInv, JobInv, AskInv
      <4>2. QED
        BY <3>1, <4>1, OthersStay DEF PushInv, Seen
    <3>3. JobInv(j)'
      BY <2>1, OwnSteps DEF PushInv
    <3>4. QED
      BY <3>1, <3>2, <3>3 DEF PushInv
  <2>2. CASE (\E b \in Bundles : Import(b)) \/ (\E p \in Paths : Collect(p))
    BY <2>2, HostSteps
  <2>3. CASE UNCHANGED pushVars
    <3>1. UNCHANGED <<stored, drop, request, at, ask, found, made, had, gone>>
      BY <2>3 DEF pushVars, cacheVars, jobVars
    <3>2. PushTypes' /\ QueueGrows
      BY <3>1, SameQueue DEF PushInv, PushTypes
    <3>3. ASSUME NEW j \in Jobs PROVE JobInv(j)'
      <4>1. JobInv(j) /\ (at[j] = "build" => gone'[j] = {})
        BY <3>1 DEF PushInv, JobInv, AskInv
      <4>2. QED
        BY <3>1, <3>2, <4>1, OthersStay DEF PushInv, Seen
    <3>4. QED
      BY <3>2, <3>3 DEF PushInv
  <2>4. QED
    BY <2>1, <2>2, <2>3 DEF PushNext
<1>2. QED
  BY <1>1, PushInitial, PTL DEF PushSpec

\* No busy cache, and no collection before the build asked, costs a bundle a root:
\* what was built or there all along is in the manifest (fetch_narinfo, make_bundle).
THEOREM NoRootIsLost == PushSpec => []NoRootLost
<1>1. PushInv => NoRootLost
  BY DEF PushInv, JobInv, MadeInv, NoRootLost, Packed, Split, Shipped
<1>2. QED
  BY <1>1, PushInvariant, PTL

\* With what it carries, what upstream has and what the host has a bundle can be
\* imported, whatever was imported or collected while it was made (make_bundle).
THEOREM BundlesWillDo == PushSpec => []BundleWillDo
<1>1. PushInv => BundleWillDo
  <2> SUFFICES ASSUME PushInv, NEW j \in Packed
               PROVE  /\ made[j].roots \subseteq made[j].paths \cup stored \cup gone[j]
                      /\ Closure(made[j].roots) \subseteq
                            made[j].paths \cup Upstream \cup stored \cup gone[j]
    BY DEF BundleWillDo
  <2>1. j \in Jobs /\ at[j] \in Shipped
    BY DEF Packed, Shipped
  <2>2. QED
    BY <2>1 DEF PushInv, JobInv, MadeInv, Seen
<1>2. QED
  BY <1>1, PushInvariant, PTL

\* A push job that ends well has its own whole bundle in the queue, and the cache
\* has served each path of it (cache-receive.sh, push-bundle.sh).
THEOREM OkIsDelivered == PushSpec => []OkMeansDelivered
<1>1. PushInv => OkMeansDelivered
  BY DEF PushInv, JobInv, SentInv, Queued, Seen, OkMeansDelivered
<1>2. QED
  BY <1>1, PushInvariant, PTL

=============================================================================
