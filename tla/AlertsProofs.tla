----------------------------- MODULE AlertsProofs -----------------------------
(***************************************************************************)
(* Proofs about Alerts, for any notices, any number of alert files and any *)
(* number of passes, delivery runs, failures and kills.                    *)
(***************************************************************************)
EXTENDS Alerts, TLAPS, FiniteSetTheorems

\* What the lock's holder has in hand is written and not yet published, until it
\* has been renamed into the spool; who holds the lock says what it is about.
HandInv ==
    /\ holder \in {"nobody", "requeueing", "noticing"} => hand = {}
    /\ holder \in {"rejecting", "queueing"} => hand \subseteq In("staging")
    /\ holder = "marking" => \A f \in hand : where[f] \notin {"none", "staging"}
    /\ holder = "rejecting" => \A f \in hand : about[f] = Rejection
    /\ holder \in {"queueing", "marking"} => \A f \in hand : about[f] \in Keys

\* A delivery run has the alert at hand no more among those it will look at.
ItemInv ==
    /\ item \cap batch = {}
    /\ flush \in {"idle", "next"} => item = {}

AlertsTypes == AlertsTypeOK /\ HandInv /\ ItemInv /\ kills \in Nat

Places == {"none", "staging", "spool", "deferred", "delivered", "dropped"}

-----------------------------------------------------------------------------
(* Types *)

\* No alert or one alert is at most one.
LEMMA AtMostOne == Cardinality({}) <= 1 /\ \A f : Cardinality({f}) <= 1
  BY FS_EmptySet, FS_Singleton

\* Moving alerts changes the place of those and of no other.
LEMMA MovedPlaces ==
    ASSUME where \in [Files -> Places], NEW S, NEW p \in Places
    PROVE  /\ Moved(S, p) \in [Files -> Places]
           /\ \A f \in Files : Moved(S, p)[f] = IF f \in S THEN p ELSE where[f]
  BY DEF Moved

\* What a file that is staged leaves as it was.
LEMMA StageTypes ==
    ASSUME AlertsTypes, NEW k \in Keys \cup {Rejection}, Stage(k)
    PROVE  \E f \in Files :
            /\ where[f] = "none" /\ hand' = {f}
            /\ where' \in [Files -> Places] /\ about' \in [Files -> Keys \cup {Rejection}]
            /\ where'[f] = "staging" /\ about'[f] = k
            /\ \A g \in Files \ {f} : where'[g] = where[g] /\ about'[g] = about[g]
  BY MovedPlaces DEF AlertsTypes, AlertsTypeOK, Stage, In, Places

LEMMA AlertsTypesInit == AlertsInit => AlertsTypes
  BY AtMostOne DEF AlertsInit, AlertsTypes, AlertsTypeOK, HandInv, ItemInv, In

LEMMA QueueTypes ==
    ASSUME AlertsTypes, StageRejection \/ PublishRejection \/ PassNext \/ KillHolder
    PROVE  AlertsTypes'
<1> USE DEF AlertsTypes, AlertsTypeOK, HandInv, ItemInv, In, flushVars
<1> USE AtMostOne, AlertsAssumption
<1>1. CASE StageRejection
  <2>1. PICK f \in Files :
            /\ where[f] = "none" /\ hand' = {f}
            /\ where' \in [Files -> Places] /\ about' \in [Files -> Keys \cup {Rejection}]
            /\ where'[f] = "staging" /\ about'[f] = Rejection
            /\ \A g \in Files \ {f} : where'[g] = where[g] /\ about'[g] = about[g]
    BY <1>1, StageTypes DEF StageRejection
  <2>2. QED
    BY <1>1, <2>1 DEF StageRejection, Places
<1>2. CASE PublishRejection
  BY <1>2 DEF PublishRejection, Publish, Moved
<1>3. CASE StartPass
  BY <1>3 DEF StartPass
<1>4. CASE Requeue
  BY <1>4 DEF Requeue, Moved
<1>5. CASE FindDue
  BY <1>5 DEF FindDue
<1>6. CASE SkipNotice
  BY <1>6 DEF SkipNotice
<1>7. CASE StageNotice
  <2>1. PICK k \in due, f \in Files :
            /\ where[f] = "none" /\ hand' = {f}
            /\ where' \in [Files -> Places] /\ about' \in [Files -> Keys \cup {Rejection}]
            /\ where'[f] = "staging" /\ about'[f] = k
            /\ \A g \in Files \ {f} : where'[g] = where[g] /\ about'[g] = about[g]
    BY <1>7, StageTypes DEF StageNotice
  <2>2. QED
    BY <1>7, <2>1 DEF StageNotice, Places
<1>8. CASE PublishNotice
  BY <1>8 DEF PublishNotice, Publish, Moved
<1>9. CASE MarkNotice
  BY <1>9 DEF MarkNotice
<1>10. CASE CommitNotices
  BY <1>10 DEF CommitNotices
<1>11. CASE KillHolder
  BY <1>11 DEF KillHolder
<1>12. QED
  BY <1>1, <1>2, <1>3, <1>4, <1>5, <1>6, <1>7, <1>8, <1>9, <1>10, <1>11 DEF PassNext

LEMMA FlushTypes ==
    ASSUME AlertsTypes, FlushNext \/ KillFlush
    PROVE  AlertsTypes'
<1> USE DEF AlertsTypes, AlertsTypeOK, HandInv, ItemInv, In, queueVars
<1> USE AtMostOne
<1>1. CASE StartFlush
  BY <1>1 DEF StartFlush
<1>2. CASE TakeAlert
  BY <1>2 DEF TakeAlert
<1>3. CASE DropAlert
  BY <1>3 DEF DropAlert, Moved
<1>4. CASE Send
  BY <1>4 DEF Send
<1>5. CASE Settle
  BY <1>5 DEF Settle, Moved
<1>6. CASE FlushDone
  BY <1>6 DEF FlushDone
<1>7. CASE KillFlush
  BY <1>7 DEF KillFlush
<1>8. QED
  BY <1>1, <1>2, <1>3, <1>4, <1>5, <1>6, <1>7 DEF FlushNext

LEMMA AlertsTypesNext == AlertsTypes /\ [AlertsNext]_alertVars => AlertsTypes'
<1> SUFFICES ASSUME AlertsTypes, [AlertsNext]_alertVars PROVE AlertsTypes'
  OBVIOUS
<1>1. CASE UNCHANGED alertVars
  BY <1>1 DEF alertVars, queueVars, flushVars, AlertsTypes, AlertsTypeOK, HandInv, ItemInv, In
<1>2. QED
  BY <1>1, QueueTypes, FlushTypes DEF AlertsNext

LEMMA AlertsTyping == AlertsSpec => []AlertsTypes
  BY AlertsTypesInit, AlertsTypesNext, PTL DEF AlertsSpec

\* The spool holds what it should whatever fails or is killed: what a delivery run
\* has listed is there until that run moves it, and what a pass has listed as
\* deferred until that pass does (alert.flush, alert.requeue).
THEOREM AlertsTyped == AlertsSpec => []AlertsTypeOK
<1>1. AlertsTypes => AlertsTypeOK
  BY DEF AlertsTypes
<1>2. QED
  BY <1>1, AlertsTyping, PTL

-----------------------------------------------------------------------------
(* What happens to an alert that is written *)

Published(f) == where[f] \notin {"none", "staging"}

\* What is written stays written, what is published published, each about the same.
LEMMA OnlyOnwards ==
    ASSUME AlertsTypes, [AlertsNext]_alertVars, NEW f \in Files
    PROVE  /\ where[f] # "none" => where'[f] # "none" /\ about'[f] = about[f]
           /\ Published(f) => Published(f)'
<1> USE DEF AlertsTypes, AlertsTypeOK, HandInv, ItemInv, In, queueVars, flushVars, Published
<1>1. CASE StageRejection \/ StageNotice
  <2>1. PICK k \in Keys \cup {Rejection} : Stage(k)
    BY <1>1 DEF StageRejection, StageNotice
  <2>2. QED
    BY <2>1, StageTypes
<1>2. CASE PublishRejection \/ PublishNotice
  BY <1>2 DEF PublishRejection, PublishNotice, Publish, Moved
<1>3. CASE Requeue
  BY <1>3 DEF Requeue, Moved
<1>4. CASE DropAlert
  BY <1>4 DEF DropAlert, Moved
<1>5. CASE Settle
  BY <1>5 DEF Settle, Moved
<1>6. CASE UNCHANGED <<where, about>>
  BY <1>6
<1>7. QED
  BY <1>1, <1>2, <1>3, <1>4, <1>5, <1>6
  DEF AlertsNext, PassNext, FlushNext, StartPass, FindDue, SkipNotice, MarkNotice,
      CommitNotices, KillHolder, StartFlush, TakeAlert, Send, FlushDone, KillFlush, alertVars

-----------------------------------------------------------------------------
(* Seen means queued *)

\* The open transaction is a promise too: a notice is marked once it is published.
MarkedInv == \A k \in seen \cup marked : \E f \in Files : about[f] = k /\ Published(f)

\* What a step adds to the table or the transaction, it has in hand.
LEMMA MarksHand ==
    ASSUME AlertsTypes, [AlertsNext]_alertVars
    PROVE  seen' \cup marked' \subseteq
                seen \cup marked \cup (IF holder = "marking" THEN {about[f] : f \in hand} ELSE {})
  BY DEF AlertsNext, PassNext, FlushNext, StageRejection, PublishRejection, StartPass, Requeue,
         FindDue, SkipNotice, StageNotice, PublishNotice, MarkNotice, CommitNotices, KillHolder,
         StartFlush, TakeAlert, DropAlert, Send, Settle, FlushDone, KillFlush, alertVars, queueVars

\* A notice the table has was queued: a kill between queue_alert and the commit of
\* emit_notices repeats an alert and never loses one.
THEOREM SeenQueued == AlertsSpec => []SeenMeansQueued
<1>1. AlertsInit => MarkedInv
  BY DEF AlertsInit, MarkedInv
<1>2. MarkedInv /\ AlertsTypes /\ [AlertsNext]_alertVars => MarkedInv'
  <2> SUFFICES ASSUME MarkedInv, AlertsTypes, [AlertsNext]_alertVars, NEW k \in seen' \cup marked'
               PROVE  \E f \in Files : about'[f] = k /\ Published(f)'
    BY DEF MarkedInv
  <2>1. \E f \in Files : about[f] = k /\ Published(f)
    <3>1. CASE k \in seen \cup marked
      BY <3>1 DEF MarkedInv
    <3>2. CASE k \notin seen \cup marked
      <4>1. holder = "marking" /\ \E f \in hand : about[f] = k
        BY <3>2, MarksHand
      <4>2. QED
        BY <4>1 DEF AlertsTypes, AlertsTypeOK, HandInv, Published
    <3>3. QED
      BY <3>1, <3>2
  <2>2. QED
    BY <2>1, OnlyOnwards DEF Published
<1>3. MarkedInv => SeenMeansQueued
  BY DEF MarkedInv, SeenMeansQueued, Published
<1>4. QED
  BY <1>1, <1>2, <1>3, AlertsTyping, PTL DEF AlertsSpec

-----------------------------------------------------------------------------
(* Noticed once *)

Written(k) == {f \in Files : about[f] = k /\ where[f] # "none"}

\* The notices whose alert the pass, or one before it, has begun to queue.
Taken == seen \cup marked \cup {about[f] : f \in hand}

\* Of a notice not taken there are as many alerts as there were kills, at most.
NoticeInv ==
    \A k \in Keys :
        /\ IsFiniteSet(Written(k))
        /\ Cardinality(Written(k)) <= IF k \in Taken THEN kills + 1 ELSE kills

LEMMA NoticeStaged ==
    ASSUME AlertsTypes, NoticeInv, StageRejection \/ StageNotice
    PROVE  NoticeInv'
<1>1. PICK n \in (Keys \cup {Rejection}) \ (seen \cup marked) :
            Stage(n) /\ UNCHANGED <<seen, marked, kills>> /\ hand = {}
  BY AlertsAssumption
  DEF StageRejection, StageNotice, AlertsTypes, AlertsTypeOK, HandInv, flushVars
<1>2. PICK f \in Files :
            /\ where[f] = "none" /\ hand' = {f}
            /\ where'[f] = "staging" /\ about'[f] = n
            /\ \A g \in Files \ {f} : where'[g] = where[g] /\ about'[g] = about[g]
  BY <1>1, StageTypes
<1>3. Taken' = Taken \cup {n} /\ n \notin Taken
  BY <1>1, <1>2 DEF Taken
<1>4. ASSUME NEW k \in Keys
      PROVE  /\ IsFiniteSet(Written(k)')
             /\ Cardinality(Written(k)') <= IF k \in Taken' THEN kills' + 1 ELSE kills'
  <2>1. CASE k = n
    <3>1. Written(k)' = Written(k) \cup {f} /\ f \notin Written(k)
      BY <1>2, <2>1 DEF Written
    <3>2. /\ IsFiniteSet(Written(k)) /\ Cardinality(Written(k)) <= kills
      BY <1>3, <2>1 DEF NoticeInv
    <3>3. /\ IsFiniteSet(Written(k)') /\ Cardinality(Written(k)) \in Nat
          /\ Cardinality(Written(k)') = Cardinality(Written(k)) + 1
      BY <3>1, <3>2, FS_AddElement, FS_CardinalityType
    <3>4. QED
      BY <1>1, <1>3, <2>1, <3>2, <3>3 DEF AlertsTypes
  <2>2. CASE k # n
    <3>1. Written(k)' = Written(k)
      BY <1>2, <2>2 DEF Written
    <3>2. QED
      BY <1>1, <1>3, <2>2, <3>1 DEF NoticeInv
  <2>3. QED
    BY <2>1, <2>2
<1>5. QED
  BY <1>4 DEF NoticeInv

\* No other step writes an alert, and only a kill forgets that one was begun.
LEMMA NoticeOthers ==
    ASSUME AlertsTypes, NoticeInv, [AlertsNext]_alertVars, ~ StageRejection, ~ StageNotice
    PROVE  NoticeInv'
<1>1. \A f \in Files : about'[f] = about[f] /\ (where'[f] = "none" <=> where[f] = "none")
  <2>1. UNCHANGED about
    BY DEF AlertsNext, PassNext, FlushNext, PublishRejection, StartPass, Requeue, FindDue,
           SkipNotice, PublishNotice, MarkNotice, CommitNotices, KillHolder, StartFlush,
           TakeAlert, DropAlert, Send, Settle, FlushDone, KillFlush, alertVars
  <2>2. ASSUME NEW f \in Files, where[f] = "none" PROVE where'[f] = "none"
    <3> USE DEF AlertsTypes, AlertsTypeOK, HandInv, ItemInv, In
    <3>1. f \notin left /\ f \notin batch /\ f \notin item
      BY <2>2
    <3>2. holder \in {"rejecting", "queueing"} => f \notin hand
      BY <2>2
    <3>3. QED
      BY <2>2, <3>1, <3>2 DEF AlertsNext, PassNext, FlushNext, PublishRejection, StartPass,
         Requeue, FindDue, SkipNotice, PublishNotice, MarkNotice, CommitNotices, KillHolder,
         StartFlush, TakeAlert, DropAlert, Send, Settle, FlushDone, KillFlush, alertVars,
         Publish, Moved
  <2>3. QED
    BY <2>1, <2>2, OnlyOnwards
<1>2. \A k : Written(k)' = Written(k)
  BY <1>1 DEF Written
<1>3. CASE KillHolder \/ KillFlush
  <2>1. kills' = kills + 1
    BY <1>3 DEF KillHolder, KillFlush
  <2>2. ASSUME NEW k \in Keys
        PROVE  /\ IsFiniteSet(Written(k))
               /\ Cardinality(Written(k)) <= IF k \in Taken' THEN kills' + 1 ELSE kills'
    <3>1. /\ IsFiniteSet(Written(k)) /\ Cardinality(Written(k)) \in Nat
          /\ Cardinality(Written(k)) <= kills + 1
      BY FS_CardinalityType DEF NoticeInv, AlertsTypes
    <3>2. QED
      BY <2>1, <3>1
  <2>3. QED
    BY <1>2, <2>2 DEF NoticeInv
<1>4. CASE ~ (KillHolder \/ KillFlush)
  <2>1. kills' = kills
    BY <1>4
    DEF AlertsNext, PassNext, FlushNext, PublishRejection, StartPass, Requeue, FindDue,
        SkipNotice, PublishNotice, MarkNotice, CommitNotices, StartFlush, TakeAlert, DropAlert,
        Send, Settle, FlushDone, alertVars
  <2>2. Taken' \cap Keys = Taken \cap Keys
    <3>1. CASE PublishRejection
      BY <3>1, AlertsAssumption
      DEF PublishRejection, Taken, AlertsTypes, HandInv
    <3>2. CASE MarkNotice \/ CommitNotices
      BY <3>2 DEF MarkNotice, CommitNotices, Taken, AlertsTypes, HandInv
    <3>3. CASE UNCHANGED <<seen, marked, hand, about>>
      BY <3>3 DEF Taken
    <3>4. QED
      BY <1>4, <3>1, <3>2, <3>3
      DEF AlertsNext, PassNext, FlushNext, StartPass, Requeue, FindDue, SkipNotice,
          PublishNotice, StartFlush, TakeAlert, DropAlert, Send, Settle, FlushDone, alertVars,
          queueVars
  <2>3. \A k \in Keys : k \in Taken' <=> k \in Taken
    BY <2>2
  <2>4. QED
    BY <1>2, <2>1, <2>3 DEF NoticeInv
<1>5. QED
  BY <1>3, <1>4

\* However many passes find a notice due, they queue it once and once more for each
\* kill (pruner._once): a pass that ends without a kill leaves no second alert.
THEOREM NoticedAtMostOnce == AlertsSpec => []NoticedOnce
<1>1. AlertsInit => NoticeInv
  <2> SUFFICES ASSUME AlertsInit PROVE NoticeInv
    OBVIOUS
  <2>1. \A k : Written(k) = {}
    BY DEF AlertsInit, Written
  <2>2. QED
    BY <2>1, FS_EmptySet DEF AlertsInit, NoticeInv, Taken
<1>2. NoticeInv /\ AlertsTypes /\ [AlertsNext]_alertVars => NoticeInv'
  BY NoticeStaged, NoticeOthers
<1>3. NoticeInv /\ AlertsTypes => NoticedOnce
  <2> SUFFICES ASSUME NoticeInv, AlertsTypes, NEW k \in Keys
               PROVE  Cardinality(Written(k)) <= 1 + kills
    BY DEF NoticedOnce, Written
  <2>1. /\ IsFiniteSet(Written(k))
        /\ Cardinality(Written(k)) <= IF k \in Taken THEN kills + 1 ELSE kills
    BY DEF NoticeInv
  <2>2. QED
    BY <2>1, FS_CardinalityType DEF AlertsTypes
<1>4. QED
  BY <1>1, <1>2, <1>3, AlertsTyping, PTL DEF AlertsSpec

-----------------------------------------------------------------------------
(* Tried once per pass *)

\* An alert that waits for its next try: not settled, and not tried in this run.
Untried(f) ==
    where[f] \in {"none", "staging", "spool"} /\ ~ (f \in item /\ flush \in {"sent", "failed"})

\* Each try was paid for, by a pass that put the alert back or by a kill.
TriedInv ==
    \A f \in Files :
        sent[f] <= IF Untried(f) THEN requeued[f] + kills ELSE requeued[f] + kills + 1

LEMMA TriedStep ==
    ASSUME AlertsTypes, TriedInv, [AlertsNext]_alertVars
    PROVE  TriedInv'
<1> SUFFICES ASSUME NEW f \in Files
             PROVE  sent'[f] <= IF Untried(f)' THEN requeued'[f] + kills'
                                               ELSE requeued'[f] + kills' + 1
  BY DEF TriedInv
<1> USE DEF AlertsTypes, AlertsTypeOK, HandInv, ItemInv, In
<1>1. /\ sent[f] \in Nat /\ requeued[f] \in Nat /\ kills \in Nat
      /\ sent[f] <= IF Untried(f) THEN requeued[f] + kills ELSE requeued[f] + kills + 1
  BY DEF TriedInv
<1>2. CASE KillHolder \/ KillFlush
  <2>1. kills' = kills + 1 /\ sent' = sent /\ requeued' = requeued
    BY <1>2 DEF KillHolder, KillFlush, flushVars, queueVars
  <2>2. QED
    BY <1>1, <2>1
<1>3. CASE Send /\ f \in item
  <2>1. /\ sent'[f] = sent[f] + 1 /\ requeued' = requeued /\ kills' = kills
        /\ ~ Untried(f)' /\ Untried(f)
    BY <1>3 DEF Send, Untried
  <2>2. QED
    BY <1>1, <2>1
<1>4. CASE Requeue
  <2>1. PICK g \in left : /\ where' = Moved({g}, "spool")
                          /\ requeued' = [requeued EXCEPT ![g] = @ + 1]
    BY <1>4 DEF Requeue
  <2>2. sent' = sent /\ kills' = kills /\ UNCHANGED <<item, flush>>
    BY <1>4 DEF Requeue, flushVars
  <2>3. CASE f = g
    <3>1. requeued'[f] = requeued[f] + 1
      BY <2>1, <2>3
    <3>2. QED
      BY <1>1, <2>2, <3>1
  <2>4. CASE f # g
    <3>1. requeued'[f] = requeued[f] /\ where'[f] = where[f]
      BY <2>1, <2>4 DEF Moved
    <3>2. Untried(f)' = Untried(f)
      BY <2>2, <3>1 DEF Untried
    <3>3. QED
      BY <1>1, <2>2, <3>1, <3>2
  <2>5. QED
    BY <2>3, <2>4
<1>5. CASE [AlertsNext]_alertVars /\ ~ (KillHolder \/ KillFlush \/ Requeue \/ (Send /\ f \in item))
  <2>1. sent'[f] = sent[f] /\ requeued' = requeued /\ kills' = kills
    BY <1>5
    DEF AlertsNext, PassNext, FlushNext, StageRejection, PublishRejection, StartPass, FindDue,
        SkipNotice, StageNotice, PublishNotice, MarkNotice, CommitNotices, StartFlush, TakeAlert,
        DropAlert, Send, Settle, FlushDone, alertVars, flushVars
  <2>2. Untried(f)' => Untried(f)
    <3>1. CASE StageRejection \/ StageNotice
      <4>1. PICK k \in Keys \cup {Rejection} : Stage(k)
        BY <3>1 DEF StageRejection, StageNotice
      <4>2. UNCHANGED <<item, flush>>
        BY <3>1 DEF StageRejection, StageNotice, flushVars
      <4>3. QED
        BY <4>1, <4>2, StageTypes DEF Untried
    <3>2. CASE PublishRejection \/ PublishNotice
      BY <3>2 DEF PublishRejection, PublishNotice, Publish, Moved, Untried, flushVars
    <3>3. CASE DropAlert
      BY <3>3 DEF DropAlert, Moved, Untried
    <3>4. CASE Settle
      BY <3>4 DEF Settle, Moved, Untried
    <3>5. CASE TakeAlert
      BY <3>5 DEF TakeAlert, Untried
    <3>6. CASE Send /\ f \notin item
      BY <3>6 DEF Send, Untried
    <3>7. CASE StartFlush \/ FlushDone
      BY <3>7 DEF StartFlush, FlushDone, Untried
    <3>8. CASE UNCHANGED <<where, item, flush>>
      BY <3>8 DEF Untried
    <3>9. QED
      BY <1>5, <3>1, <3>2, <3>3, <3>4, <3>5, <3>6, <3>7, <3>8
      DEF AlertsNext, PassNext, FlushNext, StartPass, FindDue, SkipNotice, MarkNotice,
          CommitNotices, alertVars, flushVars
  <2>3. QED
    BY <1>1, <2>1, <2>2
<1>6. QED
  BY <1>2, <1>3, <1>4, <1>5

\* While the command fails an alert waits for the next pass: it is not tried again
\* in a loop (alert.flush moves it out of the spool).
THEOREM TriedAtMostOnce == AlertsSpec => []TriedOncePerPass
<1>1. AlertsInit => TriedInv
  BY DEF AlertsInit, TriedInv, Untried
<1>2. TriedInv /\ AlertsTypes /\ [AlertsNext]_alertVars => TriedInv'
  BY TriedStep
<1>3. TriedInv /\ AlertsTypes => TriedOncePerPass
  <2> SUFFICES ASSUME TriedInv, AlertsTypes, NEW f \in Files
               PROVE  sent[f] <= 1 + requeued[f] + kills
    BY DEF TriedOncePerPass
  <2>1. /\ sent[f] \in Nat /\ requeued[f] \in Nat /\ kills \in Nat
        /\ sent[f] <= IF Untried(f) THEN requeued[f] + kills ELSE requeued[f] + kills + 1
    BY DEF TriedInv, AlertsTypes, AlertsTypeOK
  <2>2. QED
    BY <2>1
<1>4. QED
  BY <1>1, <1>2, <1>3, AlertsTyping, PTL DEF AlertsSpec

=============================================================================
