-------------------------------- MODULE Alerts --------------------------------
(***************************************************************************)
(* The alert spool (alert.py) between those who queue and the one who      *)
(* delivers.  A pruner pass puts deferred alerts back and queues each      *)
(* notice once (pruner._once, emit_notices); the importer queues one per   *)
(* rejected bundle; both under the shared lock.  nix-cache-alert delivers  *)
(* what is in the spool, without the lock, whenever there is something.    *)
(***************************************************************************)
EXTENDS Naturals, FiniteSets

CONSTANTS
    Keys,           \* notices a pass may find due
    Rejection,      \* what an importer's alert is about
    Files,          \* numbers for alert files
    MaxRejects, MaxKills, MaxFailures, MaxUnreadable    \* bounds

ASSUME AlertsAssumption ==
    /\ Rejection \notin Keys
    /\ Files \subseteq Nat
    /\ MaxRejects \in Nat /\ MaxKills \in Nat
    /\ MaxFailures \in Nat /\ MaxUnreadable \in Nat

VARIABLES
    where,      \* a file's place; "none": not written yet
    about,      \* what it is about
    seen,       \* the notices table, as committed
    marked,     \* marked in the pass's open transaction
    due,        \* notices the pass has found due and not looked at
    left,       \* deferred alerts the pass has listed and not put back
    hand,       \* files being queued: none or one
    holder,     \* what the lock's holder is doing
    batch,      \* the alerts a delivery run has listed and not looked at
    item,       \* the alert at hand: none or one
    flush,      \* where the delivery run is
    sent,       \* how often the command was run for a file
    requeued,   \* how often a file was put back
    rejects, kills, failures, unreadable

queueVars == <<seen, marked, due, left, hand, holder, rejects>>
flushVars == <<batch, item, flush, sent, failures, unreadable>>
alertVars == <<where, about, requeued, queueVars, flushVars, kills>>

In(place) == {f \in Files : where[f] = place}
Moved(S, place) == [f \in Files |-> IF f \in S THEN place ELSE where[f]]

-----------------------------------------------------------------------------
(* queue_alert: write to staging, then rename into the spool *)

\* Names are unique: the next number not used.
Stage(k) ==
    /\ \E f \in In("none") :
        /\ \A g \in In("none") : f <= g
        /\ where' = Moved({f}, "staging")
        /\ about' = [about EXCEPT ![f] = k]
        /\ hand' = {f}

Publish == where' = Moved(hand, "spool")

\* An importer under the lock rejects a bundle.
StageRejection ==
    /\ holder = "nobody"
    /\ rejects < MaxRejects
    /\ rejects' = rejects + 1
    /\ Stage(Rejection)
    /\ holder' = "rejecting"
    /\ UNCHANGED <<requeued, seen, marked, due, left, flushVars, kills>>

PublishRejection ==
    /\ holder = "rejecting"
    /\ Publish
    /\ hand' = {} /\ holder' = "nobody"
    /\ UNCHANGED <<about, requeued, seen, marked, due, left, rejects, flushVars, kills>>

-----------------------------------------------------------------------------
(* The pruner's pass: requeue, then emit_notices *)

StartPass ==
    /\ holder = "nobody"
    /\ left' = In("deferred")
    /\ holder' = "requeueing"
    /\ UNCHANGED <<where, about, requeued, seen, marked, due, hand, rejects, flushVars, kills>>

\* Mutant of Requeue: passes over what it lists.
RequeueNothing ==
    /\ holder = "requeueing"
    /\ \E f \in left : left' = left \ {f}
    /\ UNCHANGED <<where, about, requeued, seen, marked, due, hand, holder, rejects,
                   flushVars, kills>>

Requeue ==
    /\ holder = "requeueing"
    /\ \E f \in left :
        /\ where' = Moved({f}, "spool")
        /\ requeued' = [requeued EXCEPT ![f] = @ + 1]
        /\ left' = left \ {f}
    /\ UNCHANGED <<about, seen, marked, due, hand, holder, rejects, flushVars, kills>>

\* The plan, the disk, the keys' expiry and the token users say what is due.
FindDue ==
    /\ holder = "requeueing" /\ left = {}
    /\ due' \in SUBSET Keys
    /\ holder' = "noticing"
    /\ UNCHANGED <<where, about, requeued, seen, marked, left, hand, rejects, flushVars, kills>>

\* _once: not again what the table has.
SkipNotice ==
    /\ holder = "noticing"
    /\ \E k \in due : k \in seen \cup marked /\ due' = due \ {k}
    /\ UNCHANGED <<where, about, requeued, seen, marked, left, hand, holder, rejects,
                   flushVars, kills>>

\* Mutant of StageNotice: marks and commits first.
MarkFirst ==
    /\ holder = "noticing"
    /\ \E k \in due \ (seen \cup marked) : Stage(k) /\ seen' = seen \cup {k}
    /\ holder' = "queueing"
    /\ UNCHANGED <<requeued, marked, due, left, rejects, flushVars, kills>>

StageNotice ==
    /\ holder = "noticing"
    /\ \E k \in due \ (seen \cup marked) : Stage(k)
    /\ holder' = "queueing"
    /\ UNCHANGED <<requeued, seen, marked, due, left, rejects, flushVars, kills>>

PublishNotice ==
    /\ holder = "queueing"
    /\ Publish
    /\ holder' = "marking"
    /\ UNCHANGED <<about, requeued, seen, marked, due, left, hand, rejects, flushVars, kills>>

MarkNotice ==
    /\ holder = "marking"
    /\ marked' = marked \cup {about[f] : f \in hand}
    /\ due' = due \ {about[f] : f \in hand}
    /\ hand' = {} /\ holder' = "noticing"
    /\ UNCHANGED <<where, about, requeued, seen, left, rejects, flushVars, kills>>

\* Mutant of CommitNotices: closes the connection without a commit.
CloseNotices ==
    /\ holder = "noticing" /\ due = {}
    /\ marked' = {} /\ holder' = "nobody"
    /\ UNCHANGED <<where, about, requeued, seen, due, left, hand, rejects, flushVars, kills>>

\* One commit for all of them, at the end of emit_notices.
CommitNotices ==
    /\ holder = "noticing" /\ due = {}
    /\ seen' = seen \cup marked
    /\ marked' = {} /\ holder' = "nobody"
    /\ UNCHANGED <<where, about, requeued, due, left, hand, rejects, flushVars, kills>>

\* A kill rolls the transaction back; a staged file stays where it is for good.
KillHolder ==
    /\ holder # "nobody"
    /\ kills < MaxKills
    /\ marked' = {} /\ due' = {} /\ left' = {} /\ hand' = {}
    /\ holder' = "nobody"
    /\ kills' = kills + 1
    /\ UNCHANGED <<where, about, requeued, seen, rejects, flushVars>>

-----------------------------------------------------------------------------
(* nix-cache-alert: flush *)

\* Mutant of StartFlush: lists the deferred alerts too.
StartFlushAll ==
    /\ flush = "idle"
    /\ In("spool") # {}
    /\ batch' = In("spool") \cup In("deferred")
    /\ flush' = "next"
    /\ UNCHANGED <<where, about, requeued, queueVars, item, sent, failures, unreadable, kills>>

\* Started by the path unit while the spool holds an alert.
StartFlush ==
    /\ flush = "idle"
    /\ In("spool") # {}
    /\ batch' = In("spool")
    /\ flush' = "next"
    /\ UNCHANGED <<where, about, requeued, queueVars, item, sent, failures, unreadable, kills>>

TakeAlert ==
    /\ flush = "next"
    /\ \E f \in batch : item' = {f} /\ batch' = batch \ {f}
    /\ flush' = "send"
    /\ UNCHANGED <<where, about, requeued, queueVars, sent, failures, unreadable, kills>>

\* An alert that cannot be read or parsed is removed.
DropAlert ==
    /\ flush = "next"
    /\ unreadable < MaxUnreadable
    /\ \E f \in batch : where' = Moved({f}, "dropped") /\ batch' = batch \ {f}
    /\ unreadable' = unreadable + 1
    /\ UNCHANGED <<about, requeued, queueVars, item, flush, sent, failures, kills>>

\* The command runs, and says whether it delivered.
Send ==
    /\ flush = "send"
    /\ sent' = [f \in Files |-> IF f \in item THEN sent[f] + 1 ELSE sent[f]]
    /\ \/ flush' = "sent" /\ UNCHANGED failures
       \/ failures < MaxFailures /\ failures' = failures + 1 /\ flush' = "failed"
    /\ UNCHANGED <<where, about, requeued, queueVars, batch, item, unreadable, kills>>

\* Mutant of Settle: a failed alert stays in the spool.
SettleSent ==
    /\ flush \in {"sent", "failed"}
    /\ where' = IF flush = "sent" THEN Moved(item, "delivered") ELSE where
    /\ item' = {} /\ flush' = "next"
    /\ UNCHANGED <<about, requeued, queueVars, batch, sent, failures, unreadable, kills>>

Settle ==
    /\ flush \in {"sent", "failed"}
    /\ where' = Moved(item, IF flush = "sent" THEN "delivered" ELSE "deferred")
    /\ item' = {} /\ flush' = "next"
    /\ UNCHANGED <<about, requeued, queueVars, batch, sent, failures, unreadable, kills>>

FlushDone ==
    /\ flush = "next" /\ batch = {}
    /\ flush' = "idle"
    /\ UNCHANGED <<where, about, requeued, queueVars, batch, item, sent, failures, unreadable, kills>>

KillFlush ==
    /\ flush # "idle"
    /\ kills < MaxKills
    /\ batch' = {} /\ item' = {} /\ flush' = "idle"
    /\ kills' = kills + 1
    /\ UNCHANGED <<where, about, requeued, queueVars, sent, failures, unreadable>>

-----------------------------------------------------------------------------
AlertsInit ==
    /\ where = [f \in Files |-> "none"] /\ about = [f \in Files |-> Rejection]
    /\ seen = {} /\ marked = {} /\ due = {} /\ left = {} /\ hand = {}
    /\ holder = "nobody"
    /\ batch = {} /\ item = {} /\ flush = "idle"
    /\ sent = [f \in Files |-> 0] /\ requeued = [f \in Files |-> 0]
    /\ rejects = 0 /\ kills = 0 /\ failures = 0 /\ unreadable = 0

PassNext ==
    \/ StartPass \/ Requeue \/ FindDue \/ SkipNotice
    \/ StageNotice \/ PublishNotice \/ MarkNotice \/ CommitNotices

FlushNext == StartFlush \/ TakeAlert \/ DropAlert \/ Send \/ Settle \/ FlushDone

AlertsNext ==
    \/ StageRejection \/ PublishRejection \/ PassNext \/ FlushNext
    \/ KillHolder \/ KillFlush

\* The timer keeps starting passes and the path unit delivery runs; what was
\* started goes on until it ends or is killed.
AlertsSpec ==
    /\ AlertsInit /\ [][AlertsNext]_alertVars
    /\ WF_alertVars(PassNext) /\ WF_alertVars(PublishRejection) /\ WF_alertVars(FlushNext)

-----------------------------------------------------------------------------
AlertsTypeOK ==
    /\ where \in [Files -> {"none", "staging", "spool", "deferred", "delivered", "dropped"}]
    /\ about \in [Files -> Keys \cup {Rejection}]
    /\ seen \subseteq Keys /\ marked \subseteq Keys /\ due \subseteq Keys
    /\ left \subseteq In("deferred")
    /\ hand \subseteq Files /\ Cardinality(hand) <= 1
    /\ batch \subseteq In("spool")
    /\ item \subseteq In("spool") /\ Cardinality(item) <= 1
    /\ holder \in {"nobody", "rejecting", "requeueing", "noticing", "queueing", "marking"}
    /\ flush \in {"idle", "next", "send", "sent", "failed"}
    /\ sent \in [Files -> Nat] /\ requeued \in [Files -> Nat]

\* A notice the table calls seen has been in the spool: a pass that dies between
\* queue_alert and the commit repeats the alert rather than losing it.
SeenMeansQueued ==
    \A k \in seen : \E f \in Files : about[f] = k /\ where[f] \notin {"none", "staging"}

\* ... and nothing but a kill makes it repeat: passes find the same notice due
\* hour after hour, and alert once.
NoticedOnce ==
    \A k \in Keys : Cardinality({f \in Files : about[f] = k /\ where[f] # "none"}) <= 1 + kills

\* While the command fails, an alert is tried once per pass and not in a loop: it
\* waits outside the spool, where it does not start the path unit again.
TriedOncePerPass == \A f \in Files : sent[f] <= 1 + requeued[f] + kills

\* An alert in the spool is delivered in the end if the command recovers, unless
\* it cannot be read: a failed one comes back with a later pass.
AlertsSettle ==
    \A f \in Files : where[f] = "spool" ~> where[f] \in {"delivered", "dropped"}

=============================================================================
