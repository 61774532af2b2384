------------------------------ MODULE PushRetry ------------------------------
(***************************************************************************)
(* .github/actions/push-retry: bump jobs that run at the same time each    *)
(* rebase one commit onto the remote branch and push it, a limited number  *)
(* of times.  Every job writes files of its own, so a rebase never         *)
(* conflicts; what can go wrong is the race for the tip, the network, and  *)
(* an answer that is lost after the push went through.                     *)
(***************************************************************************)
EXTENDS Integers, Sequences

CONSTANTS
    Jobs,       \* bump workflows; a job also stands for its commit
    Other,      \* a commit of somebody else
    Attempts,   \* inputs.attempts
    MaxCommits, \* bound: commits on the branch
    MaxFaults   \* bound: network faults a job meets

ASSUME RetryAssumption ==
    /\ Other \notin Jobs
    /\ Attempts \in Nat \ {0} /\ MaxCommits \in Nat /\ MaxFaults \in Nat

VARIABLES
    remote,     \* the branch, as its commits in order
    at,         \* "build", "pull", "push", "done" or "failed"
    base,       \* how many commits of the branch a job is rebased onto
    tries,      \* attempts that failed
    faults,     \* history: those that failed for another reason than the race
    start       \* history: commits on the branch when it was checked out

retryVars == <<remote, at, base, tries, faults, start>>

Landed(j) == \E i \in DOMAIN remote : remote[i] = j

\* actions/checkout, the bump itself and its commit.
Commit(j) ==
    /\ at[j] = "build"
    /\ at' = [at EXCEPT ![j] = "pull"]
    /\ start' = [start EXCEPT ![j] = Len(remote)]
    /\ UNCHANGED <<remote, base, tries, faults>>

\* Mutant of Pull: the fetch is skipped once there is something to rebase onto.
PullOnce(j) ==
    /\ at[j] = "pull"
    /\ at' = [at EXCEPT ![j] = "push"]
    /\ base' = [base EXCEPT ![j] = IF tries[j] = 0 THEN Len(remote) ELSE @]
    /\ UNCHANGED <<remote, tries, faults, start>>

\* git pull --rebase: the commit now sits on the remote's tip, or is found there.
Pull(j) ==
    /\ at[j] = "pull"
    /\ at' = [at EXCEPT ![j] = "push"]
    /\ base' = [base EXCEPT ![j] = Len(remote)]
    /\ UNCHANGED <<remote, tries, faults, start>>

\* The attempt failed; the next one starts over, unless it was the last.
Again(j) ==
    /\ tries' = [tries EXCEPT ![j] = @ + 1]
    /\ at' = [at EXCEPT ![j] = IF tries[j] + 1 < Attempts THEN "pull" ELSE "failed"]
    /\ UNCHANGED <<base, start>>

Fault(j) ==
    /\ faults[j] < MaxFaults
    /\ faults' = [faults EXCEPT ![j] = @ + 1]
    /\ Again(j)

\* The branch once j's push went through; a commit that is there stays one.
Pushed(j) == IF Landed(j) THEN remote ELSE Append(remote, j)
Room == Len(remote) < MaxCommits

\* Mutant of Push: git push --force.
PushByForce(j) ==
    /\ at[j] = "push" /\ Room
    /\ remote' = Append(SubSeq(remote, 1, base[j]), j)
    /\ at' = [at EXCEPT ![j] = "done"]
    /\ UNCHANGED <<base, tries, faults, start>>

Push(j) ==
    /\ at[j] = "push" /\ base[j] = Len(remote) /\ Room
    /\ remote' = Pushed(j)
    /\ at' = [at EXCEPT ![j] = "done"]
    /\ UNCHANGED <<base, tries, faults, start>>

\* Not a fast-forward: somebody was faster.
Rejected(j) ==
    /\ at[j] = "push" /\ base[j] # Len(remote)
    /\ Again(j)
    /\ UNCHANGED <<remote, faults>>

\* No connection, before or during the push.
Unreached(j) ==
    /\ at[j] \in {"pull", "push"}
    /\ Fault(j)
    /\ UNCHANGED remote

\* The push went through and git does not know.
Unheard(j) ==
    /\ at[j] = "push" /\ base[j] = Len(remote) /\ Room
    /\ remote' = Pushed(j)
    /\ Fault(j)

SomebodyPushes ==
    /\ Room
    /\ remote' = Append(remote, Other)
    /\ UNCHANGED <<at, base, tries, faults, start>>

RetryInit ==
    /\ remote = <<>>
    /\ at = [j \in Jobs |-> "build"]
    /\ base = [j \in Jobs |-> 0] /\ start = [j \in Jobs |-> 0]
    /\ tries = [j \in Jobs |-> 0] /\ faults = [j \in Jobs |-> 0]

RetryNext ==
    \/ \E j \in Jobs :
        \/ Commit(j) \/ Pull(j) \/ Push(j)
        \/ Rejected(j) \/ Unreached(j) \/ Unheard(j)
    \/ SomebodyPushes

RetrySpec == RetryInit /\ [][RetryNext]_retryVars

-----------------------------------------------------------------------------
(* Properties *)

RetryTypeOK ==
    /\ remote \in Seq(Jobs \cup {Other})
    /\ at \in [Jobs -> {"build", "pull", "push", "done", "failed"}]
    /\ base \in [Jobs -> Nat] /\ tries \in [Jobs -> Nat]
    /\ faults \in [Jobs -> Nat] /\ start \in [Jobs -> Nat]

\* Commits of others that reached the branch since j was checked out.
Own(j) == IF Landed(j) THEN 1 ELSE 0
Rivals(j) == Len(remote) - start[j] - Own(j)

\* A job gives up only after so many others won the race, or the network failed,
\* as it had attempts: each lost round costs one commit of somebody else, so with
\* fewer than Attempts of them nobody fails, whatever the order (push-retry).
FailsForCause ==
    \A j \in Jobs : at[j] = "failed" => Attempts <= Rivals(j) + faults[j]

\* A job that reports success has its commit on the branch, and once: nobody
\* pushes over it later, and a push whose answer was lost is not made twice.
LandedOnce ==
    /\ \A j \in Jobs : at[j] = "done" => Landed(j)
    /\ \A i, k \in DOMAIN remote : remote[i] = remote[k] /\ remote[i] \in Jobs => i = k

=============================================================================
