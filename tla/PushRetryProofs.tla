--------------------------- MODULE PushRetryProofs ---------------------------
(***************************************************************************)
(* Proofs about PushRetry, for any number of jobs, attempts and faults.    *)
(***************************************************************************)
EXTENDS PushRetry, TLAPS

Commits == Jobs \cup {Other}

\* What a job has lost so far, others have landed or the network has spoilt.
\* While it holds a fetched branch, only what that branch has counts.
Paid ==
    \A j \in Jobs :
        /\ start[j] + Own(j) <= Len(remote)
        /\ at[j] = "build" => tries[j] = 0 /\ Own(j) = 0
        /\ at[j] = "pull" => tries[j] + start[j] + Own(j) <= Len(remote) + faults[j]
        /\ at[j] = "push" =>
            /\ base[j] <= Len(remote)
            /\ tries[j] + start[j] + Own(j) <= base[j] + faults[j]
        /\ at[j] = "failed" => Attempts + start[j] + Own(j) <= Len(remote) + faults[j]

RetryInv == RetryTypeOK /\ Paid /\ LandedOnce

-----------------------------------------------------------------------------
(* What a push does to the branch *)

\* Appending a commit adds that commit and nothing else, at the end.
LEMMA AppendCommit ==
    ASSUME NEW s \in Seq(Commits), NEW c \in Commits
    PROVE  /\ Append(s, c) \in Seq(Commits)
           /\ Len(Append(s, c)) = Len(s) + 1
           /\ DOMAIN Append(s, c) = DOMAIN s \cup {Len(s) + 1}
           /\ \A i \in DOMAIN s : Append(s, c)[i] = s[i]
           /\ Append(s, c)[Len(s) + 1] = c
           /\ Len(s) \in Nat
           /\ Len(s) + 1 \notin DOMAIN s
  OBVIOUS

\* So whoever is on the branch afterwards was there before or has just pushed.
LEMMA LandedAfter ==
    ASSUME RetryTypeOK, NEW c \in Commits, remote' = Append(remote, c)
    PROVE  /\ \A k \in Jobs : Landed(k)' <=> Landed(k) \/ c = k
           /\ Len(remote') = Len(remote) + 1
           /\ remote' \in Seq(Commits)
  <1>1. remote \in Seq(Commits)
    BY DEF RetryTypeOK, Commits
  <1>2. ASSUME NEW k \in Jobs
        PROVE  Landed(k)' <=> Landed(k) \/ c = k
    BY <1>1, AppendCommit DEF Landed
  <1> QED
    BY <1>1, <1>2, AppendCommit

\* A commit that is new, or of somebody else, leaves every job's commit single.
LEMMA StaysSingle ==
    ASSUME RetryTypeOK, LandedOnce, NEW c \in Commits,
           c \in Jobs => ~ Landed(c), remote' = Append(remote, c)
    PROVE  \A i, k \in DOMAIN remote' :
                remote'[i] = remote'[k] /\ remote'[i] \in Jobs => i = k
  <1>1. remote \in Seq(Commits)
    BY DEF RetryTypeOK, Commits
  <1> QED
    BY <1>1, AppendCommit DEF LandedOnce, Landed

\* A push by j, heard or not, puts j's commit on the branch.
LEMMA PushLands ==
    ASSUME RetryTypeOK, LandedOnce, NEW j \in Jobs, remote' = Pushed(j)
    PROVE  /\ \A k \in Jobs : Landed(k)' <=> Landed(k) \/ k = j
           /\ Len(remote') = Len(remote) + 1 - Own(j)
           /\ remote' \in Seq(Commits)
           /\ \A i, k \in DOMAIN remote' :
                remote'[i] = remote'[k] /\ remote'[i] \in Jobs => i = k
  <1>1. Len(remote) \in Nat /\ remote \in Seq(Commits)
    BY DEF RetryTypeOK, Commits
  <1>2. CASE Landed(j)
    <2>1. remote' = remote
      BY <1>2 DEF Pushed
    <2> QED
      BY <1>1, <1>2, <2>1 DEF Landed, LandedOnce, Own
  <1>3. CASE ~ Landed(j)
    <2>1. remote' = Append(remote, j) /\ j \in Commits
      BY <1>3 DEF Pushed, Commits
    <2> QED
      BY <1>1, <1>3, <2>1, LandedAfter, StaysSingle DEF Own
  <1> QED
    BY <1>2, <1>3

-----------------------------------------------------------------------------
(* Sums *)

\* A longer branch leaves room for what fitted before.
LEMMA LongerFits ==
    ASSUME NEW t \in Int, NEW s \in Int, NEW o \in Int, NEW n \in Int, NEW m \in Int,
           NEW f \in Int, t + s + o <= n + f, n <= m
    PROVE  t + s + o <= m + f
  OBVIOUS

\* A lost race is paid for by a commit that was not there at the pull.
LEMMA LostRace ==
    ASSUME NEW t \in Int, NEW s \in Int, NEW o \in Int, NEW b \in Int, NEW n \in Int,
           NEW f \in Int, t + s + o <= b + f, b < n
    PROVE  t + 1 + s + o <= n + f
  OBVIOUS

\* A fault pays for itself.
LEMMA OneFault ==
    ASSUME NEW t \in Int, NEW s \in Int, NEW o \in Int, NEW n \in Int, NEW f \in Int,
           t + s + o <= n + f
    PROVE  t + 1 + s + o <= n + (f + 1)
  OBVIOUS

\* So does one that hid a push that went through: own is 1 afterwards.
LEMMA OneHiddenPush ==
    ASSUME NEW t \in Int, NEW s \in Int, NEW o \in Int, NEW n \in Int, NEW f \in Int,
           t + s + o <= n + f
    PROVE  t + 1 + s + 1 <= (n + 1 - o) + (f + 1)
  OBVIOUS

\* With the last attempt gone, all of them are paid for.
LEMMA AllPaid ==
    ASSUME NEW a \in Int, NEW t \in Int, NEW s \in Int, NEW o \in Int, NEW m \in Int,
           t + 1 + s + o <= m, a <= t + 1
    PROVE  a + s + o <= m
  OBVIOUS

-----------------------------------------------------------------------------
(* The invariant *)

\* What a step of j must show of Paid: only j has moved, and
\* the branch has grown by commits that are nobody's own but j's.
LEMMA StillPaid ==
    ASSUME RetryTypeOK, RetryTypeOK', Paid, NEW j \in Jobs,
           Len(remote) <= Len(remote'),
           \A k \in Jobs \ {j} :
                /\ at'[k] = at[k] /\ base'[k] = base[k] /\ tries'[k] = tries[k]
                /\ faults'[k] = faults[k] /\ start'[k] = start[k]
                /\ Landed(k)' <=> Landed(k),
           /\ start'[j] + Own(j)' <= Len(remote')
           /\ at'[j] = "build" => tries'[j] = 0 /\ Own(j)' = 0
           /\ at'[j] = "pull" => tries'[j] + start'[j] + Own(j)' <= Len(remote') + faults'[j]
           /\ at'[j] = "push" =>
                /\ base'[j] <= Len(remote')
                /\ tries'[j] + start'[j] + Own(j)' <= base'[j] + faults'[j]
           /\ at'[j] = "failed" => Attempts + start'[j] + Own(j)' <= Len(remote') + faults'[j]
    PROVE  Paid'
  <1>1. Len(remote) \in Nat /\ Len(remote') \in Nat
    BY DEF RetryTypeOK
  <1>2. ASSUME NEW k \in Jobs, k # j
        PROVE  /\ start[k]' + Own(k)' <= Len(remote')
               /\ at'[k] = "build" => tries'[k] = 0 /\ Own(k)' = 0
               /\ at'[k] = "pull" => tries'[k] + start'[k] + Own(k)' <= Len(remote') + faults'[k]
               /\ at'[k] = "push" =>
                    /\ base'[k] <= Len(remote')
                    /\ tries'[k] + start'[k] + Own(k)' <= base'[k] + faults'[k]
               /\ at'[k] = "failed" => Attempts + start'[k] + Own(k)' <= Len(remote') + faults'[k]
    <2>1. Own(k)' = Own(k) /\ Own(k) \in Int
      BY <1>2 DEF Own
    <2>2. /\ at'[k] = at[k] /\ base'[k] = base[k] /\ tries'[k] = tries[k]
          /\ faults'[k] = faults[k] /\ start'[k] = start[k]
      BY <1>2
    <2>3. /\ base[k] \in Int /\ tries[k] \in Int /\ faults[k] \in Int
          /\ start[k] \in Int /\ Attempts \in Int
      BY RetryAssumption DEF RetryTypeOK
    <2>4. /\ start[k] + Own(k) <= Len(remote)
          /\ at[k] = "build" => tries[k] = 0 /\ Own(k) = 0
          /\ at[k] = "pull" => tries[k] + start[k] + Own(k) <= Len(remote) + faults[k]
          /\ at[k] = "push" =>
                /\ base[k] <= Len(remote)
                /\ tries[k] + start[k] + Own(k) <= base[k] + faults[k]
          /\ at[k] = "failed" => Attempts + start[k] + Own(k) <= Len(remote) + faults[k]
      BY DEF Paid
    <2>5. Len(remote) <= Len(remote')
      OBVIOUS
    <2>6. /\ start[k] + Own(k) <= Len(remote')
          /\ at[k] = "push" => base[k] <= Len(remote')
      BY <1>1, <2>1, <2>3, <2>4, <2>5
    <2>7. ASSUME NEW t \in Int, t + start[k] + Own(k) <= Len(remote) + faults[k]
          PROVE  t + start[k] + Own(k) <= Len(remote') + faults[k]
      BY <1>1, <2>1, <2>3, <2>5, <2>7, LongerFits
    <2>8. /\ at[k] = "pull" => tries[k] + start[k] + Own(k) <= Len(remote') + faults[k]
          /\ at[k] = "failed" => Attempts + start[k] + Own(k) <= Len(remote') + faults[k]
      BY <2>3, <2>4, <2>7
    <2> QED
      BY <2>1, <2>2, <2>4, <2>6, <2>8
  <1> QED
    BY <1>2 DEF Paid

\* What the invariant says of one job, with its numbers.
LEMMA OfJob ==
    ASSUME RetryInv, NEW j \in Jobs
    PROVE  /\ Len(remote) \in Int /\ Attempts \in Int /\ base[j] \in Int
           /\ tries[j] \in Int /\ faults[j] \in Int /\ start[j] \in Int
           /\ Own(j) \in {0, 1}
           /\ start[j] + Own(j) <= Len(remote)
           /\ at[j] = "build" => tries[j] = 0 /\ Own(j) = 0
           /\ at[j] = "pull" => tries[j] + start[j] + Own(j) <= Len(remote) + faults[j]
           /\ at[j] = "push" =>
                /\ base[j] <= Len(remote)
                /\ tries[j] + start[j] + Own(j) <= base[j] + faults[j]
  <1>1. Own(j) \in {0, 1}
    BY DEF Own
  <1>2. /\ Len(remote) \in Int /\ Attempts \in Int /\ base[j] \in Int
        /\ tries[j] \in Int /\ faults[j] \in Int /\ start[j] \in Int
    BY RetryAssumption DEF RetryInv, RetryTypeOK
  <1> QED
    BY <1>1, <1>2 DEF RetryInv, Paid

LEMMA RetryInitial == RetryInit => RetryInv
  BY RetryAssumption
  DEF RetryInit, RetryInv, RetryTypeOK, Paid, LandedOnce, Landed,
      Own

LEMMA RetryNextInv ==
    ASSUME RetryInv, [RetryNext]_retryVars
    PROVE  RetryInv'
  <1> USE RetryAssumption
  <1>a. Len(remote) \in Nat /\ remote \in Seq(Commits)
    BY DEF RetryInv, RetryTypeOK, Commits
  <1>b. RetryTypeOK /\ LandedOnce /\ Paid
    BY DEF RetryInv
  <1>c. \A k \in Jobs : Own(k) \in {0, 1}
    BY DEF Own
  <1>1. ASSUME NEW j \in Jobs, Commit(j)
        PROVE  RetryInv'
    <2>1. \A k \in Jobs : (Landed(k)' <=> Landed(k)) /\ Own(k)' = Own(k)
      BY <1>1 DEF Commit, Landed, Own
    <2>2. RetryTypeOK'
      BY <1>1, <1>b DEF Commit, RetryTypeOK
    <2>3. LandedOnce'
      BY <1>1, <1>b, <2>1 DEF Commit, RetryTypeOK, LandedOnce
    <2>4. /\ start'[j] + Own(j)' <= Len(remote')
          /\ at'[j] = "build" => tries'[j] = 0 /\ Own(j)' = 0
          /\ at'[j] = "pull" => tries'[j] + start'[j] + Own(j)' <= Len(remote') + faults'[j]
          /\ at'[j] = "push" =>
                /\ base'[j] <= Len(remote')
                /\ tries'[j] + start'[j] + Own(j)' <= base'[j] + faults'[j]
          /\ at'[j] = "failed" => Attempts + start'[j] + Own(j)' <= Len(remote') + faults'[j]
      BY <1>1, <1>a, <1>b, <1>c, <2>1 DEF Commit, RetryTypeOK, Paid
    <2>5. Paid'
      BY <1>1, <1>a, <1>b, <2>1, <2>2, <2>4, StillPaid DEF Commit, RetryTypeOK
    <2> QED
      BY <2>2, <2>3, <2>5 DEF RetryInv
  <1>2. ASSUME NEW j \in Jobs, Pull(j)
        PROVE  RetryInv'
    <2>1. \A k \in Jobs : (Landed(k)' <=> Landed(k)) /\ Own(k)' = Own(k)
      BY <1>2 DEF Pull, Landed, Own
    <2>2. RetryTypeOK'
      BY <1>2, <1>b DEF Pull, RetryTypeOK
    <2>3. LandedOnce'
      BY <1>2, <1>b, <2>1 DEF Pull, RetryTypeOK, LandedOnce
    <2>4. /\ start'[j] + Own(j)' <= Len(remote')
          /\ at'[j] = "build" => tries'[j] = 0 /\ Own(j)' = 0
          /\ at'[j] = "pull" => tries'[j] + start'[j] + Own(j)' <= Len(remote') + faults'[j]
          /\ at'[j] = "push" =>
                /\ base'[j] <= Len(remote')
                /\ tries'[j] + start'[j] + Own(j)' <= base'[j] + faults'[j]
          /\ at'[j] = "failed" => Attempts + start'[j] + Own(j)' <= Len(remote') + faults'[j]
      <3>1. /\ at[j] = "pull" /\ at'[j] = "push" /\ base'[j] = Len(remote)
            /\ tries'[j] = tries[j]
            /\ faults'[j] = faults[j] /\ start'[j] = start[j]
        BY <1>2, <1>b DEF Pull, RetryTypeOK
      <3>2. Len(remote)' = Len(remote)
        BY <1>2 DEF Pull, RetryTypeOK
      <3>4. /\ Len(remote) \in Int /\ Attempts \in Int /\ base[j] \in Int
            /\ tries[j] \in Int /\ faults[j] \in Int /\ start[j] \in Int
            /\ start[j] + Own(j) <= Len(remote)
            /\ at[j] = "pull" => tries[j] + start[j] + Own(j) <= Len(remote) + faults[j]
            /\ at[j] = "push" =>
                /\ base[j] <= Len(remote)
                /\ tries[j] + start[j] + Own(j) <= base[j] + faults[j]
        BY OfJob
      <3>5. Own(j)' = Own(j) /\ Own(j) \in Int
        BY <1>c, <2>1
      <3> QED
        BY <3>1, <3>2, <3>4, <3>5
    <2>5. Paid'
      BY <1>2, <1>a, <1>b, <2>1, <2>2, <2>4, StillPaid DEF Pull, RetryTypeOK
    <2> QED
      BY <2>2, <2>3, <2>5 DEF RetryInv
  <1>3. ASSUME NEW j \in Jobs, Push(j)
        PROVE  RetryInv'
    <2>1. /\ \A k \in Jobs : Landed(k)' <=> Landed(k) \/ k = j
          /\ Len(remote') = Len(remote) + 1 - Own(j)
          /\ remote' \in Seq(Commits)
          /\ \A i, k \in DOMAIN remote' :
                remote'[i] = remote'[k] /\ remote'[i] \in Jobs => i = k
      BY <1>3, <1>b, PushLands DEF Push
    <2>2. RetryTypeOK'
      BY <1>3, <1>b, <2>1 DEF Push, RetryTypeOK, Commits
    <2>3. LandedOnce'
      BY <1>3, <1>b, <2>1 DEF Push, RetryTypeOK, LandedOnce
    <2>4. Own(j)' = 1
      BY <2>1 DEF Own
    <2>5. /\ start'[j] + Own(j)' <= Len(remote')
          /\ at'[j] = "build" => tries'[j] = 0 /\ Own(j)' = 0
          /\ at'[j] = "pull" => tries'[j] + start'[j] + Own(j)' <= Len(remote') + faults'[j]
          /\ at'[j] = "push" =>
                /\ base'[j] <= Len(remote')
                /\ tries'[j] + start'[j] + Own(j)' <= base'[j] + faults'[j]
          /\ at'[j] = "failed" => Attempts + start'[j] + Own(j)' <= Len(remote') + faults'[j]
      <3>1. /\ at[j] = "push" /\ at'[j] = "done"
            /\ tries'[j] = tries[j]
            /\ faults'[j] = faults[j] /\ start'[j] = start[j]
        BY <1>3, <1>b DEF Push, RetryTypeOK
      <3>2. Len(remote)' = Len(remote) + 1 - Own(j)
        BY <2>1
      <3>4. /\ Len(remote) \in Int /\ Attempts \in Int /\ base[j] \in Int
            /\ tries[j] \in Int /\ faults[j] \in Int /\ start[j] \in Int
            /\ start[j] + Own(j) <= Len(remote)
            /\ at[j] = "pull" => tries[j] + start[j] + Own(j) <= Len(remote) + faults[j]
            /\ at[j] = "push" =>
                /\ base[j] <= Len(remote)
                /\ tries[j] + start[j] + Own(j) <= base[j] + faults[j]
        BY OfJob
      <3>5. Own(j)' = 1 /\ Own(j) \in Int
        BY <1>c, <2>4
      <3> QED
        BY <3>1, <3>2, <3>4, <3>5
    <2>6. Paid'
      <3>1. \A k \in Jobs \ {j} :
                /\ at'[k] = at[k] /\ base'[k] = base[k] /\ tries'[k] = tries[k]
                /\ faults'[k] = faults[k] /\ start'[k] = start[k]
                /\ Landed(k)' <=> Landed(k)
        BY <1>3, <1>b, <2>1 DEF Push, RetryTypeOK
      <3>2. Len(remote) <= Len(remote')
        BY <1>a, <1>c, <2>1
      <3> QED
        BY <1>b, <2>2, <2>5, <3>1, <3>2, StillPaid
    <2> QED
      BY <2>2, <2>3, <2>6 DEF RetryInv
  <1>4. ASSUME NEW j \in Jobs, Rejected(j)
        PROVE  RetryInv'
    <2>1. \A k \in Jobs : (Landed(k)' <=> Landed(k)) /\ Own(k)' = Own(k)
      BY <1>4 DEF Rejected, Landed, Own
    <2>2. RetryTypeOK'
      BY <1>4, <1>b DEF Rejected, Again, RetryTypeOK
    <2>3. LandedOnce'
      BY <1>4, <1>b, <2>1 DEF Rejected, Again, RetryTypeOK, LandedOnce
    <2>4. /\ start'[j] + Own(j)' <= Len(remote')
          /\ at'[j] = "build" => tries'[j] = 0 /\ Own(j)' = 0
          /\ at'[j] = "pull" => tries'[j] + start'[j] + Own(j)' <= Len(remote') + faults'[j]
          /\ at'[j] = "push" =>
                /\ base'[j] <= Len(remote')
                /\ tries'[j] + start'[j] + Own(j)' <= base'[j] + faults'[j]
          /\ at'[j] = "failed" => Attempts + start'[j] + Own(j)' <= Len(remote') + faults'[j]
      <3>1. /\ at[j] = "push" /\ base[j] # Len(remote)
            /\ \/ tries[j] + 1 < Attempts /\ at'[j] = "pull"
               \/ Attempts <= tries[j] + 1 /\ at'[j] = "failed"
            /\ tries'[j] = tries[j] + 1
            /\ faults'[j] = faults[j] /\ start'[j] = start[j]
        BY <1>4, <1>b DEF Rejected, Again, RetryTypeOK
      <3>2. Len(remote)' = Len(remote)
        BY <1>4 DEF Rejected, Again, RetryTypeOK
      <3>4. /\ Len(remote) \in Int /\ Attempts \in Int /\ base[j] \in Int
            /\ tries[j] \in Int /\ faults[j] \in Int /\ start[j] \in Int
            /\ start[j] + Own(j) <= Len(remote)
            /\ at[j] = "pull" => tries[j] + start[j] + Own(j) <= Len(remote) + faults[j]
            /\ at[j] = "push" =>
                /\ base[j] <= Len(remote)
                /\ tries[j] + start[j] + Own(j) <= base[j] + faults[j]
        BY OfJob
      <3>5. Own(j)' = Own(j) /\ Own(j) \in Int
        BY <1>c, <2>1
      <3>6. tries[j] + 1 + start[j] + Own(j) <= Len(remote) + faults[j]
        <4>0. /\ Len(remote) \in Int /\ base[j] \in Int /\ tries[j] \in Int
              /\ faults[j] \in Int /\ start[j] \in Int /\ Own(j) \in Int
          BY <3>4, <3>5
        <4>1. base[j] < Len(remote)
          BY <3>1, <3>4
        <4>2. tries[j] + start[j] + Own(j) <= base[j] + faults[j]
          BY <3>1, <3>4
        <4> QED
          BY <4>0, <4>1, <4>2, LostRace
      <3>7. start[j] + Own(j) <= Len(remote)
        BY <3>4, <3>5
      <3>8. CASE Attempts <= tries[j] + 1 /\ at'[j] = "failed"
        <4>0. /\ Attempts \in Int /\ tries[j] \in Int /\ start[j] \in Int
              /\ Own(j) \in Int /\ Len(remote) + faults[j] \in Int
          BY <3>4, <3>5
        <4>1. Attempts + start[j] + Own(j) <= Len(remote) + faults[j]
          BY <4>0, <3>6, <3>8, AllPaid
        <4> QED
          BY <3>1, <3>2, <3>5, <3>7, <3>8, <4>1
      <3>9. CASE tries[j] + 1 < Attempts /\ at'[j] = "pull"
        BY <3>1, <3>2, <3>5, <3>6, <3>7, <3>9
      <3> QED
        BY <3>1, <3>8, <3>9
    <2>5. \A k \in Jobs \ {j} :
                /\ at'[k] = at[k] /\ base'[k] = base[k] /\ tries'[k] = tries[k]
                /\ faults'[k] = faults[k] /\ start'[k] = start[k]
                /\ Landed(k)' <=> Landed(k)
      BY <1>4, <1>b, <2>1 DEF Rejected, Again, RetryTypeOK
    <2>6. Len(remote) <= Len(remote')
      BY <1>4, <1>a DEF Rejected
    <2>7. Paid'
      BY <1>b, <2>2, <2>4, <2>5, <2>6, StillPaid
    <2> QED
      BY <2>2, <2>3, <2>7 DEF RetryInv
  <1>5. ASSUME NEW j \in Jobs, Unreached(j)
        PROVE  RetryInv'
    <2>1. \A k \in Jobs : (Landed(k)' <=> Landed(k)) /\ Own(k)' = Own(k)
      BY <1>5 DEF Unreached, Landed, Own
    <2>2. RetryTypeOK'
      BY <1>5, <1>b DEF Unreached, Fault, Again, RetryTypeOK
    <2>3. LandedOnce'
      BY <1>5, <1>b, <2>1 DEF Unreached, Fault, Again, RetryTypeOK, LandedOnce
    <2>4. /\ start'[j] + Own(j)' <= Len(remote')
          /\ at'[j] = "build" => tries'[j] = 0 /\ Own(j)' = 0
          /\ at'[j] = "pull" => tries'[j] + start'[j] + Own(j)' <= Len(remote') + faults'[j]
          /\ at'[j] = "push" =>
                /\ base'[j] <= Len(remote')
                /\ tries'[j] + start'[j] + Own(j)' <= base'[j] + faults'[j]
          /\ at'[j] = "failed" => Attempts + start'[j] + Own(j)' <= Len(remote') + faults'[j]
      <3>1. /\ at[j] \in {"pull", "push"}
            /\ \/ tries[j] + 1 < Attempts /\ at'[j] = "pull"
               \/ Attempts <= tries[j] + 1 /\ at'[j] = "failed"
            /\ tries'[j] = tries[j] + 1
            /\ faults'[j] = faults[j] + 1 /\ start'[j] = start[j]
        BY <1>5, <1>b DEF Unreached, Fault, Again, RetryTypeOK
      <3>2. Len(remote)' = Len(remote)
        BY <1>5 DEF Unreached, Fault, Again, RetryTypeOK
      <3>4. /\ Len(remote) \in Int /\ Attempts \in Int /\ base[j] \in Int
            /\ tries[j] \in Int /\ faults[j] \in Int /\ start[j] \in Int
            /\ start[j] + Own(j) <= Len(remote)
            /\ at[j] = "pull" => tries[j] + start[j] + Own(j) <= Len(remote) + faults[j]
            /\ at[j] = "push" =>
                /\ base[j] <= Len(remote)
                /\ tries[j] + start[j] + Own(j) <= base[j] + faults[j]
        BY OfJob
      <3>5. Own(j)' = Own(j) /\ Own(j) \in Int
        BY <1>c, <2>1
      <3>6. tries[j] + 1 + start[j] + Own(j) <= Len(remote) + (faults[j] + 1)
        <4>0. /\ Len(remote) \in Int /\ base[j] \in Int /\ tries[j] \in Int
              /\ faults[j] \in Int /\ start[j] \in Int /\ Own(j) \in Int
          BY <3>4, <3>5
        <4>1. tries[j] + start[j] + Own(j) <= Len(remote) + faults[j]
          <5>1. CASE at[j] = "pull"
            BY <3>4, <5>1
          <5>2. CASE at[j] = "push"
            BY <3>4, <4>0, <5>2, LongerFits
          <5> QED
            BY <3>1, <5>1, <5>2
        <4> QED
          BY <4>0, <4>1, OneFault
      <3>7. start[j] + Own(j) <= Len(remote)
        BY <3>4, <3>5
      <3>8. CASE Attempts <= tries[j] + 1 /\ at'[j] = "failed"
        <4>0. /\ Attempts \in Int /\ tries[j] \in Int /\ start[j] \in Int
              /\ Own(j) \in Int /\ Len(remote) + (faults[j] + 1) \in Int
          BY <3>4, <3>5
        <4>1. Attempts + start[j] + Own(j) <= Len(remote) + (faults[j] + 1)
          BY <4>0, <3>6, <3>8, AllPaid
        <4> QED
          BY <3>1, <3>2, <3>5, <3>7, <3>8, <4>1
      <3>9. CASE tries[j] + 1 < Attempts /\ at'[j] = "pull"
        BY <3>1, <3>2, <3>5, <3>6, <3>7, <3>9
      <3> QED
        BY <3>1, <3>8, <3>9
    <2>5. \A k \in Jobs \ {j} :
                /\ at'[k] = at[k] /\ base'[k] = base[k] /\ tries'[k] = tries[k]
                /\ faults'[k] = faults[k] /\ start'[k] = start[k]
                /\ Landed(k)' <=> Landed(k)
      BY <1>5, <1>b, <2>1 DEF Unreached, Fault, Again, RetryTypeOK
    <2>6. Len(remote) <= Len(remote')
      BY <1>5, <1>a DEF Unreached
    <2>7. Paid'
      BY <1>b, <2>2, <2>4, <2>5, <2>6, StillPaid
    <2> QED
      BY <2>2, <2>3, <2>7 DEF RetryInv
  <1>6. ASSUME NEW j \in Jobs, Unheard(j)
        PROVE  RetryInv'
    <2>1. /\ \A k \in Jobs : Landed(k)' <=> Landed(k) \/ k = j
          /\ Len(remote') = Len(remote) + 1 - Own(j)
          /\ remote' \in Seq(Commits)
          /\ \A i, k \in DOMAIN remote' :
                remote'[i] = remote'[k] /\ remote'[i] \in Jobs => i = k
      BY <1>6, <1>b, PushLands DEF Unheard
    <2>2. RetryTypeOK'
      BY <1>6, <1>b, <2>1 DEF Unheard, Fault, Again, RetryTypeOK, Commits
    <2>3. LandedOnce'
      BY <1>6, <1>b, <2>1 DEF Unheard, Fault, Again, RetryTypeOK, LandedOnce
    <2>4. Own(j)' = 1
      BY <2>1 DEF Own
    <2>5. /\ start'[j] + Own(j)' <= Len(remote')
          /\ at'[j] = "build" => tries'[j] = 0 /\ Own(j)' = 0
          /\ at'[j] = "pull" => tries'[j] + start'[j] + Own(j)' <= Len(remote') + faults'[j]
          /\ at'[j] = "push" =>
                /\ base'[j] <= Len(remote')
                /\ tries'[j] + start'[j] + Own(j)' <= base'[j] + faults'[j]
          /\ at'[j] = "failed" => Attempts + start'[j] + Own(j)' <= Len(remote') + faults'[j]
      <3>1. /\ at[j] = "push" /\ base[j] = Len(remote)
            /\ \/ tries[j] + 1 < Attempts /\ at'[j] = "pull"
               \/ Attempts <= tries[j] + 1 /\ at'[j] = "failed"
            /\ tries'[j] = tries[j] + 1
            /\ faults'[j] = faults[j] + 1 /\ start'[j] = start[j]
        BY <1>6, <1>b DEF Unheard, Fault, Again, RetryTypeOK
      <3>2. Len(remote)' = Len(remote) + 1 - Own(j)
        BY <2>1
      <3>4. /\ Len(remote) \in Int /\ Attempts \in Int /\ base[j] \in Int
            /\ tries[j] \in Int /\ faults[j] \in Int /\ start[j] \in Int
            /\ start[j] + Own(j) <= Len(remote)
            /\ at[j] = "pull" => tries[j] + start[j] + Own(j) <= Len(remote) + faults[j]
            /\ at[j] = "push" =>
                /\ base[j] <= Len(remote)
                /\ tries[j] + start[j] + Own(j) <= base[j] + faults[j]
        BY OfJob
      <3>5. Own(j)' = 1 /\ Own(j) \in Int
        BY <1>c, <2>4
      <3>6. tries[j] + 1 + start[j] + 1 <= (Len(remote) + 1 - Own(j)) + (faults[j] + 1)
        <4>1. tries[j] + start[j] + Own(j) <= Len(remote) + faults[j]
          BY <3>1, <3>4
        <4>0. /\ Len(remote) \in Int /\ base[j] \in Int /\ tries[j] \in Int
              /\ faults[j] \in Int /\ start[j] \in Int /\ Own(j) \in Int
          BY <3>4, <3>5
        <4> QED
          BY <4>0, <4>1, OneHiddenPush
      <3>7. start[j] + 1 <= Len(remote) + 1 - Own(j)
        BY <3>4, <3>5
      <3>8. CASE Attempts <= tries[j] + 1 /\ at'[j] = "failed"
        <4>0. /\ Attempts \in Int /\ tries[j] \in Int /\ start[j] \in Int
              /\ 1 \in Int /\ (Len(remote) + 1 - Own(j)) + (faults[j] + 1) \in Int
          BY <3>4, <3>5
        <4>1. Attempts + start[j] + 1 <= (Len(remote) + 1 - Own(j)) + (faults[j] + 1)
          BY <4>0, <3>6, <3>8, AllPaid
        <4> QED
          BY <3>1, <3>2, <3>5, <3>7, <3>8, <4>1
      <3>9. CASE tries[j] + 1 < Attempts /\ at'[j] = "pull"
        BY <3>1, <3>2, <3>5, <3>6, <3>7, <3>9
      <3> QED
        BY <3>1, <3>8, <3>9
    <2>6. Paid'
      <3>1. \A k \in Jobs \ {j} :
                /\ at'[k] = at[k] /\ base'[k] = base[k] /\ tries'[k] = tries[k]
                /\ faults'[k] = faults[k] /\ start'[k] = start[k]
                /\ Landed(k)' <=> Landed(k)
        BY <1>6, <1>b, <2>1 DEF Unheard, Fault, Again, RetryTypeOK
      <3>2. Len(remote) <= Len(remote')
        BY <1>a, <1>c, <2>1
      <3> QED
        BY <1>b, <2>2, <2>5, <3>1, <3>2, StillPaid
    <2> QED
      BY <2>2, <2>3, <2>6 DEF RetryInv
  <1>7. CASE SomebodyPushes
    <2>1. /\ \A k \in Jobs : Landed(k)' <=> Landed(k)
          /\ Len(remote') = Len(remote) + 1
          /\ remote' \in Seq(Commits)
      BY <1>7, <1>b, LandedAfter DEF SomebodyPushes, Commits
    <2>2. \A i, k \in DOMAIN remote' :
                remote'[i] = remote'[k] /\ remote'[i] \in Jobs => i = k
      BY <1>7, <1>b, StaysSingle DEF SomebodyPushes, Commits
    <2>3. RetryTypeOK' /\ LandedOnce'
      BY <1>7, <1>b, <2>1, <2>2 DEF SomebodyPushes, RetryTypeOK, Commits, LandedOnce
    <2>4. Paid'
      BY <1>7, <1>a, <1>b, <2>1
      DEF SomebodyPushes, RetryTypeOK, Paid, Own
    <2> QED
      BY <2>3, <2>4 DEF RetryInv
  <1>8. CASE UNCHANGED retryVars
    BY <1>8 DEF retryVars, RetryInv, RetryTypeOK, Paid, LandedOnce,
                Landed, Own
  <1> QED
    BY <1>1, <1>2, <1>3, <1>4, <1>5, <1>6, <1>7, <1>8 DEF RetryNext

LEMMA RetryInvariant == RetrySpec => []RetryInv
  BY RetryInitial, RetryNextInv, PTL DEF RetrySpec

\* Whatever the number of jobs and the order of their pushes, a job only gives
\* up if others landed commits, or the network failed, as often as it tried.
THEOREM GivesUpForCause == RetrySpec => []FailsForCause
  <1>1. ASSUME RetryInv, NEW j \in Jobs, at[j] = "failed"
        PROVE  Attempts <= Rivals(j) + faults[j]
    <2>1. Attempts + start[j] + Own(j) <= Len(remote) + faults[j]
      BY <1>1 DEF RetryInv, Paid
    <2>2. /\ Len(remote) \in Int /\ Attempts \in Int /\ faults[j] \in Int
          /\ start[j] \in Int /\ Own(j) \in Int
      BY <1>1, OfJob
    <2> QED
      BY <2>1, <2>2 DEF Rivals
  <1>2. RetryInv => FailsForCause
    BY <1>1 DEF FailsForCause
  <1> QED
    BY <1>2, RetryInvariant, PTL

\* A job that reports success is on the branch, exactly once and for good.
THEOREM LandsOnce == RetrySpec => []LandedOnce
  <1>1. RetryInv => LandedOnce
    BY DEF RetryInv
  <1> QED
    BY <1>1, RetryInvariant, PTL

\* Type correctness.
THEOREM RetryTypes == RetrySpec => []RetryTypeOK
  <1>1. RetryInv => RetryTypeOK
    BY DEF RetryInv
  <1> QED
    BY <1>1, RetryInvariant, PTL

=============================================================================
