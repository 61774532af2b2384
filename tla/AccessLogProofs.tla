--------------------------- MODULE AccessLogProofs ---------------------------
(***************************************************************************)
(* Proofs about AccessLog, for any number of lines, rotations, passes,     *)
(* kills and inodes.  Types hold in every case; that the counters follow   *)
(* the log, and that a pass is current, when logrotate only renames a log  *)
(* that some pass has read (EachFileRead).                                 *)
(***************************************************************************)
EXTENDS AccessLog, TLAPS, SequenceTheorems

\* No file is longer than the log as a whole, and a begun line has a place.
FileTypes ==
    /\ half => lines < MaxLines
    /\ \A i \in Inodes : Len(content[i]) <= lines

\* The inodes a stage of the pass needs are there.
PassTypes ==
    /\ pass # "idle" => fd \in Inodes
    /\ pass = "stat" => row.inode \in Inodes
    /\ pass = "open" => old \in Inodes
    /\ pass = "old" => oldFd \in Inodes

LogTypes == LogTypeOK /\ FileTypes /\ PassTypes

\* The files that matter: the one nginx writes to and the last one rotated away.
Kept == {writer, old} \ {NoFile}

\* How many lines there were before the first one of a kept file.
Before(f) ==
    IF f = writer THEN lines - Len(content[f]) ELSE lines - Len(content[writer]) - Len(content[f])

\* The kept files hold the last lines without a gap.
FilesInv ==
    /\ log # NoFile => log = writer /\ old # writer
    /\ log = NoFile => old = writer
    /\ \A f \in Kept :
        /\ Before(f) \in Nat
        /\ \A k \in 1 .. Len(content[f]) : content[f][k] = Before(f) + k

\* The row is a place in a kept file, and the counters hold all up to that place.
RowInv ==
    /\ row.inode = NoFile =>
        /\ row.offset = 0 /\ counted = <<>>
        /\ log = writer /\ old = NoFile
        /\ Len(content[writer]) = lines
    /\ row.inode # NoFile =>
        /\ row.inode \in Kept
        /\ row.offset <= Len(content[row.inode])
        /\ InOrder(counted, Before(row.inode) + row.offset)

\* With its open transaction a pass has all up to where it reads; while it is at
\* work on <log>.1 no file is rotated, and a log that is was read before.
PassInv ==
    /\ pass # "idle" =>
        /\ fd \in Kept
        /\ pos <= Len(content[fd])
        /\ due <= Before(fd) + Len(content[fd])
        /\ fd = log \/ row.inode = fd
    /\ pass \in {"stat", "open", "old"} =>
        /\ row.inode = old /\ old # NoFile
        /\ fd = log /\ fd = writer /\ pos = 0
    /\ pass \in {"idle", "stat", "open"} => taken = <<>>
    /\ pass = "old" =>
        /\ oldFd = old
        /\ oldPos <= Len(content[old])
        /\ InOrder(counted \o taken, Before(old) + oldPos)
    /\ pass = "read" => InOrder(counted \o taken, Before(fd) + pos)

LogInv == LogTypes /\ FilesInv /\ RowInv /\ PassInv

-----------------------------------------------------------------------------
(* Lines in order *)

LEMMA EmptyLog == <<>> \in Seq(1 .. MaxLines) /\ Len(<<>>) = 0
  OBVIOUS

\* What a line adds to the counters is one line or none.
LEMMA ParsedType == ASSUME NEW l \in 1 .. MaxLines PROVE Parsed(l) \in Seq(1 .. MaxLines)
<1>1. CASE l \in Bad
  BY <1>1, EmptyLog DEF Parsed
<1>2. CASE l \notin Bad
  <2>1. <<l>> \in Seq(1 .. MaxLines)
    OBVIOUS
  <2>2. QED
    BY <1>2, <2>1 DEF Parsed
<1>3. QED
  BY <1>1, <1>2

LEMMA LogAssociative ==
    ASSUME NEW s \in Seq(1 .. MaxLines), NEW t \in Seq(1 .. MaxLines), NEW u \in Seq(1 .. MaxLines)
    PROVE  (s \o t) \o u = s \o (t \o u)
  BY ConcatAssociative

\* The next line, if it is not a bad one, comes after all that are there.
LEMMA NextInOrder ==
    ASSUME NEW s \in Seq(1 .. MaxLines), NEW n \in Nat, InOrder(s, n), n + 1 <= MaxLines
    PROVE  InOrder(s \o Parsed(n + 1), n + 1)
<1>1. CASE n + 1 \in Bad
  <2>1. s \o Parsed(n + 1) = s
    BY <1>1 DEF Parsed
  <2>2. (1 .. (n + 1)) \ Bad = (1 .. n) \ Bad
    BY <1>1
  <2>3. QED
    BY <2>1, <2>2 DEF InOrder
<1>2. CASE n + 1 \notin Bad
  <2> DEFINE t == Append(s, n + 1)
  <2>1. /\ DOMAIN s = 1 .. Len(s) /\ DOMAIN t = 1 .. (Len(s) + 1) /\ Len(s) \in Nat
        /\ \A i \in 1 .. Len(s) : t[i] = s[i] /\ s[i] \in 1 .. MaxLines
        /\ t[Len(s) + 1] = n + 1
    <3>1. n + 1 \in 1 .. MaxLines
      OBVIOUS
    <3>2. /\ t \in Seq(1 .. MaxLines) /\ Len(t) = Len(s) + 1 /\ Len(s) \in Nat
          /\ \A i \in 1 .. Len(s) : t[i] = s[i]
          /\ t[Len(s) + 1] = n + 1
      BY <3>1, AppendProperties
    <3>3. DOMAIN s = 1 .. Len(s) /\ DOMAIN t = 1 .. Len(t)
      BY <3>2
    <3>4. \A i \in 1 .. Len(s) : s[i] \in 1 .. MaxLines
      BY ElementOfSeq
    <3>5. QED
      BY <3>2, <3>3, <3>4
  <2>2. s \o Parsed(n + 1) = t
    BY <1>2, AppendIsConcat, n + 1 \in 1 .. MaxLines DEF Parsed
  <2> HIDE DEF t
  <2>3. {t[i] : i \in DOMAIN t} = {s[i] : i \in DOMAIN s} \cup {n + 1}
    BY <2>1
  <2>4. (1 .. (n + 1)) \ Bad = ((1 .. n) \ Bad) \cup {n + 1}
    BY <1>2
  <2>5. \A i \in DOMAIN s : s[i] < n + 1
    BY <2>1 DEF InOrder
  <2>6. \A i, k \in DOMAIN t : i < k => t[i] < t[k]
    BY <2>1, <2>5 DEF InOrder
  <2>7. QED
    BY <2>2, <2>3, <2>4, <2>6 DEF InOrder
<1>3. QED
  BY <1>1, <1>2

-----------------------------------------------------------------------------
(* Types *)

\* A line that a file has is one of the lines, and there are at most MaxLines.
LEMMA LineThere ==
    ASSUME LogTypes, NEW f \in Inodes, NEW k \in Nat, k < Len(content[f])
    PROVE  /\ k + 1 \in 1 .. Len(content[f])
           /\ content[f][k + 1] \in 1 .. MaxLines
           /\ k + 1 \in 0 .. MaxLines
           /\ Parsed(content[f][k + 1]) \in Seq(1 .. MaxLines)
<1>1. content[f] \in Seq(1 .. MaxLines) /\ Len(content[f]) <= lines /\ lines \in 0 .. MaxLines
  BY DEF LogTypes, LogTypeOK, FileTypes
<1>2. Len(content[f]) \in Nat /\ Len(content[f]) <= MaxLines
  BY <1>1, LogAssumption
<1>3. k + 1 \in 1 .. Len(content[f]) /\ k + 1 \in 0 .. MaxLines
  BY <1>2, LogAssumption
<1>4. content[f][k + 1] \in 1 .. MaxLines
  BY <1>1, <1>3, ElementOfSeq
<1>5. QED
  BY <1>3, <1>4, ParsedType

\* The types hold at first, and every step preserves them.
LEMMA LogTypesInit == LogInit => LogTypes
<1> SUFFICES ASSUME LogInit PROVE LogTypes
  OBVIOUS
<1>1. content \in [Inodes -> Seq(1 .. MaxLines)] /\ FileTypes
  BY EmptyLog, LogAssumption DEF LogInit, FileTypes
<1>2. row \in [inode : Inodes \cup {NoFile}, offset : 0 .. MaxLines]
  BY LogAssumption DEF LogInit, NoRow
<1>3. LogTypeOK
  <2>1. counted \in Seq(1 .. MaxLines) /\ taken \in Seq(1 .. MaxLines)
    BY EmptyLog DEF LogInit
  <2>2. log \in Inodes /\ writer \in Inodes /\ old = NoFile
    BY DEF LogInit
  <2>3. /\ half \in BOOLEAN /\ fd = NoFile /\ oldFd = NoFile
        /\ pass \in {"idle", "stat", "open", "old", "read"}
    BY DEF LogInit
  <2>4. /\ lines \in 0 .. MaxLines /\ pos \in 0 .. MaxLines /\ oldPos \in 0 .. MaxLines
        /\ due \in 0 .. MaxLines /\ rotations \in Nat /\ kills \in Nat
    BY LogAssumption DEF LogInit
  <2>5. QED
    BY <1>1, <1>2, <2>1, <2>2, <2>3, <2>4 DEF LogTypeOK
<1>4. QED
  BY <1>1, <1>3 DEF LogInit, LogTypes, PassTypes

LEMMA LogTypesNext == LogTypes /\ [LogNext]_logVars => LogTypes'
<1> SUFFICES ASSUME LogTypes, [LogNext]_logVars PROVE LogTypes'
  OBVIOUS
<1> USE LogAssumption
<1> USE DEF LogTypes, LogTypeOK, FileTypes, PassTypes
<1>1. CASE BeginLine
  BY <1>1 DEF BeginLine, table, locals
<1>2. CASE EndLine
  <2>1. lines + 1 \in 1 .. MaxLines /\ content[writer] \in Seq(1 .. MaxLines)
    BY <1>2 DEF EndLine
  <2>2. /\ Append(content[writer], lines + 1) \in Seq(1 .. MaxLines)
        /\ Len(Append(content[writer], lines + 1)) = Len(content[writer]) + 1
    BY <2>1, AppendProperties
  <2>3. content' \in [Inodes -> Seq(1 .. MaxLines)]
    BY <1>2, <2>2 DEF EndLine
  <2>4. \A i \in Inodes : Len(content'[i]) <= lines + 1
    <3>1. ASSUME NEW i \in Inodes PROVE Len(content'[i]) <= lines + 1
      <4>1. CASE i = writer
        BY <1>2, <2>2, <4>1 DEF EndLine
      <4>2. CASE i # writer
        <5>1. content'[i] = content[i] /\ content[i] \in Seq(1 .. MaxLines)
          BY <1>2, <4>2 DEF EndLine
        <5>2. Len(content[i]) \in Nat /\ Len(content[i]) <= lines
          BY <5>1
        <5>3. QED
          BY <5>1, <5>2
      <4>3. QED
        BY <4>1, <4>2
    <3>2. QED
      BY <3>1
  <2>5. lines' = lines + 1 /\ lines' \in 0 .. MaxLines /\ half' = FALSE
    BY <1>2, <2>1 DEF EndLine
  <2>6. FileTypes'
    BY <2>4, <2>5
  <2>7. QED
    BY <1>2, <2>3, <2>5, <2>6 DEF EndLine, table, locals
<1>3. CASE Rotate
  BY <1>3 DEF Rotate, table, locals
<1>4. CASE Reopen
  <2>1. <<>> \in Seq(1 .. MaxLines) /\ Len(<<>>) = 0
    OBVIOUS
  <2>2. QED
    BY <1>4, <2>1 DEF Reopen, table, locals
<1>5. CASE Open
  BY <1>5 DEF Open, nginx, table
<1>6. CASE StatOld
  BY <1>6 DEF StatOld, nginx, table
<1>7. CASE OpenOld
  BY <1>7 DEF OpenOld, nginx, table
<1>8. CASE ReadOld
  <2>1. CASE oldPos < Len(content[oldFd])
    <3>1. oldFd \in Inodes /\ oldPos \in Nat
      BY <1>8 DEF ReadOld
    <3>2. oldPos + 1 \in 0 .. MaxLines /\ Parsed(content[oldFd][oldPos + 1]) \in Seq(1 .. MaxLines)
      BY <2>1, <3>1, LineThere
    <3>3. taken \o Parsed(content[oldFd][oldPos + 1]) \in Seq(1 .. MaxLines)
      BY <3>2, ConcatProperties
    <3>4. QED
      BY <1>8, <2>1, <3>2, <3>3 DEF ReadOld, nginx, table
  <2>2. CASE ~ (oldPos < Len(content[oldFd]))
    BY <1>8, <2>2 DEF ReadOld, nginx, table
  <2>3. QED
    BY <2>1, <2>2
<1>9. CASE ReadLine
  <2>1. fd \in Inodes /\ pos \in Nat /\ pos < Len(content[fd])
    BY <1>9 DEF ReadLine
  <2>2. pos + 1 \in 0 .. MaxLines /\ Parsed(content[fd][pos + 1]) \in Seq(1 .. MaxLines)
    BY <2>1, LineThere
  <2>3. taken \o Parsed(content[fd][pos + 1]) \in Seq(1 .. MaxLines)
    BY <2>2, ConcatProperties
  <2>4. QED
    BY <1>9, <2>2, <2>3 DEF ReadLine, nginx, table
<1>10. CASE Commit
  <2>1. /\ row' \in [inode : Inodes \cup {NoFile}, offset : 0 .. MaxLines]
        /\ counted' \in Seq(1 .. MaxLines) /\ kills' \in Nat
    BY <1>10, ConcatProperties DEF Commit
  <2>2. QED
    BY <1>10, <2>1, EmptyLog DEF Commit, Forget, nginx
<1>11. CASE Kill
  <2>1. kills' \in Nat
    BY <1>11 DEF Kill
  <2>2. QED
    BY <1>11, <2>1, EmptyLog DEF Kill, Forget, nginx, table
<1>12. CASE UNCHANGED logVars
  BY <1>12 DEF logVars, nginx, table, locals
<1>13. QED
  BY <1>1, <1>2, <1>3, <1>4, <1>5, <1>6, <1>7, <1>8, <1>9, <1>10, <1>11, <1>12
  DEF LogNext, Ingest

\* Offsets never run past the end of a file, whatever ingest, nginx and logrotate do
\* in between (_read_file stops at the last complete line).
THEOREM LogTyped == LogSpec => []LogTypeOK
<1>1. LogTypes => LogTypeOK
  BY DEF LogTypes
<1>2. QED
  BY <1>1, LogTypesInit, LogTypesNext, PTL DEF LogSpec

-----------------------------------------------------------------------------
(* Following the log *)

\* No line is the first none of them.
LEMMA NoneInOrder == InOrder(<<>>, 0)
  BY DEF InOrder

\* What the types say of a file nginx or logrotate still has.
LEMMA KeptFile ==
    ASSUME LogTypes, FilesInv, NEW f \in Kept
    PROVE  /\ f \in Inodes /\ f # NoFile
           /\ content[f] \in Seq(1 .. MaxLines) /\ Len(content[f]) \in Nat
           /\ Len(content[writer]) \in Nat /\ Len(content[writer]) <= lines
           /\ lines \in Nat /\ lines <= MaxLines /\ MaxLines \in Nat
           /\ Before(f) \in Nat
           /\ Before(f) + Len(content[f]) <= lines
           /\ f = writer => Before(f) + Len(content[f]) = lines
           /\ f # writer => Before(f) + Len(content[f]) = Before(writer)
<1>1. /\ f \in Inodes /\ f # NoFile /\ writer \in Inodes
      /\ content \in [Inodes -> Seq(1 .. MaxLines)] /\ lines \in Nat /\ lines <= MaxLines
  BY LogAssumption DEF Kept, LogTypes, LogTypeOK
<1>2. /\ content[f] \in Seq(1 .. MaxLines) /\ Len(content[f]) \in Nat
      /\ Len(content[writer]) \in Nat /\ Len(content[writer]) <= lines
  BY <1>1 DEF LogTypes, FileTypes
<1>3. Before(f) \in Nat
  BY DEF FilesInv
<1>4. QED
  BY <1>1, <1>2, <1>3, LogAssumption DEF Before

\* Reading the next line of a file puts the next line into the transaction.
LEMMA ReadsOn ==
    ASSUME LogTypes, FilesInv, NEW f \in Kept, NEW k \in Nat, k < Len(content[f]),
           InOrder(counted \o taken, Before(f) + k)
    PROVE  InOrder(counted \o (taken \o Parsed(content[f][k + 1])), Before(f) + (k + 1))
<1>1. /\ f \in Inodes /\ Before(f) \in Nat /\ Len(content[f]) \in Nat
      /\ Before(f) + Len(content[f]) <= MaxLines
  BY KeptFile
<1>2. k + 1 \in 1 .. Len(content[f]) /\ content[f][k + 1] \in 1 .. MaxLines
  BY <1>1, LineThere
<1>3. content[f][k + 1] = (Before(f) + k) + 1
  <2>1. content[f][k + 1] = Before(f) + (k + 1)
    BY <1>2 DEF FilesInv
  <2>2. QED
    BY <2>1, <1>1
<1>4. counted \in Seq(1 .. MaxLines) /\ taken \in Seq(1 .. MaxLines)
  BY DEF LogTypes, LogTypeOK
<1>5. counted \o taken \in Seq(1 .. MaxLines)
  BY <1>4, ConcatProperties
<1>6. Before(f) + k \in Nat /\ (Before(f) + k) + 1 <= MaxLines
  BY <1>1, LogAssumption
<1>7. InOrder((counted \o taken) \o Parsed((Before(f) + k) + 1), (Before(f) + k) + 1)
  BY <1>5, <1>6, NextInOrder
<1>8. Parsed(content[f][k + 1]) \in Seq(1 .. MaxLines)
  BY <1>2, ParsedType
<1>9. (counted \o taken) \o Parsed(content[f][k + 1])
        = counted \o (taken \o Parsed(content[f][k + 1]))
  BY <1>4, <1>8, LogAssociative
<1>10. (Before(f) + k) + 1 = Before(f) + (k + 1)
  BY <1>1
<1>11. QED
  BY <1>3, <1>7, <1>9, <1>10

\* While nginx and logrotate do nothing the files stay as they are.
LEMMA SameFiles ==
    ASSUME UNCHANGED <<content, lines, log, old, writer>>
    PROVE  /\ FilesInv => FilesInv'
           /\ Kept' = Kept
           /\ \A f : Before(f)' = Before(f)
           /\ UNCHANGED table /\ RowInv => RowInv'
<1>1. Kept' = Kept /\ \A f : Before(f)' = Before(f)
  BY DEF Kept, Before
<1>2. FilesInv => FilesInv'
  BY <1>1 DEF FilesInv
<1>3. UNCHANGED table /\ RowInv => RowInv'
  BY <1>1 DEF RowInv, table
<1>4. QED
  BY <1>1, <1>2, <1>3

\* The first pass finds one file, with all the lines in it.
LEMMA FollowInit == LogInit => FilesInv /\ RowInv /\ PassInv
<1> SUFFICES ASSUME LogInit PROVE FilesInv /\ RowInv /\ PassInv
  OBVIOUS
<1>1. /\ log \in Inodes /\ writer = log /\ old = NoFile /\ log # NoFile
      /\ lines = 0 /\ content[writer] = <<>> /\ Len(content[writer]) = 0
      /\ row.inode = NoFile /\ row.offset = 0 /\ counted = <<>> /\ taken = <<>>
      /\ pass = "idle"
  BY LogAssumption DEF LogInit, NoRow
<1>2. FilesInv
  BY <1>1 DEF FilesInv, Kept, Before
<1>3. RowInv /\ PassInv
  BY <1>1 DEF RowInv, PassInv
<1>4. QED
  BY <1>2, <1>3

\* What nginx and logrotate do leaves the row, and the pass, where they are.
LEMMA NginxFollows ==
    ASSUME LogInv, LogTypes', EachFileRead, BeginLine \/ EndLine \/ Rotate \/ Reopen
    PROVE  FilesInv' /\ RowInv' /\ PassInv'
<1> USE DEF LogInv
<1>0. UNCHANGED <<row, counted, pass, fd, pos, oldFd, oldPos, taken, due>>
  BY DEF BeginLine, EndLine, Rotate, Reopen, table, locals
<1>1. CASE BeginLine
  <2>1. UNCHANGED <<content, lines, log, old, writer>>
    BY <1>1 DEF BeginLine
  <2>2. FilesInv' /\ RowInv' /\ Kept' = Kept /\ \A f : Before(f)' = Before(f)
    BY <1>0, <2>1, SameFiles DEF table
  <2>3. PassInv'
    BY <1>0, <2>1, <2>2 DEF PassInv
  <2>4. QED
    BY <2>2, <2>3
<1>2. CASE EndLine
  <2>1. /\ UNCHANGED <<log, old, writer>> /\ lines' = lines + 1 /\ lines \in Nat
        /\ writer \in Inodes /\ content \in [Inodes -> Seq(1 .. MaxLines)]
        /\ content' = [content EXCEPT ![writer] = Append(content[writer], lines + 1)]
        /\ lines + 1 \in 1 .. MaxLines /\ writer \in Kept /\ Kept' = Kept
    <3>1. /\ UNCHANGED <<log, old, writer>> /\ lines' = lines + 1
          /\ content' = [content EXCEPT ![writer] = Append(content[writer], lines + 1)]
          /\ half
      BY <1>2 DEF EndLine
    <3>2. /\ writer \in Inodes /\ content \in [Inodes -> Seq(1 .. MaxLines)]
          /\ lines \in 0 .. MaxLines /\ lines < MaxLines
      BY <3>1 DEF LogTypes, LogTypeOK, FileTypes
    <3>3. lines \in Nat /\ lines + 1 \in 1 .. MaxLines
      BY <3>2, LogAssumption
    <3>4. writer \in Kept /\ Kept' = Kept
      BY <3>1, <3>2, LogAssumption DEF Kept
    <3>5. QED
      BY <3>1, <3>2, <3>3, <3>4
  <2>2. /\ Len(content'[writer]) = Len(content[writer]) + 1
        /\ \A k \in 1 .. Len(content[writer]) : content'[writer][k] = content[writer][k]
        /\ content'[writer][Len(content[writer]) + 1] = lines + 1
        /\ Len(content[writer]) \in Nat /\ Len(content[writer]) <= lines
    BY <2>1, KeptFile, AppendProperties
  <2>3. \A f \in Kept \ {writer} : content'[f] = content[f]
    BY <2>1, KeptFile
  <2>4. \A f \in Kept : Before(f)' = Before(f) /\ Before(f) \in Nat
    <3>1. ASSUME NEW f \in Kept PROVE Before(f)' = Before(f) /\ Before(f) \in Nat
      <4>1. CASE f = writer
        BY <2>1, <2>2, <4>1, KeptFile DEF Before
      <4>2. CASE f # writer
        <5>1. Len(content[f]) \in Nat /\ Len(content'[f]) = Len(content[f])
          BY <2>3, <4>2, KeptFile
        <5>2. QED
          <6>1. Before(f) = lines - Len(content[writer]) - Len(content[f])
            BY <4>2 DEF Before
          <6>2. Before(f)' = (lines + 1) - (Len(content[writer]) + 1) - Len(content[f])
            BY <2>1, <2>2, <4>2, <5>1 DEF Before
          <6>3. Before(f) \in Nat
            BY KeptFile
          <6>4. QED
            BY <2>1, <2>2, <5>1, <6>1, <6>2, <6>3
      <4>3. QED
        BY <4>1, <4>2
    <3>2. QED
      BY <3>1
  <2>5. FilesInv'
    <3>1. \A k \in 1 .. Len(content'[writer]) : content'[writer][k] = Before(writer) + k
      <4>1. Before(writer) + (Len(content[writer]) + 1) = lines + 1
        BY <2>1, <2>2 DEF Before
      <4>2. \A k \in 1 .. Len(content[writer]) : content[writer][k] = Before(writer) + k
        BY <2>1 DEF FilesInv
      <4>3. QED
        BY <2>2, <4>1, <4>2
    <3>2. QED
      BY <2>1, <2>3, <2>4, <3>1 DEF FilesInv
  <2>6. \A f \in Kept : Len(content[f]) \in Nat /\ Len(content'[f]) \in Nat
                        /\ Len(content[f]) <= Len(content'[f])
    <3>1. \A f \in Kept : Len(content[f]) \in Nat
      BY KeptFile
    <3>2. QED
      BY <2>2, <2>3, <3>1
  <2>7. RowInv'
    <3>1. row.offset \in Nat
      BY DEF LogTypes, LogTypeOK
    <3>2. CASE row.inode = NoFile
      BY <1>0, <2>1, <2>2, <3>2 DEF RowInv
    <3>3. CASE row.inode # NoFile
      BY <1>0, <2>1, <2>4, <2>6, <3>1, <3>3 DEF RowInv
    <3>4. QED
      BY <3>2, <3>3
  <2>8. PassInv'
    <3>1. pos \in Nat /\ oldPos \in Nat /\ due \in Nat
      BY DEF LogTypes, LogTypeOK
    <3>2. pass # "idle" =>
            pos <= Len(content'[fd]) /\ due <= Before(fd) + Len(content'[fd])
      BY <2>4, <2>6, <3>1 DEF PassInv
    <3>3. pass = "old" => oldPos <= Len(content'[old]) /\ old \in Kept
      BY <2>6, <3>1 DEF PassInv, Kept
    <3>4. QED
      BY <1>0, <2>1, <2>4, <3>2, <3>3 DEF PassInv
  <2>9. QED
    BY <2>5, <2>7, <2>8
<1>3. CASE Rotate
  <2>1. /\ log # NoFile /\ row.inode = log /\ log = writer /\ old # writer
        /\ old' = writer /\ log' = NoFile /\ UNCHANGED <<content, lines, writer>>
        /\ writer \in Kept
    BY <1>3, KeptFile DEF Rotate, FilesInv, Kept, LogTypes, LogTypeOK
  <2>2. Kept' = {writer} /\ Before(writer)' = Before(writer)
    BY <2>1 DEF Kept, Before
  <2>3. FilesInv'
    BY <2>1, <2>2 DEF FilesInv
  <2>4. RowInv'
    BY <1>0, <2>1, <2>2 DEF RowInv
  <2>5. PassInv'
    <3>1. pass # "idle" => fd = writer
      BY <2>1 DEF PassInv
    <3>2. pass \notin {"stat", "open", "old"}
      BY <2>1 DEF PassInv
    <3>3. QED
      BY <1>0, <2>1, <2>2, <3>1, <3>2 DEF PassInv
  <2>6. QED
    BY <2>3, <2>4, <2>5
<1>4. CASE Reopen
  <2>1. /\ log = NoFile /\ old = writer /\ writer \in Kept /\ Kept = {old}
        /\ UNCHANGED <<lines, old>>
    BY <1>4, LogAssumption DEF Reopen, FilesInv, Kept, LogTypes, LogTypeOK
  <2>2. /\ log' = writer' /\ writer' \in Inodes /\ writer' \notin {old, fd, oldFd}
        /\ writer' # NoFile
        /\ content'[writer'] = <<>> /\ content'[old] = content[old]
    BY <1>4, <2>1, LogAssumption DEF Reopen, LogTypes, LogTypeOK
  <2>3. Kept' = {writer', old} /\ Len(content'[writer']) = 0
    BY <2>1, <2>2 DEF Kept
  <2>4. Before(old)' = Before(old) /\ Before(old) \in Nat /\ Before(writer)' = lines
    <3>1. lines \in Nat /\ Len(content[old]) \in Nat /\ Before(old) \in Nat
      BY <2>1, KeptFile
    <3>2. Before(old) = lines - Len(content[old])
      BY <2>1 DEF Before
    <3>3. Before(old)' = lines - 0 - Len(content[old])
      BY <2>1, <2>2, <2>3 DEF Before
    <3>4. Before(writer)' = lines - 0
      BY <2>1, <2>3 DEF Before
    <3>5. QED
      BY <3>1, <3>2, <3>3, <3>4
  <2>5. FilesInv'
    <3>1. \A k \in 1 .. Len(content'[old]) : content'[old][k] = Before(old)' + k
      BY <2>1, <2>2, <2>4 DEF FilesInv
    <3>2. \A k \in 1 .. Len(content'[writer']) : content'[writer'][k] = Before(writer)' + k
      BY <2>3
    <3>3. lines \in Nat
      BY <2>1, KeptFile
    <3>4. QED
      <4>1. \A f \in Kept' : Before(f)' \in Nat
        BY <2>1, <2>2, <2>3, <2>4, <3>3 DEF Before
      <4>2. \A f \in Kept' : \A k \in 1 .. Len(content'[f]) : content'[f][k] = Before(f)' + k
        BY <2>1, <2>2, <2>3, <3>1, <3>2
      <4>3. QED
        BY <2>1, <2>2, <4>1, <4>2 DEF FilesInv
  <2>6. RowInv'
    <3>1. row.inode = old
      BY <2>1, KeptFile DEF RowInv
    <3>2. old # NoFile /\ old \in Kept'
      BY <2>1, <2>3, KeptFile
    <3>3. QED
      BY <1>0, <2>1, <2>2, <2>4, <3>1, <3>2 DEF RowInv
  <2>7. PassInv'
    <3>1. pass # "idle" => fd = old /\ row.inode = fd
      BY <2>1, KeptFile DEF PassInv
    <3>2. pass \notin {"stat", "open", "old"}
      BY <2>1, <3>1, KeptFile DEF PassInv
    <3>3. QED
      BY <1>0, <2>1, <2>2, <2>3, <2>4, <3>1, <3>2 DEF PassInv
  <2>8. QED
    BY <2>5, <2>6, <2>7
<1>5. QED
  BY <1>1, <1>2, <1>3, <1>4

\* Each step of a pass reads on where the row, or the step before, left off.
LEMMA IngestFollows ==
    ASSUME LogInv, Ingest \/ Kill
    PROVE  FilesInv' /\ RowInv' /\ PassInv'
<1> USE DEF LogInv
<1>1. UNCHANGED <<content, lines, log, old, writer>>
  BY DEF Ingest, Open, StatOld, OpenOld, ReadOld, ReadLine, Commit, Kill, nginx
<1>2. /\ FilesInv' /\ Kept' = Kept /\ \A f : Before(f)' = Before(f)
      /\ UNCHANGED table => RowInv'
  BY <1>1, SameFiles
<1>3. /\ pos \in Nat /\ oldPos \in Nat /\ row.offset \in Nat /\ log \in Inodes \cup {NoFile}
      /\ counted \in Seq(1 .. MaxLines) /\ taken \in Seq(1 .. MaxLines)
  BY DEF LogTypes, LogTypeOK
<1>4. counted \o <<>> = counted
  BY <1>3, ConcatEmptySeq
<1>5. CASE Open
  <2>1. /\ pass = "idle" /\ log # NoFile /\ log = writer /\ log \in Kept
        /\ fd' = log /\ due' = lines /\ UNCHANGED <<row, counted, taken>>
    BY <1>3, <1>5 DEF Open, table, FilesInv, Kept
  <2>2. Before(log) + Len(content[log]) = lines /\ Len(content[log]) \in Nat
        /\ Before(log) \in Nat
    BY <2>1, KeptFile
  <2>3. CASE row.inode = log
    <3>1. pos' = row.offset /\ pass' = "read" /\ row.offset <= Len(content[log])
      BY <1>5, <2>1, <2>3 DEF Open, RowInv
    <3>2. InOrder(counted' \o taken', Before(fd') + pos')
      BY <1>4, <2>1, <2>3, <3>1 DEF RowInv, PassInv
    <3>3. PassInv'
      BY <1>1, <1>2, <2>1, <2>2, <3>1, <3>2 DEF PassInv
    <3>4. QED
      BY <1>2, <2>1, <3>3 DEF table
  <2>4. CASE row.inode = NoFile
    <3>1. pos' = 0 /\ pass' = "read"
      BY <1>5, <2>1, <2>4 DEF Open
    <3>2. counted \o taken = <<>> /\ Before(log) + 0 = 0
      BY <1>4, <2>1, <2>2, <2>4 DEF RowInv, PassInv
    <3>3. InOrder(counted' \o taken', Before(fd') + pos')
      BY <2>1, <3>1, <3>2, NoneInOrder
    <3>4. PassInv'
      BY <1>1, <1>2, <2>1, <2>2, <3>1, <3>3 DEF PassInv
    <3>5. QED
      BY <1>2, <2>1, <3>4 DEF table
  <2>5. CASE row.inode \notin {NoFile, log}
    <3>1. pos' = 0 /\ pass' = "stat"
      BY <1>5, <2>5 DEF Open
    <3>2. row.inode = old /\ old # NoFile /\ taken = <<>>
      BY <2>1, <2>5 DEF RowInv, Kept, PassInv
    <3>3. PassInv'
      BY <1>1, <1>2, <2>1, <2>2, <3>1, <3>2 DEF PassInv
    <3>4. QED
      BY <1>2, <2>1, <3>3 DEF table
  <2>6. QED
    BY <2>3, <2>4, <2>5
<1>6. CASE StatOld
  <2>1. UNCHANGED <<row, counted, fd, pos, oldFd, oldPos, taken, due>> /\ pass' = "open"
    BY <1>6 DEF StatOld, table, PassInv
  <2>2. PassInv'
    BY <1>1, <1>2, <1>6, <2>1 DEF PassInv, StatOld
  <2>3. QED
    BY <1>2, <2>1, <2>2 DEF table
<1>7. CASE OpenOld
  <2>1. /\ UNCHANGED <<row, counted, fd, pos, taken, due>> /\ pass = "open" /\ pass' = "old"
        /\ oldFd' = old /\ oldPos' = row.offset
    BY <1>7 DEF OpenOld, table
  <2>2. /\ row.inode = old /\ old # NoFile /\ taken = <<>>
        /\ row.offset <= Len(content[old])
        /\ InOrder(counted, Before(old) + row.offset)
    BY <2>1 DEF PassInv, RowInv
  <2>3. PassInv'
    BY <1>1, <1>2, <1>4, <2>1, <2>2 DEF PassInv
  <2>4. QED
    BY <1>2, <2>1, <2>3 DEF table
<1>8. CASE ReadOld
  <2>1. /\ UNCHANGED <<row, counted, fd, pos, due>> /\ pass = "old"
        /\ row.inode = old /\ old # NoFile /\ oldFd = old /\ old \in Kept
        /\ fd = log /\ fd = writer /\ fd # NoFile /\ fd \in Kept /\ pos = 0
        /\ oldPos <= Len(content[old])
        /\ InOrder(counted \o taken, Before(old) + oldPos)
    BY <1>8 DEF ReadOld, table, PassInv, Kept
  <2>2. Len(content[old]) \in Nat /\ Before(old) \in Nat
    BY <2>1, KeptFile
  <2>3. CASE oldPos < Len(content[oldFd])
    <3>1. /\ UNCHANGED <<pass, oldFd>> /\ oldPos' = oldPos + 1
          /\ taken' = taken \o Parsed(content[old][oldPos + 1])
      BY <1>8, <2>1, <2>3 DEF ReadOld
    <3>2. InOrder(counted \o taken', Before(old) + oldPos')
      BY <1>3, <2>1, <2>3, <3>1, ReadsOn
    <3>3. oldPos' <= Len(content[old])
      BY <1>3, <2>1, <2>2, <2>3, <3>1
    <3>4. PassInv'
      BY <1>1, <1>2, <2>1, <3>1, <3>2, <3>3 DEF PassInv
    <3>5. QED
      BY <1>2, <2>1, <3>4 DEF table
  <2>4. CASE ~ (oldPos < Len(content[oldFd]))
    <3>1. pass' = "read" /\ UNCHANGED taken
      BY <1>8, <2>4 DEF ReadOld
    <3>2. oldPos = Len(content[old])
      BY <1>3, <2>1, <2>2, <2>4
    <3>3. Before(old) + oldPos = Before(fd) + pos
      <4>1. old # writer
        BY <2>1 DEF FilesInv
      <4>2. Before(writer) \in Nat
        BY <2>1, KeptFile
      <4>3. QED
        BY <2>1, <2>2, <3>2, <4>1, <4>2, KeptFile
    <3>4. PassInv'
      BY <1>1, <1>2, <2>1, <3>1, <3>3 DEF PassInv
    <3>5. QED
      BY <1>2, <2>1, <3>4 DEF table
  <2>5. QED
    BY <2>3, <2>4
<1>9. CASE ReadLine
  <2>1. /\ UNCHANGED <<row, counted, pass, fd, oldFd, oldPos, due>> /\ pass = "read"
        /\ pos < Len(content[fd]) /\ pos' = pos + 1
        /\ taken' = taken \o Parsed(content[fd][pos + 1])
        /\ fd \in Kept /\ InOrder(counted \o taken, Before(fd) + pos)
    BY <1>9 DEF ReadLine, table, PassInv
  <2>2. Len(content[fd]) \in Nat /\ pos' <= Len(content[fd])
    BY <1>3, <2>1, KeptFile
  <2>3. InOrder(counted \o taken', Before(fd) + pos')
    BY <1>3, <2>1, ReadsOn
  <2>4. PassInv'
    BY <1>1, <1>2, <2>1, <2>2, <2>3 DEF PassInv
  <2>5. QED
    BY <1>2, <2>1, <2>4 DEF table
<1>10. CASE Commit
  <2>1. /\ fd \in Kept /\ fd # NoFile /\ pos <= Len(content[fd])
        /\ row'.inode = fd /\ row'.offset = pos /\ counted' = counted \o taken
        /\ InOrder(counted \o taken, Before(fd) + pos)
        /\ pass' = "idle" /\ taken' = <<>>
    BY <1>10 DEF Commit, Forget, PassInv, Kept
  <2>2. RowInv'
    BY <1>1, <1>2, <2>1 DEF RowInv
  <2>3. PassInv'
    BY <2>1 DEF PassInv
  <2>4. QED
    BY <1>2, <2>2, <2>3
<1>11. CASE Kill
  <2>1. UNCHANGED table /\ pass' = "idle" /\ taken' = <<>>
    BY <1>11 DEF Kill, Forget
  <2>2. PassInv'
    BY <2>1 DEF PassInv
  <2>3. QED
    BY <1>2, <2>1, <2>2
<1>12. QED
  BY <1>5, <1>6, <1>7, <1>8, <1>9, <1>10, <1>11 DEF Ingest

\* The invariant, when logrotate only renames a log that some pass has read.
LEMMA LogInvariant == ASSUME EachFileRead PROVE LogSpec => []LogInv
<1>1. LogInit => LogInv
  BY LogTypesInit, FollowInit DEF LogInv
<1>2. LogInv /\ [LogNext]_logVars => LogInv'
  <2> SUFFICES ASSUME LogInv, [LogNext]_logVars PROVE LogInv'
    OBVIOUS
  <2>1. LogTypes'
    BY LogTypesNext DEF LogInv
  <2>2. CASE BeginLine \/ EndLine \/ Rotate \/ Reopen
    BY <2>1, <2>2, NginxFollows DEF LogInv
  <2>3. CASE Ingest \/ Kill
    BY <2>1, <2>3, IngestFollows DEF LogInv
  <2>4. CASE UNCHANGED logVars
    <3>1. /\ UNCHANGED <<content, lines, log, old, writer, row, counted>>
          /\ UNCHANGED <<pass, fd, pos, oldFd, oldPos, taken, due>>
      BY <2>4 DEF logVars, nginx, table, locals
    <3>2. FilesInv' /\ RowInv' /\ \A f : Before(f)' = Before(f) /\ Kept' = Kept
      BY <3>1, SameFiles DEF LogInv, table
    <3>3. PassInv'
      BY <3>1, <3>2 DEF LogInv, PassInv
    <3>4. QED
      BY <2>1, <3>2, <3>3 DEF LogInv
  <2>5. QED
    BY <2>2, <2>3, <2>4 DEF LogNext
<1>3. QED
  BY <1>1, <1>2, PTL DEF LogSpec

\* The counters follow the log, however many rotations, passes and kills: ingest
\* neither skips a line nor counts one again.
THEOREM LogFollowed == ASSUME EachFileRead PROVE LogSpec => []FollowsTheLog
<1>1. LogInv => FollowsTheLog
  <2> SUFFICES ASSUME LogInv PROVE FollowsTheLog
    OBVIOUS
  <2>1. lines \in Nat
    BY DEF LogInv, LogTypes, LogTypeOK
  <2>2. CASE row.inode = NoFile
    <3>1. 0 \in 0 .. lines /\ counted = <<>>
      BY <2>1, <2>2 DEF LogInv, RowInv
    <3>2. QED
      BY <3>1, NoneInOrder DEF FollowsTheLog
  <2>3. CASE row.inode # NoFile
    <3>1. /\ row.inode \in Kept /\ row.offset <= Len(content[row.inode]) /\ row.offset \in Nat
          /\ InOrder(counted, Before(row.inode) + row.offset)
      BY <2>3 DEF LogInv, RowInv, LogTypes, LogTypeOK
    <3>2. Before(row.inode) + row.offset \in 0 .. lines
      BY <2>1, <3>1, KeptFile DEF LogInv
    <3>3. QED
      BY <3>1, <3>2 DEF FollowsTheLog
  <2>4. QED
    BY <2>2, <2>3
<1>2. QED
  BY <1>1, LogInvariant, PTL

\* A pass that commits has counted all the lines that were there when it opened the
\* log, so that the plan of the same pass knows of those probes.
THEOREM PassesCurrent == ASSUME EachFileRead PROVE LogSpec => PassIsCurrent
<1> DEFINE Current ==
        pass = "read" /\ pass' = "idle" /\ kills' = kills =>
            \A l \in 1 .. due : l \in Bad \/ \E i \in DOMAIN counted' : counted'[i] = l
<1>1. LogInv /\ [LogNext]_logVars => [Current]_logVars
  <2> SUFFICES ASSUME LogInv, LogNext, pass = "read", pass' = "idle", kills' = kills,
                      NEW l \in 1 .. due, l \notin Bad
               PROVE  \E i \in DOMAIN counted' : counted'[i] = l
    OBVIOUS
  <2>1. kills \in Nat /\ pos \in Nat /\ due \in Nat
    BY DEF LogInv, LogTypes, LogTypeOK
  <2>2. Commit
    <3>1. ~ Kill
      BY <2>1 DEF Kill
    <3>2. ~ (BeginLine \/ EndLine \/ Rotate \/ Reopen \/ Open \/ StatOld \/ OpenOld
              \/ ReadOld \/ ReadLine)
      BY DEF BeginLine, EndLine, Rotate, Reopen, Open, StatOld, OpenOld, ReadOld, ReadLine,
             locals
    <3>3. QED
      BY <3>1, <3>2 DEF LogNext, Ingest
  <2>3. /\ fd \in Kept /\ due <= Before(fd) + Len(content[fd])
        /\ pos >= Len(content[fd]) /\ counted' = counted \o taken
        /\ InOrder(counted \o taken, Before(fd) + pos)
    BY <2>2 DEF Commit, LogInv, PassInv
  <2>4. l \in 1 .. (Before(fd) + pos)
    BY <2>1, <2>3, KeptFile DEF LogInv
  <2>5. QED
    BY <2>3, <2>4 DEF InOrder
<1>2. QED
  BY <1>1, LogInvariant, PTL DEF LogSpec, PassIsCurrent

=============================================================================
