------------------------------ MODULE AccessLog ------------------------------
(***************************************************************************)
(* accesslog.ingest follows nginx's log across rotations: nginx appends,   *)
(* logrotate renames the log to <log>.1 and tells nginx to open a new one, *)
(* and each pruner pass reads on from the inode and offset it committed    *)
(* last.  A line is its number in the order nginx wrote them; offsets      *)
(* count lines.                                                            *)
(***************************************************************************)
EXTENDS Naturals, Sequences

CONSTANTS
    Inodes,         \* inode numbers; one is free again when its file is gone
    NoFile,         \* no inode
    Bad,            \* lines parse_line refuses, or longer than MAX_LINE
    EachFileRead,   \* logrotate only renames a log that some pass has read
    MaxLines, MaxRotations, MaxKills    \* bounds

ASSUME LogAssumption ==
    /\ NoFile \notin Inodes
    /\ Bad \subseteq Nat
    /\ EachFileRead \in BOOLEAN
    /\ MaxLines \in Nat /\ MaxRotations \in Nat /\ MaxKills \in Nat

VARIABLES
    content,    \* the complete lines of each file
    lines,      \* how many there are in all
    half,       \* nginx has written a part of the next line
    log,        \* the file <log> names
    old,        \* the file <log>.1 names
    writer,     \* the file nginx has open
    row,        \* the ingest table, as [inode, offset]
    counted,    \* the lines in the hit counters, in the order they went in
    pass,       \* where the pass is
    fd, pos,    \* the log it opened, and how far it read
    oldFd, oldPos,
    taken,      \* the lines of its open transaction
    due,        \* history: how many lines there were when it opened the log
    rotations, kills

nginx  == <<content, lines, half, log, old, writer, rotations>>
table  == <<row, counted>>
locals == <<pass, fd, pos, oldFd, oldPos, taken, due>>
logVars == <<nginx, table, locals, kills>>

NoRow == [inode |-> NoFile, offset |-> 0]

\* What the lines read add to the counters: a bad line is skipped.
Parsed(line) == IF line \in Bad THEN <<>> ELSE <<line>>

-----------------------------------------------------------------------------
(* nginx and logrotate *)

BeginLine ==
    /\ lines < MaxLines
    /\ half' = TRUE
    /\ UNCHANGED <<content, lines, log, old, writer, rotations, table, locals, kills>>

EndLine ==
    /\ half
    /\ content' = [content EXCEPT ![writer] = Append(@, lines + 1)]
    /\ lines' = lines + 1
    /\ half' = FALSE
    /\ UNCHANGED <<log, old, writer, rotations, table, locals, kills>>

\* rename to <log>.1; nginx goes on writing to the file it has open ...
Rotate ==
    /\ log # NoFile
    /\ rotations < MaxRotations
    /\ EachFileRead => row.inode = log
    /\ old' = log
    /\ log' = NoFile
    /\ rotations' = rotations + 1
    /\ UNCHANGED <<content, lines, half, writer, table, locals, kills>>

\* ... until the signal reaches its one worker.
Reopen ==
    /\ log = NoFile
    /\ ~ half
    /\ \E i \in Inodes \ {old, writer, fd, oldFd} :
        /\ log' = i /\ writer' = i
        /\ content' = [content EXCEPT ![i] = <<>>]
    /\ UNCHANGED <<lines, half, old, rotations, table, locals, kills>>

-----------------------------------------------------------------------------
(* ingest *)

\* open, fstat, and the row; without a log there is nothing to do this time.
Open ==
    /\ pass = "idle"
    /\ log # NoFile
    /\ fd' = log
    /\ pos' = IF row.inode = log /\ row.offset <= Len(content[log]) THEN row.offset ELSE 0
    /\ pass' = IF row.inode \in {NoFile, log} THEN "read" ELSE "stat"
    /\ due' = lines
    /\ UNCHANGED <<nginx, table, oldFd, oldPos, taken, kills>>

\* Mutant of StatOld: never looks at <log>.1.
StatNothing ==
    /\ pass = "stat"
    /\ pass' = "read"
    /\ UNCHANGED <<nginx, table, fd, pos, oldFd, oldPos, taken, due, kills>>

\* rotated.stat(): is <log>.1 the file the row is about?
StatOld ==
    /\ pass = "stat"
    /\ pass' = IF old = row.inode THEN "open" ELSE "read"
    /\ UNCHANGED <<nginx, table, fd, pos, oldFd, oldPos, taken, due, kills>>

\* _read opens <log>.1 by its name, and reads on in whatever that is now.
OpenOld ==
    /\ pass = "open"
    /\ oldFd' = old /\ oldPos' = row.offset
    /\ pass' = "old"
    /\ UNCHANGED <<nginx, table, fd, pos, taken, due, kills>>

ReadOld ==
    /\ pass = "old"
    /\ IF oldPos < Len(content[oldFd])
       THEN /\ taken' = taken \o Parsed(content[oldFd][oldPos + 1])
            /\ oldPos' = oldPos + 1
            /\ UNCHANGED <<pass, oldFd>>
       ELSE /\ pass' = "read" /\ oldFd' = NoFile /\ oldPos' = 0
            /\ UNCHANGED taken
    /\ UNCHANGED <<nginx, table, fd, pos, due, kills>>

\* Mutant of ReadLine: takes the part of a line that is there for a bad line.
ReadPart ==
    /\ pass = "read"
    /\ IF pos < Len(content[fd])
       THEN taken' = taken \o Parsed(content[fd][pos + 1])
       ELSE pos = Len(content[fd]) /\ half /\ writer = fd /\ UNCHANGED taken
    /\ pos' = pos + 1
    /\ UNCHANGED <<nginx, table, pass, fd, oldFd, oldPos, due, kills>>

\* Mutant of ReadLine: does not see the end of the file.
ReadOn ==
    /\ pass = "read"
    /\ taken' = IF pos < Len(content[fd]) THEN taken \o Parsed(content[fd][pos + 1]) ELSE taken
    /\ pos' = pos + 1
    /\ UNCHANGED <<nginx, table, pass, fd, oldFd, oldPos, due, kills>>

\* Complete lines only: an incomplete one is left for the next pass.
ReadLine ==
    /\ pass = "read"
    /\ pos < Len(content[fd])
    /\ taken' = taken \o Parsed(content[fd][pos + 1])
    /\ pos' = pos + 1
    /\ UNCHANGED <<nginx, table, pass, fd, oldFd, oldPos, due, kills>>

Forget ==
    /\ pass' = "idle"
    /\ fd' = NoFile /\ pos' = 0 /\ oldFd' = NoFile /\ oldPos' = 0
    /\ taken' = <<>> /\ due' = 0

\* Mutant of Commit: the counters go in, the position does not.
CommitCounters ==
    /\ pass = "read"
    /\ pos >= Len(content[fd])
    /\ counted' = counted \o taken
    /\ Forget
    /\ UNCHANGED <<nginx, row, kills>>

\* At the end of the log counters and position are committed together.
Commit ==
    /\ pass = "read"
    /\ pos >= Len(content[fd])
    /\ row' = [inode |-> fd, offset |-> pos]
    /\ counted' = counted \o taken
    /\ Forget
    /\ UNCHANGED <<nginx, kills>>

\* A kill or an exception rolls the transaction back.
Kill ==
    /\ pass # "idle"
    /\ kills < MaxKills
    /\ kills' = kills + 1
    /\ Forget
    /\ UNCHANGED <<nginx, table>>

-----------------------------------------------------------------------------
LogInit ==
    /\ \E i \in Inodes : log = i
    /\ writer = log /\ old = NoFile
    /\ content = [i \in Inodes |-> <<>>] /\ lines = 0 /\ half = FALSE
    /\ row = NoRow /\ counted = <<>>
    /\ pass = "idle" /\ fd = NoFile /\ pos = 0 /\ oldFd = NoFile /\ oldPos = 0
    /\ taken = <<>> /\ due = 0
    /\ rotations = 0 /\ kills = 0

Ingest == Open \/ StatOld \/ OpenOld \/ ReadOld \/ ReadLine \/ Commit

LogNext == BeginLine \/ EndLine \/ Rotate \/ Reopen \/ Ingest \/ Kill

\* The timer keeps starting passes, nginx completes what it began and answers
\* the signal; nobody owes us requests.
LogSpec ==
    /\ LogInit /\ [][LogNext]_logVars
    /\ WF_logVars(Ingest) /\ WF_logVars(EndLine) /\ WF_logVars(Reopen)

-----------------------------------------------------------------------------
LogTypeOK ==
    /\ content \in [Inodes -> Seq(1 .. MaxLines)]
    /\ lines \in 0 .. MaxLines /\ half \in BOOLEAN
    /\ log \in Inodes \cup {NoFile} /\ old \in Inodes \cup {NoFile} /\ writer \in Inodes
    /\ row \in [inode : Inodes \cup {NoFile}, offset : 0 .. MaxLines]
    /\ counted \in Seq(1 .. MaxLines) /\ taken \in Seq(1 .. MaxLines)
    /\ pass \in {"idle", "stat", "open", "old", "read"}
    /\ fd \in Inodes \cup {NoFile} /\ pos \in 0 .. MaxLines
    /\ oldFd \in Inodes \cup {NoFile} /\ oldPos \in 0 .. MaxLines
    /\ due \in 0 .. MaxLines
    /\ rotations \in Nat /\ kills \in Nat

\* s is the first n lines in their order, without the bad ones.
InOrder(s, n) ==
    /\ {s[i] : i \in DOMAIN s} = (1 .. n) \ Bad
    /\ \A i, k \in DOMAIN s : i < k => s[i] < s[k]

\* The counters hold the lines nginx wrote, each once and in order, up to some
\* point: nothing is skipped at a rotation, in the middle of a line or after a
\* kill, and nothing is counted again (accesslog.ingest).
FollowsTheLog == \E n \in 0 .. lines : InOrder(counted, n)

\* A pass that commits has counted every line there was when it opened the log:
\* retention sees the probes that were logged before it.
PassIsCurrent ==
    [][pass = "read" /\ pass' = "idle" /\ kills' = kills =>
        \A l \in 1 .. due : l \in Bad \/ \E i \in DOMAIN counted' : counted'[i] = l]_logVars

\* Every line is counted in the end.
LinesCounted ==
    \A l \in 1 .. MaxLines : lines >= l ~> (l \in Bad \/ \E i \in DOMAIN counted : counted[i] = l)

=============================================================================
