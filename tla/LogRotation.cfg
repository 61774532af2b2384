\* Two rotations, a pass between them, one kill, four lines.
CONSTANTS
    Inodes = {1, 2, 3}
    NoFile = 0
    Bad <- MCBad
    EachFileRead = TRUE
    MaxLines = 4
    MaxRotations = 2
    MaxKills = 1
SPECIFICATION LogSpec
INVARIANTS
    LogTypeOK
    FollowsTheLog
PROPERTIES
    PassIsCurrent
    LinesCounted
CHECK_DEADLOCK FALSE
