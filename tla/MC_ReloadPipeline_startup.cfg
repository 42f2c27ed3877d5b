CONSTANTS
    f1 = f1
    f2 = f2
    cA = cA
    cB = cB
    cBad = cBad
    Files <- MCFiles
    Contents <- MCContents
    Valid <- MCValid
    MaxEdits = 4

SPECIFICATION Spec
\* The reload task blocks in recv once the bounded edits are used up.
CHECK_DEADLOCK FALSE

INVARIANT ServesNewestAfterStartup
