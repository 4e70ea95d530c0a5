CONSTANTS
    N = 3
    Variables = {v}
SPECIFICATION FairSpec
CHECK_DEADLOCK FALSE
INVARIANTS
    TypeOK
    Solved
    FindsLivePaths
PROPERTY
    Terminates
