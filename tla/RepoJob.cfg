SPECIFICATION FairSpec
CONSTANTS
    c1 = c1
    c2 = c2
    n1 = n1
    n2 = n2
    Calls = {c1, c2}
    Names = {n1, n2}
    Failures = {"repo", "hook", "file"}
CHECK_DEADLOCK FALSE
INVARIANTS
    JobTypeOK
    ErrorMeansFailedCall
PROPERTIES
    EveryCallEnds
