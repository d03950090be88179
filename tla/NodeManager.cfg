SPECIFICATION Spec
SYMMETRY Symmetry
CONSTANTS
    a1 = a1
    a2 = a2
    n1 = n1
    n2 = n2
    Ips = {n1}
    Admins = {a1, a2}
    MaxLogs = 2
    MaxTime = 2
    Requests = {"add", "remove", "deleteRunningLog", "apiServer"}
    Faults = {"config", "ssh", "launch", "callback", "updateLog", "nodeStatus", "deleteNode"}
    Overlap = FALSE
CHECK_DEADLOCK FALSE
INVARIANTS
    TypeOK
    OneActionPerNode
    LockHasOwner
    StatusFollowsReports
    StatusInCluster
    LogsGetCompleted
