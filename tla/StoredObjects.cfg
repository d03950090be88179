SPECIFICATION Spec
SYMMETRY Symmetry
CONSTANTS
    c1 = c1
    c2 = c2
    p1 = p1
    p2 = p2
    n1 = n1
    n2 = n2
    theCluster = theCluster
    Kinds = {"job", "pv", "pvc"}
    Places = {p1, p2}
    Cluster = theCluster
    Names = {n1}
    Clients = {c1, c2}
    Faults = {"call", "query"}
    Outsiders = TRUE
    MaxRows = 3
    MaxObjects = 2
    MaxAsks = 3
CHECK_DEADLOCK FALSE
INVARIANTS
    TypeOK
    ObjectsAreOwned
    RowsHaveTheirObject
