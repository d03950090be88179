SPECIFICATION Spec
SYMMETRY Symmetry
CONSTANTS
    c1 = c1
    c2 = c2
    n1 = n1
    n2 = n2
    g1 = g1
    blank_g1 = blank_g1
    master = master
    p1 = p1
    Nodes = {n1, n2}
    Groups = {g1, master}
    RawNames = {g1, blank_g1}
    Trim <- TrimSpace
    Reserved = {master}
    MasterLabels = {master}
    Masters = {n1}
    EdgeLabels = {g1}
    Pods = {p1}
    Clients = {c1, c2}
    Ops <- AllOps
    Faults = {"call", "list", "podDelete", "ssh"}
    MaxRows = 2
    MaxStarts = 3
    MaxForeign <- WritesToWorker
CHECK_DEADLOCK FALSE
INVARIANTS
    TypeOK
    AnsweredEditsStay
    DrainedNodesStayEmpty
    RemovedGroupsLeaveNoLabel
PROPERTIES
    ForeignNeverReverts
