SPECIFICATION Spec
SYMMETRY Symmetry
CONSTANTS
    u1 = u1
    u2 = u2
    c1 = c1
    c2 = c2
    p1 = p1
    p2 = p2
    None = None
    Users = {u1, u2}
    Clients = {c1, c2}
    Tabs <- TwoTabs
    Projects = {p1, p2}
    Names = {"n"}
    ContainerLists = {{"web"}}
    InitLists = {{"init"}}
    ExternalLists = {{"web"}}
    Types = {"normal", "stateful", "edge"}
    Phases <- AllPhases
    MaxAsks = 3
    MaxRows = 2
CHECK_DEADLOCK FALSE
INVARIANTS
    TypeOK
    EnteredIsDeployed
    NamesAreUnique
PROPERTY
    UndoRemovesOwn
