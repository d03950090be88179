SPECIFICATION Spec
CONSTANTS
    c1 = c1
    c2 = c2
    admin = admin
    dev = dev
    p1 = p1
    p2 = p2
    n1 = n1
    n2 = n2
    web = web
    db = db
    museum = museum
    None = None
    Clients = {c1, c2}
    Users = {admin, dev}
    Admin = admin
    Projects = {p1, p2}
    Members <- MCMembers
    Owner <- MCOwner
    Names = {n1}
    Repositories = {museum}
    Museums = {museum}
    Charts <- MCCharts
    Services = {web, db}
    MaxAsks = 3
    MaxIds = 6
    MaxFaults = 1
SYMMETRY Symmetry
INVARIANTS
    TypeOK
    ReleasesAreRecorded
    HelmServicesAreDeletable
    ReleasesAreUnique
    PagesCoverIndex
CHECK_DEADLOCK FALSE
