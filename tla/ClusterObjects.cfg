SPECIFICATION Spec
SYMMETRY Symmetry
CONSTANTS
    c1 = c1
    c2 = c2
    owner = owner
    member = member
    Owner = owner
    Member = member
    Clients = {c1, c2}
    Probes <- AllProbes
    Ops <- AllOps
    Shared <- VersionedKinds
    Faults = {"call", "push", "refused"}
    MaxAsks = 4
    MaxOthers = 1
CHECK_DEADLOCK FALSE
INVARIANTS
    TypeOK
    AskedIsKept
    RepositoryHasObject
