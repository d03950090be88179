SPECIFICATION Spec
CONSTANTS
    n1 = n1
    n2 = n2
    Users = {1, 2}
    SysAdmins = {1}
    AdminId = 1
    ProjectIds = {2, 3}
    Names = {n1}
    Requests = {"create", "delete", "addMember", "removeMember", "deploy", "undeploy", "restart"}
    Faults = {"namespace", "repo", "deploy", "undeploy"}
    Overlap = FALSE
SYMMETRY NameSymmetry
INVARIANTS
    TypeOK
    LiveNamesUnique
    KeptProjectsHaveNamespace
PROPERTIES
    ServicesKeepNamespace
