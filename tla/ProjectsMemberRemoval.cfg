SPECIFICATION Spec
CONSTANTS
    n1 = n1
    n2 = n2
    Users = {1, 2}
    SysAdmins = {1}
    AdminId = 1
    ProjectIds = {2, 3}
    Names = {n1, n2}
    Requests = {"create", "addMember", "removeMember"}
    Faults = {}
    Overlap = FALSE
PROPERTIES
    RemovalIsLocal
