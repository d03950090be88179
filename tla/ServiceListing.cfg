SPECIFICATION FairSpec
CONSTANTS
    u1 = u1
    u2 = u2
    n1 = n1
    n2 = n2
    Users = {u1, u2}
    Names = {n1}
    MaxRows = 1
    WizardTypes = {"NodePort", "StatefulSet"}
    Requests = {"configure", "deploy", "deployStatefulSet", "deleteStatefulSet", "cancel", "list"}
    Faults = {"createService", "push"}
    Overlap = TRUE
PROPERTIES
    StatusConverges
