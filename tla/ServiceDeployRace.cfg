SPECIFICATION Spec
CONSTANTS
    u1 = u1
    u2 = u2
    n1 = n1
    n2 = n2
    Users = {u1, u2}
    Names = {n1}
    MaxRows = 3
    WizardTypes = {"NodePort", "StatefulSet"}
    Requests = {"configure", "deploy", "deployStatefulSet", "list"}
    Faults = {"createWorkload", "createService", "push", "getWorkload", "getService"}
    Overlap = TRUE
SYMMETRY Symmetry
INVARIANTS
    DeployAllOrNothing
PROPERTIES
    PreparingIsPrivate
