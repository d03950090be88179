SPECIFICATION Spec
CONSTANTS
    u1 = u1
    u2 = u2
    n1 = n1
    n2 = n2
    Users = {u1, u2}
    Names = {n1}
    MaxRows = 2
    WizardTypes = {"NodePort", "Edge"}
    Requests = {"configure", "deploy", "upload", "toggle", "delete", "list", "import", "autoscale", "autoscaleAcross"}
    Faults = {"createWorkload", "createService", "push", "deleteWorkload", "deleteService", "getWorkload", "getService", "hpa"}
    Overlap = FALSE
INVARIANTS
    TypeOK
    ClusterObjectsAreOwned
    HpasAreOwned
PROPERTIES
    RowsImplemented
