--------------------------- MODULE ServiceLifecycle ---------------------------
(***************************************************************************)
(* The services of one project: the rows of table service_status and the   *)
(* objects of the project's Kubernetes namespace that the handlers of      *)
(* v1/controller/service.go create and delete.                             *)
(*                                                                         *)
(* Every HTTP request runs in a goroutine of its own and takes no lock; it *)
(* talks to the database, the cluster and the git server one call at a     *)
(* time.  A request is therefore a small process: the action that begins   *)
(* it reads the row (or the cached wizard step), and each later action is  *)
(* one call.  An error aborts the request: CustomAbort panics, so nothing  *)
(* after it runs and nothing done before it is undone.                     *)
(*                                                                         *)
(* The repository is the GitLab one (make/board.cfg:23).  Its content is   *)
(* data: whether a yaml file is found and is usable when a service is      *)
(* started is a nondeterministic choice.                                   *)
(***************************************************************************)
EXTENDS Integers, FiniteSets

CONSTANTS
    Users,        \* clients; one request of a client at a time
    Names,        \* service names
    MaxRows,      \* bound: rows ever inserted (ids are auto-incremented)
    WizardTypes,  \* service types the wizard is given
    Requests,     \* the requests clients send
    Faults,       \* the remote calls that may fail
    Overlap       \* may requests of different clients overlap?

RequestKinds ==
    {"configure", "deploy", "deployStatefulSet", "upload", "toggle", "delete",
     "deleteStatefulSet", "cancel", "list", "import", "autoscale",
     "autoscaleAcross"}

CallNames ==
    {"createWorkload", "createService", "undo", "fetchService", "push",
     "startPush", "deleteWorkload", "deleteService", "getWorkload",
     "getService", "hpa"}

ASSUME ConstantsAssumption ==
    /\ MaxRows \in Nat
    /\ WizardTypes \subseteq {"NodePort", "Edge", "StatefulSet"}
    /\ Requests \subseteq RequestKinds
    /\ Faults \subseteq CallNames
    /\ Overlap \in BOOLEAN
    /\ "" \notin Names

VARIABLES
    live,    \* ids of the rows of service_status
    row,     \* id -> name, type and status of the row
    nextId,  \* the auto-increment counter
    dep,     \* name -> state of the Deployment of that name
    sts,     \* name -> state of the StatefulSet of that name
    svc,     \* names of the k8s Services
    hpaDb,   \* the records of service_auto_scale: <<id of the service, name>>
    hpaK8s,  \* names of the HorizontalPodAutoscalers
    strayed, \* those whose record went through a service of another project
    step,    \* user -> the wizard's ConfigServiceStep in the memory cache
    pc,      \* user -> the call its request makes next
    req,     \* user -> the local variables of its request
    todo     \* user -> rows of the list snapshot syncK8sStatus has still to visit

dbVars   == <<live, row, nextId>>
k8sVars  == <<dep, sts, svc>>
hpaVars  == <<hpaDb, hpaK8s, strayed>>
procVars == <<pc, req, todo>>
vars     == <<dbVars, k8sVars, hpaVars, step, procVars>>

-----------------------------------------------------------------------------
RowIds == 1..MaxRows

Statuses == {"preparing", "running", "stopped", "uncompleted", "unknown",
             "autonomousOffline"}

\* "Unknown" is the zero value, the type of an imported row; ClusterIP
\* services are handled exactly as NodePort ones.
Types == {"Unknown", "NodePort", "Edge", "StatefulSet"}

Row == [name : Names \cup {""}, type : Types, status : Statuses]

NullRow == [name |-> "", type |-> "Unknown", status |-> "preparing"]

ConfigServiceStep == [name : Names \cup {""}, type : Types]

NoStep == [name |-> "", type |-> "Unknown"]

\* A deployment is deleted in the foreground: it stays, terminating, until
\* its pods are gone.  "created": no pod yet, so Status.Replicas is 0.
WorkloadStates == {"absent", "created", "pending", "ready", "terminating"}

LiveStates == {"created", "pending", "ready"}

PCs == {"idle", "createWorkload", "createService", "undo", "push", "mark",
        "deleteWorkload", "deleteService", "markStopped", "hpaList",
        "hpaDelete", "hpaDeleteDb", "deleteRow", "cancelRow", "cancelStep", "hpaCreate",
        "hpaInsert", "sync", "syncService", "syncWrite", "import"}

Ops == {"none", "deploy", "deployStatefulSet", "start", "stop", "delete",
        "deleteStatefulSet", "cancel", "list", "import", "hpaCreate",
        "hpaDelete", "hpaServiceElsewhere", "hpaRuleElsewhere"}

Request == [op : Ops, id : RowIds \cup {0}, name : Names \cup {""},
            type : Types, status : Statuses,
            seen : {"none", "nil", "short", "full"}, names : SUBSET Names,
            rule : Names \cup {""}]

NullRequest == [op |-> "none", id |-> 0, name |-> "", type |-> "Unknown",
                status |-> "preparing", seen |-> "none", names |-> {},
                rule |-> ""]

TypeOK ==
    /\ live \subseteq RowIds
    /\ row \in [RowIds -> Row]
    /\ nextId \in 1..(MaxRows + 1)
    /\ dep \in [Names -> WorkloadStates]
    /\ sts \in [Names -> WorkloadStates]
    /\ svc \subseteq Names
    /\ hpaDb \subseteq RowIds \X Names
    /\ hpaK8s \subseteq Names
    /\ strayed \subseteq Names
    /\ step \in [Users -> ConfigServiceStep]
    /\ pc \in [Users -> PCs]
    /\ req \in [Users -> Request]
    /\ todo \in [Users -> SUBSET (RowIds \X Statuses)]

Init ==
    /\ live = {}
    /\ row = [id \in RowIds |-> NullRow]
    /\ nextId = 1
    /\ dep = [n \in Names |-> "absent"]
    /\ sts = [n \in Names |-> "absent"]
    /\ svc = {}
    /\ hpaDb = {}
    /\ hpaK8s = {}
    /\ strayed = {}
    /\ step = [u \in Users |-> NoStep]
    /\ pc = [u \in Users |-> "idle"]
    /\ req = [u \in Users |-> NullRequest]
    /\ todo = [u \in Users |-> {}]

-----------------------------------------------------------------------------
(* Helpers: the handler's control, the table and the cluster. *)

Idle(u) == pc[u] = "idle"

\* Another request may begin whatever the others do, unless the instance
\* looks at requests that never overlap.
Free(u) == Idle(u) /\ (Overlap \/ \A v \in Users : Idle(v))

Begin(u, p, r) ==
    /\ pc' = [pc EXCEPT ![u] = p]
    /\ req' = [req EXCEPT ![u] = r]

Goto(u, p) == pc' = [pc EXCEPT ![u] = p] /\ UNCHANGED <<req, todo>>

\* The request ends, with a reply or with CustomAbort's panic.
Return(u) ==
    /\ pc' = [pc EXCEPT ![u] = "idle"]
    /\ req' = [req EXCEPT ![u] = NullRequest]
    /\ todo' = [todo EXCEPT ![u] = {}]

RowsNamed(n) == {id \in live : row[id].name = n}

\* GetServiceByProject / ServiceExists: no status condition, so the rows
\* that are still preparing count.
ServiceExists(n) == RowsNamed(n) # {}

AddService(n, t, s) ==
    /\ nextId \in RowIds
    /\ live' = live \cup {nextId}
    /\ row' = [row EXCEPT ![nextId] = [name |-> n, type |-> t, status |-> s]]
    /\ nextId' = nextId + 1

\* An UPDATE of a row that is gone changes nothing.
UpdateServiceStatus(id, s) ==
    /\ row' = IF id \in live THEN [row EXCEPT ![id].status = s] ELSE row
    /\ UNCHANGED <<live, nextId>>

DeleteServiceRow(id) ==
    /\ live' = live \ {id}
    /\ row' = IF id \in live THEN [row EXCEPT ![id] = NullRow] ELSE row
    /\ UNCHANGED nextId

\* Delete of a workload by name; "not found" is no error.
Terminate(w, n) ==
    IF w[n] \in LiveStates THEN [w EXCEPT ![n] = "terminating"] ELSE w

-----------------------------------------------------------------------------
(* The wizard: its last phase checks the name and stores the step under    *)
(* the user's id; the cache drops it after 900 seconds.                    *)

SetConfigServiceStep(u) ==
    /\ "configure" \in Requests
    /\ Free(u)
    /\ \E n \in Names, t \in WizardTypes :
        /\ ~ServiceExists(n)
        /\ step' = [step EXCEPT ![u] = [name |-> n, type |-> t]]
    /\ UNCHANGED <<dbVars, k8sVars, hpaVars, procVars>>

DropConfigServiceStep(u) ==
    /\ Free(u)
    /\ step[u] # NoStep
    /\ step' = [step EXCEPT ![u] = NoStep]
    /\ UNCHANGED <<dbVars, k8sVars, hpaVars, procVars>>

-----------------------------------------------------------------------------
(* Deploying: the row first, then the workload, the k8s Service, the       *)
(* repository, and last the row's status.                                  *)

DeployRequest(u, op) ==
    /\ Free(u)
    /\ step[u] # NoStep
    /\ AddService(step[u].name, step[u].type, "preparing")
    /\ Begin(u, "createWorkload",
             [NullRequest EXCEPT !.op = op, !.id = nextId,
                                 !.name = step[u].name, !.type = step[u].type])
    /\ UNCHANGED <<k8sVars, hpaVars, step, todo>>

DeployServiceAction(u) ==
    /\ "deploy" \in Requests
    /\ DeployRequest(u, "deploy")

DeployStatefulSetAction(u) ==
    /\ "deployStatefulSet" \in Requests
    /\ step[u].type = "StatefulSet"
    /\ DeployRequest(u, "deployStatefulSet")

\* The yaml files stay on the API server's disk: nothing is deployed and
\* nothing is pushed until the service is toggled.
UploadYamlFileAction(u) ==
    /\ "upload" \in Requests
    /\ Free(u)
    /\ \E n \in Names :
        /\ ~ServiceExists(n)
        /\ AddService(n, "NodePort", "preparing")
    /\ UNCHANGED <<k8sVars, hpaVars, step, procVars>>

\* Create fails when the name is taken (by a terminating workload too), or
\* remotely; a start also fails when the yaml file is not to be had.
CreateWorkload(u) ==
    LET n == req[u].name
        op == req[u].op
    IN
    /\ pc[u] = "createWorkload"
    /\ \/ /\ op = "deployStatefulSet"
          /\ sts[n] = "absent"
          /\ sts' = [sts EXCEPT ![n] = "created"]
          /\ Goto(u, "createService")
          /\ UNCHANGED dep
       \/ /\ op # "deployStatefulSet"
          /\ dep[n] = "absent"
          /\ dep' = [dep EXCEPT ![n] = "created"]
          /\ Goto(u, IF op = "deploy" /\ req[u].type = "Edge"
                     THEN "push" ELSE "createService")
          /\ UNCHANGED sts
       \/ /\ \/ op = "deployStatefulSet" /\ sts[n] # "absent"
             \/ op # "deployStatefulSet" /\ dep[n] # "absent"
             \/ op = "start"
             \/ "createWorkload" \in Faults
          /\ Return(u)
          /\ UNCHANGED <<dep, sts>>
    /\ UNCHANGED <<dbVars, svc, hpaVars, step>>

\* An empty service.yaml is rejected like a failed Create, and an edge
\* service has no other.  When the file cannot be fetched at all the code
\* returns at once, without the compensating delete.
CreateService(u) ==
    LET n == req[u].name
        op == req[u].op
    IN
    /\ pc[u] = "createService"
    /\ \/ /\ n \notin svc
          /\ req[u].type # "Edge"
          /\ svc' = svc \cup {n}
          /\ Goto(u, "push")
       \/ /\ n \in svc \/ op = "start" \/ "createService" \in Faults
          /\ Goto(u, "undo")
          /\ UNCHANGED svc
       \/ /\ op = "start"
          /\ "fetchService" \in Faults
          /\ Return(u)
          /\ UNCHANGED svc
    /\ UNCHANGED <<dbVars, dep, sts, hpaVars, step>>

\* Variant: the compensating delete removes a StatefulSet only.
UndoWorkloadStatefulSetOnly(u) ==
    /\ pc[u] = "undo"
    /\ sts' = Terminate(sts, req[u].name)
    /\ Return(u)
    /\ UNCHANGED <<dbVars, dep, svc, hpaVars, step>>

\* The compensating delete, whose error is ignored.  The request then
\* aborts: the row of a failed deployment stays, preparing.
UndoWorkload(u) ==
    LET n == req[u].name IN
    /\ pc[u] = "undo"
    /\ \/ /\ req[u].op = "deployStatefulSet"
          /\ sts' = Terminate(sts, n)
          /\ UNCHANGED dep
       \/ /\ req[u].op # "deployStatefulSet"
          /\ dep' = Terminate(dep, n)
          /\ UNCHANGED sts
       \/ "undo" \in Faults /\ UNCHANGED <<dep, sts>>
    /\ Return(u)
    /\ UNCHANGED <<dbVars, svc, hpaVars, step>>

PushItemsToRepo(u) ==
    /\ pc[u] = "push"
    /\ \/ Goto(u, "mark")
       \/ /\ (IF req[u].op = "start" THEN "startPush" ELSE "push") \in Faults
          /\ Return(u)
    /\ UNCHANGED <<dbVars, k8sVars, hpaVars, step>>

MarkDeployed(u) ==
    /\ pc[u] = "mark"
    /\ req[u].op \in {"deploy", "deployStatefulSet"}
    /\ UpdateServiceStatus(req[u].id, "uncompleted")
    /\ step' = [step EXCEPT ![u] = NoStep]
    /\ Return(u)
    /\ UNCHANGED <<k8sVars, hpaVars>>

-----------------------------------------------------------------------------
(* Toggling. *)

ToggleStart(u, id) ==
    /\ "toggle" \in Requests
    /\ Free(u)
    /\ id \in live
    /\ row[id].status # "running"
    /\ Begin(u, "createWorkload",
             [NullRequest EXCEPT !.op = "start", !.id = id,
                                 !.name = row[id].name, !.type = row[id].type])
    /\ UNCHANGED <<dbVars, k8sVars, hpaVars, step, todo>>

MarkRunning(u) ==
    /\ pc[u] = "mark"
    /\ req[u].op = "start"
    /\ UpdateServiceStatus(req[u].id, "running")
    /\ Return(u)
    /\ UNCHANGED <<k8sVars, hpaVars, step>>

\* StopServiceK8s is called whatever the type of the service.
ToggleStop(u, id) ==
    /\ "toggle" \in Requests
    /\ Free(u)
    /\ id \in live
    /\ row[id].status # "stopped"
    /\ Begin(u, "deleteWorkload",
             [NullRequest EXCEPT !.op = "stop", !.id = id,
                                 !.name = row[id].name])
    /\ UNCHANGED <<dbVars, k8sVars, hpaVars, step, todo>>

DeleteWorkload(u) ==
    LET n == req[u].name IN
    /\ pc[u] = "deleteWorkload"
    /\ \/ /\ req[u].op = "deleteStatefulSet"
          /\ sts' = Terminate(sts, n)
          /\ Goto(u, "deleteService")
          /\ UNCHANGED dep
       \/ /\ req[u].op # "deleteStatefulSet"
          /\ dep' = Terminate(dep, n)
          /\ Goto(u, "deleteService")
          /\ UNCHANGED sts
       \/ /\ "deleteWorkload" \in Faults
          /\ Return(u)
          /\ UNCHANGED <<dep, sts>>
    /\ UNCHANGED <<dbVars, svc, hpaVars, step>>

\* Variant: the rules of a deleted service are forgotten.
AfterStopKeepsRules(op) ==
    CASE op = "stop"   -> "markStopped"
      [] op = "cancel" -> "cancelRow"
      [] OTHER         -> "deleteRow"

AfterStop(op) ==
    CASE op = "stop"   -> "markStopped"
      [] op = "delete" -> "hpaList"
      [] op = "cancel" -> "cancelRow"
      [] OTHER         -> "deleteRow"

DeleteService(u) ==
    /\ pc[u] = "deleteService"
    /\ \/ /\ svc' = svc \ {req[u].name}
          /\ Goto(u, AfterStop(req[u].op))
       \/ /\ "deleteService" \in Faults
          /\ Return(u)
          /\ UNCHANGED svc
    /\ UNCHANGED <<dbVars, dep, sts, hpaVars, step>>

MarkStopped(u) ==
    /\ pc[u] = "markStopped"
    /\ UpdateServiceStatus(req[u].id, "stopped")
    /\ Return(u)
    /\ UNCHANGED <<k8sVars, hpaVars, step>>

-----------------------------------------------------------------------------
(* Deleting. *)

\* Variant: the stop is skipped unless the row says "running".
DeleteServiceActionIfRunning(u, id) ==
    /\ "delete" \in Requests
    /\ Free(u)
    /\ id \in live
    /\ Begin(u, IF row[id].status # "running" THEN "hpaList"
                                              ELSE "deleteWorkload",
             [NullRequest EXCEPT !.op = "delete", !.id = id,
                                 !.name = row[id].name])
    /\ UNCHANGED <<dbVars, k8sVars, hpaVars, step, todo>>

DeleteServiceAction(u, id) ==
    /\ "delete" \in Requests
    /\ Free(u)
    /\ id \in live
    /\ Begin(u, IF row[id].status = "stopped" THEN "hpaList"
                                              ELSE "deleteWorkload",
             [NullRequest EXCEPT !.op = "delete", !.id = id,
                                 !.name = row[id].name])
    /\ UNCHANGED <<dbVars, k8sVars, hpaVars, step, todo>>

DeleteStatefulSetAction(u, id) ==
    /\ "deleteStatefulSet" \in Requests
    /\ Free(u)
    /\ id \in live
    /\ Begin(u, IF row[id].status = "stopped" THEN "deleteRow"
                                              ELSE "deleteWorkload",
             [NullRequest EXCEPT !.op = "deleteStatefulSet", !.id = id,
                                 !.name = row[id].name])
    /\ UNCHANGED <<dbVars, k8sVars, hpaVars, step, todo>>

\* Removing the files from the repository follows and changes no row.
DeleteRow(u) ==
    /\ pc[u] = "deleteRow"
    /\ DeleteServiceRow(req[u].id)
    /\ Return(u)
    /\ UNCHANGED <<k8sVars, hpaVars, step>>

\* DeleteDeployAction: cleans up by the name in the user's wizard step.
DeleteDeployAction(u) ==
    /\ "cancel" \in Requests
    /\ Free(u)
    /\ step[u] # NoStep
    /\ Begin(u, "deleteWorkload",
             [NullRequest EXCEPT !.op = "cancel", !.name = step[u].name])
    /\ UNCHANGED <<dbVars, k8sVars, hpaVars, step, todo>>

\* Of several rows of one name the read by name returns whichever comes
\* first; without any the error is dropped and the request goes on.
CancelRow(u) ==
    LET found == RowsNamed(req[u].name) IN
    /\ pc[u] = "cancelRow"
    /\ \/ \E id \in found : DeleteServiceRow(id)
       \/ found = {} /\ UNCHANGED dbVars
    /\ Goto(u, "cancelStep")
    /\ UNCHANGED <<k8sVars, hpaVars, step>>

CancelStep(u) ==
    /\ pc[u] = "cancelStep"
    /\ \/ step' = [step EXCEPT ![u] = NoStep]
       \/ "push" \in Faults /\ UNCHANGED step
    /\ Return(u)
    /\ UNCHANGED <<dbVars, k8sVars, hpaVars>>

-----------------------------------------------------------------------------
(* Autoscaling rules.  A rule belongs to a service, has a name of its own   *)
(* and is deleted by its id.                                               *)

RulesOf(id) == {n \in Names : <<id, n>> \in hpaDb}

CreateAutoScaleAction(u, id) ==
    /\ "autoscale" \in Requests
    /\ Free(u)
    /\ id \in live
    /\ \E n \in Names \ RulesOf(id) :
        Begin(u, "hpaCreate",
              [NullRequest EXCEPT !.op = "hpaCreate", !.id = id, !.rule = n])
    /\ UNCHANGED <<dbVars, k8sVars, hpaVars, step, todo>>

CreateHpa(u) ==
    LET n == req[u].rule IN
    /\ pc[u] = "hpaCreate"
    /\ \/ /\ n \notin hpaK8s
          /\ hpaK8s' = hpaK8s \cup {n}
          /\ Goto(u, "hpaInsert")
       \/ /\ n \in hpaK8s \/ "hpa" \in Faults
          /\ Return(u)
          /\ UNCHANGED hpaK8s
    /\ UNCHANGED <<dbVars, k8sVars, hpaDb, strayed, step>>

InsertHpa(u) ==
    /\ pc[u] = "hpaInsert"
    /\ hpaDb' = hpaDb \cup {<<req[u].id, req[u].rule>>}
    /\ Return(u)
    /\ UNCHANGED <<dbVars, k8sVars, hpaK8s, strayed, step>>

\* The request names a service and a rule.  The service says where the HPA
\* is deleted, the rule which record, and nothing says that the one belongs
\* to the other: any service of the project will do.
DeleteAutoScaleAction(u) ==
    /\ "autoscale" \in Requests
    /\ Free(u)
    /\ live # {}
    /\ \E rule \in hpaDb :
        Begin(u, "hpaDelete",
              [NullRequest EXCEPT !.op = "hpaDelete", !.id = rule[1],
                                  !.names = {rule[2]}])
    /\ UNCHANGED <<dbVars, k8sVars, hpaVars, step, todo>>

\* The same request with a service of another project and a rule of this
\* one, or a service of this project and a rule of another.
DeleteAutoScaleAcross(u) ==
    /\ "autoscaleAcross" \in Requests
    /\ Free(u)
    /\ \/ \E rule \in hpaDb :
            Begin(u, "hpaDelete",
                  [NullRequest EXCEPT !.op = "hpaServiceElsewhere",
                                      !.id = rule[1], !.names = {rule[2]}])
       \/ /\ live # {}
          /\ \E n \in Names :
              Begin(u, "hpaDelete",
                    [NullRequest EXCEPT !.op = "hpaRuleElsewhere",
                                        !.names = {n}])
    /\ UNCHANGED <<dbVars, k8sVars, hpaVars, step, todo>>

\* A request that deletes the whole service lists its rules first.
ListHpas(u) ==
    /\ pc[u] = "hpaList"
    /\ Begin(u, "hpaDelete", [req[u] EXCEPT !.names = RulesOf(req[u].id)])
    /\ UNCHANGED <<dbVars, k8sVars, hpaVars, step, todo>>

\* The record is read again: it is an error when it is gone.  An HPA that is
\* gone, or one that only another project has, is none.
DeleteHpa(u) ==
    LET op == req[u].op IN
    /\ pc[u] = "hpaDelete"
    /\ \E n \in req[u].names :
        \/ /\ n \in RulesOf(req[u].id) \/ op = "hpaRuleElsewhere"
           /\ hpaK8s' = IF op = "hpaServiceElsewhere" THEN hpaK8s
                                                      ELSE hpaK8s \ {n}
           /\ Begin(u, "hpaDeleteDb", [req[u] EXCEPT !.rule = n])
           /\ UNCHANGED todo
        \/ /\ \/ n \notin RulesOf(req[u].id) /\ op # "hpaRuleElsewhere"
              \/ "hpa" \in Faults
           /\ Return(u)
           /\ UNCHANGED hpaK8s
    /\ strayed' = strayed \cap hpaK8s'
    /\ UNCHANGED <<dbVars, k8sVars, hpaDb, step>>

DeleteHpaDb(u) ==
    LET n == req[u].rule IN
    /\ pc[u] = "hpaDeleteDb"
    /\ hpaDb' = hpaDb \ {<<req[u].id, n>>}
    /\ strayed' = IF req[u].op = "hpaServiceElsewhere"
                  THEN strayed \cup ({n} \cap hpaK8s) ELSE strayed
    /\ IF req[u].op = "delete"
       THEN /\ Begin(u, "hpaDelete", [req[u] EXCEPT !.names = @ \ {n}])
            /\ UNCHANGED todo
       ELSE Return(u)
    /\ UNCHANGED <<dbVars, k8sVars, hpaK8s, step>>

HpasDeleted(u) ==
    /\ pc[u] = "hpaDelete"
    /\ req[u].names = {}
    /\ Goto(u, "deleteRow")
    /\ UNCHANGED <<dbVars, k8sVars, hpaVars, step>>

-----------------------------------------------------------------------------
(* Listing services synchronises their status with the cluster: the rows   *)
(* are read once, then visited one by one.                                 *)

\* Variant: the list does not leave out the rows that are preparing.
VisibleAll == live

Visible == {id \in live : row[id].status # "preparing"}

GetServiceListAction(u) ==
    /\ "list" \in Requests
    /\ Free(u)
    /\ Begin(u, "sync", [NullRequest EXCEPT !.op = "list"])
    /\ todo' = [todo EXCEPT ![u] = {<<id, row[id].status>> : id \in Visible}]
    /\ UNCHANGED <<dbVars, k8sVars, hpaVars, step>>

\* What GET tells of a workload: nothing, fewer replicas than asked for, or
\* all of them.  A failed GET is taken for an absent workload.
DeploymentView(n) ==
    (CASE dep[n] = "absent"      -> {"nil"}
       [] dep[n] = "pending"     -> {"short"}
       [] dep[n] = "terminating" -> {"short", "full"}
       [] OTHER                  -> {"full"})
    \cup (IF "getWorkload" \in Faults THEN {"nil"} ELSE {})

\* For a StatefulSet Status.Replicas (pods created, available or not) is
\* compared with the replicas asked for.
StatefulSetView(n) ==
    (CASE sts[n] = "absent"      -> {"nil"}
       [] sts[n] = "created"     -> {"short"}
       [] sts[n] = "terminating" -> {"short", "full"}
       [] OTHER                  -> {"full"})
    \cup (IF "getWorkload" \in Faults THEN {"nil"} ELSE {})

View(n, t) ==
    CASE t \in {"NodePort", "Edge"} -> DeploymentView(n)
      [] t = "StatefulSet"          -> StatefulSetView(n)
      [] OTHER                      -> {"none"}

\* Variant: the verdict the commented-out lines of syncK8sStatus gave.
ShortVerdictPartOffline(t) ==
    CASE t = "NodePort"    -> {<<"syncWrite", "uncompleted">>}
      [] t = "Edge"        -> {<<"syncWrite", "partAutonomousOffline">>}
      [] t = "StatefulSet" -> {<<"syncService", "uncompleted">>}

\* What syncK8sStatus does about a workload that is short of replicas: the
\* call that follows, with the status it holds in memory.
ShortVerdict(t) ==
    CASE t = "NodePort"    -> {<<"syncWrite", "uncompleted">>}
      [] t = "Edge"        -> {"syncWrite"} \X {"uncompleted", "unknown", "autonomousOffline"}
      [] t = "StatefulSet" -> {<<"syncService", "uncompleted">>}

\* The same for any view v of the workload of a service of type t whose
\* status in the snapshot is s.
WorkloadVerdict(t, v, s) ==
    CASE v = "nil" /\ t # "StatefulSet" -> {<<"syncWrite", "uncompleted">>}
      [] v = "nil" /\ t = "StatefulSet" -> ShortVerdict(t)
      [] v = "short"                    -> ShortVerdict(t)
      [] v = "full" /\ t = "Edge"       -> {<<"syncWrite", "running">>}
      [] OTHER                          -> {<<"syncService", s>>}

\* Variant: stopped services are not skipped.
SyncWorkloadOfStopped(u) ==
    /\ pc[u] = "sync"
    /\ \E item \in todo[u] :
        LET id == item[1] IN
        /\ todo' = [todo EXCEPT ![u] = @ \ {item}]
        /\ IF id \notin live
           THEN UNCHANGED <<pc, req>>
           ELSE \E v \in View(row[id].name, row[id].type) :
                \E verdict \in WorkloadVerdict(row[id].type, v, item[2]) :
                    Begin(u, verdict[1],
                          [req[u] EXCEPT !.id = id, !.name = row[id].name,
                                         !.type = row[id].type,
                                         !.status = verdict[2], !.seen = v])
    /\ UNCHANGED <<dbVars, k8sVars, hpaVars, step>>

SyncWorkload(u) ==
    /\ pc[u] = "sync"
    /\ \E item \in todo[u] :
        LET id == item[1] IN
        /\ todo' = [todo EXCEPT ![u] = @ \ {item}]
        /\ IF item[2] = "stopped" \/ id \notin live
           THEN UNCHANGED <<pc, req>>
           ELSE \E v \in View(row[id].name, row[id].type) :
                \E verdict \in WorkloadVerdict(row[id].type, v, item[2]) :
                    Begin(u, verdict[1],
                          [req[u] EXCEPT !.id = id, !.name = row[id].name,
                                         !.type = row[id].type,
                                         !.status = verdict[2], !.seen = v])
    /\ UNCHANGED <<dbVars, k8sVars, hpaVars, step>>

\* Variant: a service found complete is not restored to running.
SyncServiceNoRestore(u) ==
    /\ pc[u] = "syncService"
    /\ \/ /\ req[u].name \notin svc \/ "getService" \in Faults
          /\ Begin(u, "syncWrite", [req[u] EXCEPT !.status = "uncompleted"])
       \/ req[u].name \in svc /\ Begin(u, "sync", req[u])
    /\ UNCHANGED <<dbVars, k8sVars, hpaVars, step, todo>>

SyncService(u) ==
    /\ pc[u] = "syncService"
    /\ \/ /\ req[u].name \notin svc \/ "getService" \in Faults
          /\ Begin(u, "syncWrite", [req[u] EXCEPT !.status = "uncompleted"])
       \/ /\ req[u].name \in svc
          /\ IF req[u].status = "uncompleted"
             THEN Begin(u, "syncWrite", [req[u] EXCEPT !.status = "running"])
             ELSE Begin(u, "sync", req[u])
    /\ UNCHANGED <<dbVars, k8sVars, hpaVars, step, todo>>

SyncWrite(u) ==
    /\ pc[u] = "syncWrite"
    /\ UpdateServiceStatus(req[u].id, req[u].status)
    /\ Goto(u, "sync")
    /\ UNCHANGED <<k8sVars, hpaVars, step>>

SyncDone(u) ==
    /\ pc[u] = "sync"
    /\ todo[u] = {}
    /\ Return(u)
    /\ UNCHANGED <<dbVars, k8sVars, hpaVars, step>>

-----------------------------------------------------------------------------
(* Importing: a row for each k8s Service that has none of its name. *)

ImportServicesAction(u) ==
    /\ "import" \in Requests
    /\ Free(u)
    /\ Begin(u, "import", [NullRequest EXCEPT !.op = "import", !.names = svc])
    /\ UNCHANGED <<dbVars, k8sVars, hpaVars, step, todo>>

SyncServiceData(u) ==
    /\ pc[u] = "import"
    /\ \E n \in req[u].names :
        /\ req' = [req EXCEPT ![u].names = @ \ {n}]
        /\ IF ServiceExists(n) THEN UNCHANGED dbVars
                               ELSE AddService(n, "Unknown", "running")
    /\ UNCHANGED <<k8sVars, hpaVars, step, pc, todo>>

ImportDone(u) ==
    /\ pc[u] = "import"
    /\ \/ req[u].names = {}
       \/ nextId \notin RowIds   \* the bound on rows is reached
    /\ Return(u)
    /\ UNCHANGED <<dbVars, k8sVars, hpaVars, step>>

-----------------------------------------------------------------------------
(* The cluster: pods come and go, a terminating workload disappears. *)

WorkloadMoves ==
    {<<"created", "pending">>, <<"pending", "ready">>, <<"ready", "pending">>,
     <<"terminating", "absent">>}

DeploymentMoves(n) ==
    /\ \E m \in WorkloadMoves : dep[n] = m[1] /\ dep' = [dep EXCEPT ![n] = m[2]]
    /\ UNCHANGED <<dbVars, sts, svc, hpaVars, step, procVars>>

StatefulSetMoves(n) ==
    /\ \E m \in WorkloadMoves : sts[n] = m[1] /\ sts' = [sts EXCEPT ![n] = m[2]]
    /\ UNCHANGED <<dbVars, dep, svc, hpaVars, step, procVars>>

-----------------------------------------------------------------------------
NewRequest(u) ==
    \/ SetConfigServiceStep(u)
    \/ DropConfigServiceStep(u)
    \/ DeployServiceAction(u)
    \/ DeployStatefulSetAction(u)
    \/ UploadYamlFileAction(u)
    \/ DeleteDeployAction(u)
    \/ GetServiceListAction(u)
    \/ ImportServicesAction(u)
    \/ DeleteAutoScaleAction(u)
    \/ DeleteAutoScaleAcross(u)
    \/ \E id \in RowIds :
        \/ ToggleStart(u, id)
        \/ ToggleStop(u, id)
        \/ DeleteServiceAction(u, id)
        \/ DeleteStatefulSetAction(u, id)
        \/ CreateAutoScaleAction(u, id)

Continue(u) ==
    \/ CreateWorkload(u)
    \/ CreateService(u)
    \/ UndoWorkload(u)
    \/ PushItemsToRepo(u)
    \/ MarkDeployed(u)
    \/ MarkRunning(u)
    \/ DeleteWorkload(u)
    \/ DeleteService(u)
    \/ MarkStopped(u)
    \/ DeleteRow(u)
    \/ CancelRow(u)
    \/ CancelStep(u)
    \/ CreateHpa(u)
    \/ InsertHpa(u)
    \/ ListHpas(u)
    \/ DeleteHpa(u)
    \/ DeleteHpaDb(u)
    \/ HpasDeleted(u)
    \/ SyncWorkload(u)
    \/ SyncService(u)
    \/ SyncWrite(u)
    \/ SyncDone(u)
    \/ SyncServiceData(u)
    \/ ImportDone(u)

Cluster(n) == DeploymentMoves(n) \/ StatefulSetMoves(n)

Next ==
    \/ \E u \in Users : NewRequest(u) \/ Continue(u)
    \/ \E n \in Names : Cluster(n)

Spec == Init /\ [][Next]_vars

\* A goroutine that can go on does: no call of a handler waits for another
\* request.  Nothing is assumed of the clients and of the cluster.
FairSpec == Spec /\ \A u \in Users : WF_vars(Continue(u))
-----------------------------------------------------------------------------
(* Properties. *)

\* Some row admits to running a service of this name.
Claimed(n) == \E id \in RowsNamed(n) : row[id].status # "stopped"

\* A request of user u for the name n has reached one of these calls.
InCharge(u, op, n, calls) ==
    req[u].op = op /\ req[u].name = n /\ pc[u] \in calls

\* Nothing runs in the cluster that the table does not admit to: a live
\* workload or a k8s Service has a row of its name that is not "stopped",
\* unless a start (ToggleServiceAction, DeployServiceByYaml) that has still
\* to record its success has just made it.  The users find, stop and delete
\* what they run by these rows alone.
ClusterObjectsAreOwned ==
    \A n \in Names :
        /\ dep[n] \in LiveStates =>
             \/ Claimed(n)
             \/ \E u \in Users :
                  InCharge(u, "start", n, {"createService", "undo", "push", "mark"})
        /\ sts[n] \in LiveStates => Claimed(n)
        /\ n \in svc =>
             \/ Claimed(n)
             \/ \E u \in Users : InCharge(u, "start", n, {"push", "mark"})

\* No autoscaling rule outlives its service: DeleteServiceAction lists and
\* deletes the rules before the row, so a record belongs to a row.  And no
\* HorizontalPodAutoscaler is without a record, unless the request that made
\* it has still to insert one or DeleteAutoScaleAction was given a service
\* of another project: it then looks for the HPA there and deletes the
\* record of the one here.
HpasAreOwned ==
    /\ \A rule \in hpaDb : rule[1] \in live
    /\ \A n \in hpaK8s \ strayed :
        \/ \E id \in live : n \in RulesOf(id)
        \/ \E u \in Users : pc[u] = "hpaInsert" /\ req[u].rule = n

\* DeployService is all or nothing, whoever deploys the same name at the
\* same time: once no request is at work on a name, its Deployment runs
\* exactly if its k8s Service is there.  The name of the workload serves as
\* a lock, for only the request that created it goes on or undoes it.
DeployAllOrNothing ==
    \A n \in Names :
        (\A u \in Users : ~(req[u].name = n /\ pc[u] \in {"createService", "undo"})) =>
            (n \in svc <=> dep[n] \in LiveStates \/ sts[n] \in LiveStates)

\* A row that is being prepared is moved on by the request that deploys it
\* (or by a toggle) and by nobody else: a list running at the same time, of
\* another user perhaps, never records a status for it.
PreparingIsPrivate ==
    [][\A id \in live :
        /\ row[id].status = "preparing"
        /\ row'[id].status # "preparing"
        => \E u \in Users :
             /\ pc[u] \in {"mark", "markStopped"}
             /\ req[u].id = id]_vars

\* What GetServiceListAction is for: while a service's workload keeps all
\* its replicas and its k8s Service stays, and services are listed again
\* and again, the row ends up "running" and stays so, whatever older views
\* of the cluster other lists have still to write.
StatusConverges ==
    \A id \in RowIds :
        LET Settled == /\ id \in Visible
                       /\ row[id].status # "stopped"
                       /\ row[id].type \in {"NodePort", "StatefulSet"}
                       /\ row[id].name \in svc
                       /\ (IF row[id].type = "NodePort" THEN dep ELSE sts)
                            [row[id].name] = "ready"
            Listing == \E u \in Users : \E s \in Statuses : <<id, s>> \in todo[u]
        IN
        <>[]Settled /\ []<>Listing => <>[](row[id].status = "running")

\* Ids are given out in order: an id read of a row is never given to another.
FreshIds == \A id \in live : id < nextId

\* Requests that do not overlap keep what the table promises (ServiceRows).
Rows == INSTANCE ServiceRows WITH
    Ids <- RowIds,
    status <- [id \in RowIds |-> IF id \in live THEN row[id].status ELSE "none"],
    used <- {id \in RowIds : id < nextId}

RowsImplemented == Rows!Spec
=============================================================================
