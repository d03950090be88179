-------------------------------- MODULE Wizard --------------------------------
(***************************************************************************)
(* The service wizard of the API server: v1/controller/serviceconfig.go,   *)
(* and the deployment of what was entered, v1/controller/service.go and    *)
(* service/servicedeploy.go.                                               *)
(*                                                                         *)
(* What a user enters is kept in memory between the requests: the cache    *)
(* holds, for each user, a pointer to a step, and drops it after a quarter *)
(* of an hour.  Every request fetches the pointer first and works on the   *)
(* step it points to: requests of one user that run side by side, of two   *)
(* tabs or a double click, share the step, also one that is no longer in   *)
(* the cache.  A step is a cell of a heap, and a pointer the number of the *)
(* cell.                                                                   *)
(***************************************************************************)
EXTENDS Naturals, FiniteSets

CONSTANTS
    Users,
    Clients,        \* requests that can be underway at a time
    Tabs,           \* whose requests may run side by side: functions client -> user
    Projects,
    Names,          \* names that are entered for services
    None,           \* no project, no name
    ContainerLists, \* what is entered for the containers: sets of containers
    InitLists,      \* ... for the init containers
    ExternalLists,  \* ... for the external services: the containers they lead to
    Types,          \* kinds of services: "edge", "stateful" and others
    Phases,         \* the phases that are entered
    MaxAsks,        \* bound: requests ever made
    MaxRows         \* bound: rows ever inserted

ASSUME WizardAssumption ==
    /\ IsFiniteSet(Clients) /\ Tabs \subseteq [Clients -> Users] /\ None \notin Projects
    /\ Phases \subseteq {"project", "containers", "inits", "external", "entire"}
    \* A service that is neither an edge service nor stateful can be made.
    /\ Types \ {"edge", "stateful"} # {}
    /\ MaxAsks \in Nat /\ MaxRows \in Nat \ {0}

VARIABLES
    userOf,  \* client -> its user, chosen once
    heap,    \* cell -> a step
    cache,   \* user -> the cell of the user's step, 0 when there is none
    rows,    \* the rows of services
    lastRow, \* the number of the last row that was inserted
    objects, \* what is deployed
    pc,      \* client -> the next step of its request
    req,     \* client -> the local variables of its request
    asks,    \* requests so far
    entered  \* history: user -> what the user entered since the last service

procVars == <<pc, req>>
vars     == <<userOf, heap, cache, rows, lastRow, objects, procVars, asks, entered>>

-----------------------------------------------------------------------------
Containers == UNION (ContainerLists \cup InitLists \cup ExternalLists)
First      == MaxAsks + 1
Cells      == 1..First

\* A name, and how often the test of the service put "test" before it.
Name == [base : Names \cup {None}, tests : 0..MaxAsks]
NoName == [base |-> None, tests |-> 0]

\* What the last check of the name was made for, and which rows there were.
Check == [project : Projects \cup {None}, name : Name, rows : 0..MaxRows]

ConfigServiceStep ==
    [project : Projects \cup {None}, name : Name, type : Types, containers : SUBSET Containers,
     inits : SUBSET Containers, externals : SUBSET Containers, checked : Check]

Blank == [project |-> None, name |-> NoName, type |-> CHOOSE t \in Types \ {"edge", "stateful"} : TRUE,
          containers |-> {}, inits |-> {}, externals |-> {}, checked |-> [project |-> None, name |-> NoName, rows |-> 0]]

\* A row, and of which step and which check it is made.
Row == [id : 1..MaxRows, project : Projects, name : Name, owner : Users,
        status : {"preparing", "uncompleted", "stopped"}, cell : 0..First, checked : Check]

\* A deployment or a stateful set, or the service before it; what it was made of, by the
\* request of which row, and what its user had entered.
Object == [kind : {"Deployment", "StatefulSet", "Service"}, project : Projects, name : Name,
           row : 0..MaxRows, step : ConfigServiceStep, asked : ConfigServiceStep]

Ops == Phases \cup {"deploy", "test", "stateful", "undo"}

Request == [op : Ops, cell : 0..First, given : ConfigServiceStep, row : 0..MaxRows,
            project : Projects \cup {None}, name : Name]

PCs == {"idle", "check", "set", "row", "workload", "service", "status", "clean",
        "undo", "undoRow"}

NullRequest == [op |-> "deploy", cell |-> 0, given |-> Blank, row |-> 0, project |-> None,
                name |-> NoName]

TypeOK ==
    /\ userOf \in Tabs
    /\ heap \in [Cells -> ConfigServiceStep]
    /\ cache \in [Users -> 0..First]
    /\ rows \subseteq Row /\ lastRow \in 0..MaxRows
    /\ \A r, s \in rows : r.id = s.id => r = s
    /\ objects \subseteq Object
    /\ \A o, p \in objects :
          o.kind = p.kind /\ o.project = p.project /\ o.name = p.name => o = p
    /\ pc \in [Clients -> PCs] /\ req \in [Clients -> Request]
    /\ asks \in 0..MaxAsks
    /\ entered \in [Users -> ConfigServiceStep]

\* There may be a service already, made long before.
Earlier ==
    [id : {1}, project : Projects, name : [base : Names, tests : {0}],
     owner : {CHOOSE u \in Users : TRUE}, status : {"uncompleted", "stopped"},
     cell : {0}, checked : {Blank.checked}]

\* A user may have a step already, in the cell First, with a name that was free.
EnteredStep(p, n, l, id) ==
    [Blank EXCEPT !.project = p, !.name.base = n, !.containers = l, !.externals = l,
                  !.checked = [project |-> p, name |-> [base |-> n, tests |-> 0], rows |-> id]]

Entered(id) == {EnteredStep(p, n, l, id) : p \in Projects, n \in Names, l \in ContainerLists}

Init ==
    /\ userOf \in Tabs
    /\ \/ rows = {} /\ lastRow = 0 /\ objects = {}
       \/ \E r \in Earlier :
             /\ rows = {r} /\ lastRow = 1
             /\ objects = IF r.status = "stopped" THEN {}
                          ELSE {[kind |-> k, project |-> r.project, name |-> r.name, row |-> 1,
                                 step |-> Blank, asked |-> Blank] : k \in {"Deployment", "Service"}}
    /\ \E u \in Users, step \in Entered(lastRow) \cup {Blank} :
          /\ \A r \in rows : r.project # step.project
          /\ heap = [i \in Cells |-> IF i = First THEN step ELSE Blank]
          /\ cache = [v \in Users |-> IF v = u /\ step # Blank THEN First ELSE 0]
          /\ entered = [v \in Users |-> IF v = u THEN step ELSE Blank]
    /\ pc = [c \in Clients |-> "idle"] /\ req = [c \in Clients |-> NullRequest]
    /\ asks = 0

-----------------------------------------------------------------------------
(* Requests. *)

Goto(c, p) == pc' = [pc EXCEPT ![c] = p]

Return(c) == Goto(c, "idle") /\ req' = [req EXCEPT ![c] = NullRequest]

Step(c) == heap[req[c].cell]

\* The cached step, or a blank one that is in no cache yet; an entire step has a place of its own.
NewConfigServiceStep(u, op) == IF cache[u] # 0 /\ op # "entire" THEN cache[u] ELSE asks + 1

Ask(c, op, given, p) ==
    LET u == userOf[c] IN
    /\ pc[c] = "idle" /\ asks < MaxAsks
    /\ asks' = asks + 1
    /\ Goto(c, p)
    /\ req' = [req EXCEPT ![c] = [NullRequest EXCEPT !.op = op, !.given = given,
                                                     !.cell = NewConfigServiceStep(u, op)]]
    /\ entered' = IF cache[u] = 0 THEN [entered EXCEPT ![u] = Blank] ELSE entered

\* A call fails, or the request is one of those that are refused.
Fails(c) ==
    /\ pc[c] \in {"check", "set", "row", "workload", "status", "clean", "undo", "undoRow"}
    /\ Return(c)
    /\ UNCHANGED <<userOf, heap, cache, rows, lastRow, objects, asks, entered>>

-----------------------------------------------------------------------------
(* The steps of the wizard.  A request is read to its end after the pointer was fetched. *)

SetConfigServiceStepAction(c, phase, given) ==
    /\ phase \in Phases
    /\ Ask(c, phase, given, IF phase \in {"external", "entire"} THEN "check" ELSE "set")
    /\ UNCHANGED <<userOf, heap, cache, rows, lastRow, objects>>

\* The step is set through the pointer, and the pointer put in the cache.
SetConfigServiceStep(c, step, asked) ==
    /\ heap' = [heap EXCEPT ![req[c].cell] = step]
    /\ cache' = [cache EXCEPT ![userOf[c]] = req[c].cell]
    /\ entered' = [entered EXCEPT ![userOf[c]] = asked]
    /\ Return(c)
    /\ UNCHANGED <<userOf, rows, lastRow, objects, asks>>

selectProject(c) ==
    LET p == req[c].given.project IN
    /\ pc[c] = "set" /\ req[c].op = "project"
    /\ SetConfigServiceStep(c, [Step(c) EXCEPT !.project = p],
                               [entered[userOf[c]] EXCEPT !.project = p])

\* The external services that lead to no container of the list are dropped.
CheckServiceConfigPortMap(externals, list) == externals \cap list

configContainerList(c) ==
    LET given == req[c].given.containers
        asked == entered[userOf[c]] IN
    /\ pc[c] = "set" /\ req[c].op = "containers"
    /\ SetConfigServiceStep(c,
          [Step(c) EXCEPT !.containers = given,
                          !.externals = CheckServiceConfigPortMap(@, given)],
          [asked EXCEPT !.containers = given, !.externals = @ \cap given])

\* The same function: the external services of init containers are kept, and no others.
configInitContainerList(c) ==
    LET given == req[c].given.inits
        asked == entered[userOf[c]] IN
    /\ pc[c] = "set" /\ req[c].op = "inits"
    /\ SetConfigServiceStep(c,
          [Step(c) EXCEPT !.inits = given, !.externals = CheckServiceConfigPortMap(@, given)],
          [asked EXCEPT !.inits = given, !.externals = @ \cap given])

\* Variant: stopped services are not looked at.
ServiceExistsRunning(name, project) ==
    \E r \in rows : r.name = name /\ r.project = project /\ r.status # "stopped"

ServiceExists(name, project) == \E r \in rows : r.name = name /\ r.project = project

\* The name is checked for the project of the cached step.
checkServiceDuplicateName(c) ==
    LET given == req[c].given
        own   == cache[userOf[c]]
        project == IF req[c].op = "entire" THEN given.project
                   ELSE IF own = 0 THEN None ELSE heap[own].project IN
    /\ pc[c] = "check"
    /\ project # None /\ ~ServiceExists(given.name, project)
    /\ req' = [req EXCEPT ![c].given.checked =
                  [project |-> project, name |-> given.name, rows |-> lastRow]]
    /\ Goto(c, "set")
    /\ UNCHANGED <<userOf, heap, cache, rows, lastRow, objects, asks, entered>>

configExternalService(c) ==
    LET g == req[c].given IN
    /\ pc[c] = "set" /\ req[c].op = "external"
    /\ SetConfigServiceStep(c,
          [Step(c) EXCEPT !.name = g.name, !.type = g.type, !.externals = g.externals,
                          !.checked = g.checked],
          [entered[userOf[c]] EXCEPT !.name = g.name, !.type = g.type, !.externals = g.externals])

\* What is given takes the place of the cached step.
configEntireService(c) ==
    /\ pc[c] = "set" /\ req[c].op = "entire"
    /\ SetConfigServiceStep(c, req[c].given, req[c].given)

\* The step that is cached, not the steps requests hold.
DeleteConfigServiceStep(u) == cache' = [cache EXCEPT ![u] = 0]

DeleteServiceStepAction(c) ==
    /\ pc[c] = "idle" /\ cache[userOf[c]] # 0
    /\ DeleteConfigServiceStep(userOf[c])
    /\ UNCHANGED <<userOf, heap, rows, lastRow, objects, procVars, asks, entered>>

\* Fifteen minutes after it was last put.
Expire(u) ==
    /\ cache[u] # 0
    /\ DeleteConfigServiceStep(u)
    /\ UNCHANGED <<userOf, heap, rows, lastRow, objects, procVars, asks, entered>>

-----------------------------------------------------------------------------
(* The deployment. *)

\* The project is looked up, and the request refused when there is none.
DeployServiceAction(c, op) ==
    LET u == userOf[c] cell == NewConfigServiceStep(u, op) IN
    /\ op \in {"deploy", "stateful"}
    /\ pc[c] = "idle" /\ asks < MaxAsks
    /\ heap[cell].project # None
    /\ op = "stateful" => heap[cell].type = "stateful"
    /\ asks' = asks + 1
    /\ Goto(c, "row")
    /\ req' = [req EXCEPT ![c] = [NullRequest EXCEPT !.op = op, !.cell = cell,
                                                     !.project = heap[cell].project]]
    /\ UNCHANGED <<userOf, heap, cache, rows, lastRow, objects, entered>>

\* The name of the cached step changes, whether or not the test is then deployed: the
\* project is looked up after that.
DeployServiceTestAction(c) ==
    LET u == userOf[c] cell == NewConfigServiceStep(u, "test") project == heap[cell].project IN
    /\ pc[c] = "idle" /\ asks < MaxAsks
    /\ asks' = asks + 1
    /\ heap' = [heap EXCEPT ![cell].name.tests = @ + 1]
    /\ cache' = [cache EXCEPT ![u] = cell]
    /\ entered' = [entered EXCEPT ![u] =
                      [(IF cache[u] = 0 THEN Blank ELSE entered[u]) EXCEPT !.name.tests = @ + 1]]
    /\ \/ project = None /\ UNCHANGED procVars
       \/ /\ project # None
          /\ Goto(c, "row")
          /\ req' = [req EXCEPT ![c] = [NullRequest EXCEPT !.op = "test", !.cell = cell,
                                                           !.project = project]]
    /\ UNCHANGED <<userOf, rows, lastRow, objects>>

\* A row has no unique name.
CreateServiceConfig(c) ==
    /\ pc[c] = "row" /\ lastRow < MaxRows
    /\ lastRow' = lastRow + 1
    /\ rows' = rows \cup {[id |-> lastRow + 1, project |-> req[c].project, name |-> Step(c).name,
                           owner |-> userOf[c], status |-> "preparing", cell |-> req[c].cell,
                           checked |-> Step(c).checked]}
    /\ req' = [req EXCEPT ![c].row = lastRow + 1, ![c].name = Step(c).name]
    /\ Goto(c, "workload")
    /\ UNCHANGED <<userOf, heap, cache, objects, asks, entered>>

KindOf(op) == IF op = "stateful" THEN "StatefulSet" ELSE "Deployment"

There(kind, project, name) ==
    \E o \in objects : o.kind = kind /\ o.project = project /\ o.name = name

\* The step is read again, through the pointer.
Made(c, kind) ==
    [kind |-> kind, project |-> Step(c).project, name |-> Step(c).name, row |-> req[c].row,
     step |-> Step(c), asked |-> entered[userOf[c]]]

\* DeployService and DeployStatefulSet: first the deployment or the stateful set.  When it fails
\* the row stays: ParseError aborts the request before the row is deleted.
CreateWorkload(c) ==
    LET o == Made(c, KindOf(req[c].op)) IN
    /\ pc[c] = "workload"
    /\ \/ /\ ~There(o.kind, o.project, o.name)
          /\ objects' = objects \cup {o}
          \* An edge service has no service.
          /\ Goto(c, IF Step(c).type = "edge" /\ o.kind = "Deployment" THEN "status" ELSE "service")
          /\ UNCHANGED req
       \/ There(o.kind, o.project, o.name) /\ Return(c) /\ UNCHANGED objects
    /\ UNCHANGED <<userOf, heap, cache, rows, lastRow, asks, entered>>

\* ... then the service; without it the first is deleted, by the name the step has now.
CreateService(c) ==
    LET o == Made(c, "Service") IN
    /\ pc[c] = "service"
    /\ \/ /\ ~There("Service", o.project, o.name)
          /\ objects' = objects \cup {o}
          /\ Goto(c, "status") /\ UNCHANGED req
       \/ /\ objects' = {p \in objects : ~(p.kind = KindOf(req[c].op) /\ p.project = o.project
                                            /\ p.name = o.name)}
          /\ Return(c)
    /\ UNCHANGED <<userOf, heap, cache, rows, lastRow, asks, entered>>

\* Variant: the row is settled as if the objects were running already.
UpdateServiceRunning(c) ==
    /\ pc[c] = "status"
    /\ rows' = {IF r.id = req[c].row THEN [r EXCEPT !.status = "running"] ELSE r : r \in rows}
    /\ Goto(c, "clean")
    /\ UNCHANGED <<userOf, heap, cache, lastRow, objects, req, asks, entered>>

UpdateService(c) ==
    /\ pc[c] = "status"
    /\ rows' = {IF r.id = req[c].row THEN [r EXCEPT !.status = "uncompleted"] ELSE r : r \in rows}
    /\ Goto(c, "clean")
    /\ UNCHANGED <<userOf, heap, cache, lastRow, objects, req, asks, entered>>

\* Variant: the step stays in the cache.
CleanNothing(c) ==
    /\ pc[c] = "clean"
    /\ entered' = [entered EXCEPT ![userOf[c]] = Blank]
    /\ Return(c)
    /\ UNCHANGED <<userOf, heap, cache, rows, lastRow, objects, asks>>

\* The user's wizard starts anew.
CleanStep(c) ==
    /\ pc[c] = "clean"
    /\ DeleteConfigServiceStep(userOf[c])
    /\ entered' = [entered EXCEPT ![userOf[c]] = Blank]
    /\ Return(c)
    /\ UNCHANGED <<userOf, heap, rows, lastRow, objects, asks>>

-----------------------------------------------------------------------------
(* What else happens to services. *)

\* ToggleServiceAction, see ServiceLifecycle: what the row names is deleted.
StopService(id) ==
    \E r \in rows :
        /\ r.id = id /\ r.status = "uncompleted"
        /\ rows' = (rows \ {r}) \cup {[r EXCEPT !.status = "stopped"]}
        /\ objects' = {o \in objects : o.project # r.project \/ o.name # r.name}
        /\ UNCHANGED <<userOf, heap, cache, lastRow, procVars, asks, entered>>

\* The wizard's way back: what the step names is deleted.
DeleteDeployAction(c) ==
    LET u == userOf[c] cell == NewConfigServiceStep(u, "undo") IN
    /\ pc[c] = "idle" /\ asks < MaxAsks
    /\ heap[cell].project # None
    /\ asks' = asks + 1
    /\ Goto(c, "undo")
    /\ req' = [req EXCEPT ![c] = [NullRequest EXCEPT !.op = "undo", !.cell = cell,
                  !.project = heap[cell].project, !.name = heap[cell].name,
                  !.given.checked = heap[cell].checked]]
    /\ UNCHANGED <<userOf, heap, cache, rows, lastRow, objects, entered>>

StopServiceK8s(c) ==
    /\ pc[c] = "undo"
    /\ objects' = {o \in objects : ~(o.kind \in {"Deployment", "Service"} /\ o.name = req[c].name
                                     /\ o.project = req[c].project)}
    /\ Goto(c, "undoRow")
    /\ UNCHANGED <<userOf, heap, cache, rows, lastRow, req, asks, entered>>

\* Variant: the row is looked up by the name of the service only.
DeleteRowByName(c) ==
    LET found == {r \in rows : r.name = req[c].name} IN
    /\ pc[c] = "undoRow"
    /\ IF found = {} THEN UNCHANGED rows ELSE \E r \in found : rows' = rows \ {r}
    /\ Goto(c, "clean")
    /\ UNCHANGED <<userOf, heap, cache, lastRow, objects, req, asks, entered>>

\* A row of that name in the project, whoever made it.
DeleteRow(c) ==
    LET found == {r \in rows : r.name = req[c].name /\ r.project = req[c].project} IN
    /\ pc[c] = "undoRow"
    /\ IF found = {} THEN UNCHANGED rows ELSE \E r \in found : rows' = rows \ {r}
    /\ Goto(c, "clean")
    /\ UNCHANGED <<userOf, heap, cache, lastRow, objects, req, asks, entered>>

-----------------------------------------------------------------------------
\* What users enter; of a phase only what it sets matters.
ExternalStep(n, t, e)  == [Blank EXCEPT !.name.base = n, !.type = t, !.externals = e]
EntireStep(p, n, l, e) == [Blank EXCEPT !.project = p, !.name.base = n, !.containers = l, !.externals = e]

Given(phase) ==
    CASE phase = "project"    -> {[Blank EXCEPT !.project = p] : p \in Projects}
      [] phase = "containers" -> {[Blank EXCEPT !.containers = l] : l \in ContainerLists}
      [] phase = "inits"      -> {[Blank EXCEPT !.inits = l] : l \in InitLists}
      [] phase = "external"   ->
            {ExternalStep(n, t, e) : n \in Names, t \in Types, e \in ExternalLists}
      [] phase = "entire"     ->
            {EntireStep(p, n, l, e) : p \in Projects, n \in Names, l \in ContainerLists, e \in ExternalLists}

Asks(c) ==
    \/ \E phase \in Phases : \E given \in Given(phase) :
          SetConfigServiceStepAction(c, phase, given)
    \/ \E op \in {"deploy", "stateful"} : DeployServiceAction(c, op)
    \/ DeployServiceTestAction(c) \/ DeleteDeployAction(c) \/ DeleteServiceStepAction(c)

Continues(c) ==
    \/ selectProject(c) \/ configContainerList(c) \/ configInitContainerList(c)
    \/ checkServiceDuplicateName(c) \/ configExternalService(c) \/ configEntireService(c)
    \/ CreateServiceConfig(c) \/ CreateWorkload(c) \/ CreateService(c)
    \/ UpdateService(c) \/ CleanStep(c)
    \/ StopServiceK8s(c) \/ DeleteRow(c)
    \/ Fails(c)

Next ==
    \/ \E c \in Clients : Asks(c) \/ Continues(c)
    \/ \E u \in Users : Expire(u)
    \/ \E id \in 1..MaxRows : StopService(id)

Spec == Init /\ [][Next]_vars

-----------------------------------------------------------------------------
(* Properties. *)

\* Users who wait for the answer of a request before they make the next one.
Patient(u) == Cardinality({c \in Clients : userOf[c] = u}) = 1

\* What is deployed for a patient user is what that user entered for it, all of it and nothing
\* of an earlier service, and under the name and in the project the row has: whatever others
\* enter meanwhile, and though a step may expire and be put back.  External services may
\* be fewer, when containers were entered after them (SetConfigServiceStep, CleanStep,
\* CreateServiceConfig, CreateWorkload, CreateService).
EnteredIsDeployed ==
    \A o \in objects, r \in rows :
        o.row = r.id /\ r.cell # 0 /\ Patient(r.owner) =>
            /\ o.project = r.project /\ o.name = r.name
            /\ \A f \in {"project", "name", "containers", "inits"} : o.step[f] = o.asked[f]
            /\ o.step.externals \subseteq o.asked.externals

\* Was this name checked for this project when the row was there?
CheckedAgainst(check, project, name, id) ==
    check.project = project /\ check.name = name /\ check.rows >= id

\* Two services of a project that were both deployed have the same name only when the younger
\* one's name was not checked in that project after the older one's row was inserted: the check
\* holds also for a service that is stopped, whatever the requests of all users do between
\* (checkServiceDuplicateName, CreateServiceConfig).
NamesAreUnique ==
    \A r, s \in rows :
        r.id < s.id /\ r.name = s.name /\ r.project = s.project =>
            ~CheckedAgainst(s.checked, s.project, s.name, r.id)

\* The way back of the wizard deletes the row the step names, made of the same step or after the
\* name was checked: a service the check had seen stays (DeleteRow).
UndoRemovesOwn ==
    [][\A r \in rows :
          (\A s \in rows' : s.id # r.id) =>
              \E c \in Clients :
                  /\ pc[c] = "undoRow" /\ r.name = req[c].name /\ r.project = req[c].project
                  /\ \/ r.cell = req[c].cell
                     \/ ~CheckedAgainst(req[c].given.checked, r.project, r.name, r.id)]_vars
=============================================================================
