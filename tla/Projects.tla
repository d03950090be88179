------------------------------- MODULE Projects -------------------------------
(***************************************************************************)
(* Projects, their members, their Kubernetes namespaces, and whether a     *)
(* service of the project is deployed: the handlers of                     *)
(* v1/controller/project.go and projectmember.go, the resolution of a      *)
(* user's privileges (controllers/commons/base.go), and the part of the    *)
(* API server's initialisation that reconciles projects and namespaces.    *)
(*                                                                         *)
(* As in ServiceLifecycle a request is a process that makes one call at a  *)
(* time.  The server may stop between any two calls; when it comes up      *)
(* again its requests are gone and its initialiser runs, beside the first  *)
(* requests of users who are still signed in.                              *)
(*                                                                         *)
(* A project has one service here: "preparing" is a row that lists leave   *)
(* out, "visible" one that is deployed.  Services are not public.  What    *)
(* happens in the git server is left to RepoJob.                           *)
(***************************************************************************)
EXTENDS Integers, FiniteSets

CONSTANTS
    Users,       \* ids of the users
    SysAdmins,   \* those who are system administrators
    AdminId,     \* adminUserID: the owner of what the initialiser creates
    ProjectIds,  \* ids the table of projects will assign, in this order
    Names,       \* names of projects and of namespaces
    Requests,    \* the requests users send
    Faults,      \* the remote calls that may fail
    Overlap      \* may requests of users overlap?

RequestKinds ==
    {"create", "delete", "addMember", "removeMember", "deploy", "undeploy",
     "restart"}

CallNames == {"namespace", "repo", "deploy", "undeploy"}

Server == 0      \* the initialiser of the API server, as a process

ASSUME ProjectsAssumption ==
    /\ Users \subseteq Nat \ {Server}
    /\ SysAdmins \subseteq Users
    /\ AdminId \in SysAdmins
    /\ ProjectIds \subseteq Nat \ {0}
    /\ Requests \subseteq RequestKinds
    /\ Faults \subseteq CallNames
    /\ Overlap \in BOOLEAN
    /\ "" \notin Names

VARIABLES
    project,  \* table project: id -> name, owner and whether it is deleted
    members,  \* table project_member: the set of its rows
    ns,       \* name -> state of the namespace of that name
    service,  \* id of a project -> its service
    kept,     \* ids of the projects created with success and not given up
    contested, \* names that two creations were after at one time
    pc,       \* process -> the call it makes next
    req       \* process -> the local variables of its request

vars == <<project, members, ns, service, kept, contested, pc, req>>

-----------------------------------------------------------------------------
Procs == Users \cup {Server}

Project == [name : Names \cup {""}, owner : Users, state : {"none", "live", "deleted"}]

NoProject == [name |-> "", owner |-> AdminId, state |-> "none"]

\* The key of a row of project_member is (id, user_id, project_id), and the
\* id is computed from the other two.
MemberId(u, p) == u + p

MemberRow(u, p) == [id |-> MemberId(u, p), user |-> u, project |-> p]

PCs == {"idle", "checkNamespace", "addProject", "addMember", "createNamespace",
        "createRepo", "checkMembers", "checkServices", "deleteNamespace",
        "markDeleted", "insertMember", "deleteMember", "insertService",
        "deployService", "deleteService", "listProjects", "syncNamespaces",
        "syncProjects"}

Request == [project : ProjectIds \cup {0}, name : Names \cup {""},
            user : Procs, projects : SUBSET ProjectIds, names : SUBSET Names]

NullRequest == [project |-> 0, name |-> "", user |-> Server,
                projects |-> {}, names |-> {}]

TypeOK ==
    /\ project \in [ProjectIds -> Project]
    /\ members \subseteq {MemberRow(u, p) : u \in Users, p \in ProjectIds}
    /\ ns \in [Names -> {"absent", "active", "terminating"}]
    /\ service \in [ProjectIds -> {"none", "preparing", "visible"}]
    /\ kept \subseteq ProjectIds
    /\ contested \subseteq Names
    /\ pc \in [Procs -> PCs]
    /\ req \in [Procs -> Request]

Init ==
    /\ project = [p \in ProjectIds |-> NoProject]
    /\ members = {}
    /\ ns \in [Names -> {"absent", "active", "terminating"}]   \* not Board's so far
    /\ service = [p \in ProjectIds |-> "none"]
    /\ kept = {}
    /\ contested = {}
    /\ pc = [x \in Procs |-> "idle"]
    /\ req = [x \in Procs |-> NullRequest]

-----------------------------------------------------------------------------
\* The initialiser keeps no request waiting: a token is a JWT that the token
\* server checks, so who was signed in before a restart still is after it.
Free(u) == pc[u] = "idle" /\ (Overlap \/ \A v \in Users : pc[v] = "idle")

Begin(u, c, r) == pc' = [pc EXCEPT ![u] = c] /\ req' = [req EXCEPT ![u] = r]

Goto(u, c) == pc' = [pc EXCEPT ![u] = c] /\ UNCHANGED req

Return(u) == Begin(u, "idle", NullRequest)

Live(p) == project[p].state = "live"

\* By name alone: a deleted project has had its name changed.
ProjectExists(n) == \E p \in ProjectIds : Live(p) /\ project[p].name = n

Unused == {p \in ProjectIds : project[p].state = "none"}

MembersOf(p) == {m \in members : m.project = p}

IsProjectMember(u, p) == \E m \in MembersOf(p) : m.user = u

\* ResolveUserPrivilege: a member or a system administrator, who becomes a
\* member by this.
ResolveUserPrivilege(u, p) ==
    /\ Live(p)
    /\ u \in SysAdmins \/ IsProjectMember(u, p)
    /\ members' = members \cup {MemberRow(u, p)}

ResolveProjectOwner(u, p) ==
    /\ ResolveUserPrivilege(u, p)
    /\ u \in SysAdmins \/ project[p].owner = u

\* x has found the name n free and not inserted it yet.
Creating(x, n) == pc[x] \in {"checkNamespace", "addProject"} /\ req[x].name = n

\* Remembers the names that two have found free: x is the second.
Contest(x, n) ==
    contested' = contested \cup
                   {m \in {n} : \E y \in Procs \ {x} : Creating(y, m)}

-----------------------------------------------------------------------------
(* Creating a project: CreateProjectAction, and the initialiser, which      *)
(* stops after the row of the member.                                       *)

CreateProjectAction(u) ==
    /\ "create" \in Requests
    /\ Free(u)
    /\ Unused # {}          \* bound: an id is left
    /\ \E n \in Names :
        /\ ~ProjectExists(n)
        /\ Contest(u, n)
        /\ Begin(u, "checkNamespace", [NullRequest EXCEPT !.name = n, !.user = u])
    /\ UNCHANGED <<project, members, ns, service, kept>>

NamespaceExists(n) == ns[n] # "absent"

CheckNamespace(u) ==
    /\ pc[u] = "checkNamespace"
    /\ \/ /\ ~NamespaceExists(req[u].name)
          /\ Goto(u, "addProject")
       \/ /\ NamespaceExists(req[u].name) \/ "namespace" \in Faults
          /\ Return(u)
    /\ UNCHANGED <<project, members, ns, service, kept, contested>>

AddProject(u) ==
    /\ pc[u] = "addProject"
    /\ \E p \in Unused :
        /\ \A q \in Unused : p <= q
        /\ project' = [project EXCEPT ![p] =
                         [name |-> req[u].name, owner |-> req[u].user, state |-> "live"]]
        /\ Begin(u, "addMember", [req[u] EXCEPT !.project = p])
    /\ UNCHANGED <<members, ns, service, kept, contested>>

AddMember(u) ==
    /\ pc[u] = "addMember"
    /\ members' = members \cup {MemberRow(req[u].user, req[u].project)}
    /\ Goto(u, IF u = Server THEN "syncProjects" ELSE "createNamespace")
    /\ UNCHANGED <<project, ns, service, kept, contested>>

\* Variant: the error of the namespace's creation is logged and forgotten.
CreateNamespaceForgivingly(u) ==
    LET n == req[u].name IN
    /\ pc[u] = "createNamespace"
    /\ \/ ns' = [ns EXCEPT ![n] = IF @ = "absent" THEN "active" ELSE @]
       \/ "namespace" \in Faults /\ UNCHANGED ns
    /\ Goto(u, "createRepo")
    /\ UNCHANGED <<project, members, service, kept, contested>>

\* A namespace that exists by now will do, whosever it is.
CreateNamespace(u) ==
    LET n == req[u].name IN
    /\ pc[u] = "createNamespace"
    /\ \/ /\ ns' = [ns EXCEPT ![n] = IF @ = "absent" THEN "active" ELSE @]
          /\ Goto(u, "createRepo")
       \/ /\ "namespace" \in Faults
          /\ UNCHANGED ns
          /\ Return(u)
    /\ UNCHANGED <<project, members, service, kept, contested>>

CreateRepoAndJob(u) ==
    /\ pc[u] = "createRepo"
    /\ \/ kept' = kept \cup {req[u].project}
       \/ "repo" \in Faults /\ UNCHANGED kept
    /\ Return(u)
    /\ UNCHANGED <<project, members, ns, service, contested>>

-----------------------------------------------------------------------------
(* Deleting a project: it must have at most one member and no service that  *)
(* its owner can see; then its namespace goes, and last its row is marked.  *)

DeleteProjectAction(u, p) ==
    /\ "delete" \in Requests
    /\ Free(u)
    /\ Live(p)
    /\ u \in SysAdmins \/ project[p].owner = u
    /\ Begin(u, "checkMembers",
             [NullRequest EXCEPT !.project = p, !.name = project[p].name])
    /\ UNCHANGED <<project, members, ns, service, kept, contested>>

CheckMembers(u) ==
    /\ pc[u] = "checkMembers"
    /\ IF Cardinality(MembersOf(req[u].project)) > 1
       THEN Return(u) ELSE Goto(u, "checkServices")
    /\ UNCHANGED <<project, members, ns, service, kept, contested>>

OwnerSees(p) ==
    project[p].owner \in SysAdmins \/ IsProjectMember(project[p].owner, p)

\* Variant: only services whose owner deletes the project are looked for.
CheckServicesOfOwner(u) ==
    LET p == req[u].project IN
    /\ pc[u] = "checkServices"
    /\ IF service[p] = "visible" /\ project[p].owner = u
       THEN Return(u) /\ UNCHANGED kept
       ELSE Goto(u, "deleteNamespace") /\ kept' = kept \ {p}
    /\ UNCHANGED <<project, members, ns, service, contested>>

CheckServices(u) ==
    LET p == req[u].project IN
    /\ pc[u] = "checkServices"
    /\ IF service[p] = "visible" /\ OwnerSees(p)
       THEN Return(u) /\ UNCHANGED kept
       ELSE Goto(u, "deleteNamespace") /\ kept' = kept \ {p}
    /\ UNCHANGED <<project, members, ns, service, contested>>

DeleteNamespace(u) ==
    LET n == req[u].name IN
    /\ pc[u] = "deleteNamespace"
    /\ \/ /\ ns' = [ns EXCEPT ![n] = IF @ = "active" THEN "terminating" ELSE @]
          /\ Goto(u, "markDeleted")
       \/ /\ ns[n] = "terminating" \/ "namespace" \in Faults
          /\ UNCHANGED ns
          /\ Return(u)
    /\ UNCHANGED <<project, members, service, kept, contested>>

MarkDeleted(u) ==
    /\ pc[u] = "markDeleted"
    /\ project' = [project EXCEPT ![req[u].project].state = "deleted"]
    /\ Return(u)
    /\ UNCHANGED <<members, ns, service, kept, contested>>

-----------------------------------------------------------------------------
(* Members. *)

MemberRequest(u, p, v) == [NullRequest EXCEPT !.project = p, !.user = v]

AddOrUpdateProjectMemberAction(u, p, v) ==
    /\ "addMember" \in Requests
    /\ Free(u)
    /\ ResolveProjectOwner(u, p)
    /\ Begin(u, "insertMember", MemberRequest(u, p, v))
    /\ UNCHANGED <<project, ns, service, kept, contested>>

InsertMember(u) ==
    /\ pc[u] = "insertMember"
    /\ members' = members \cup {MemberRow(req[u].user, req[u].project)}
    /\ Return(u)
    /\ UNCHANGED <<project, ns, service, kept, contested>>

DeleteProjectMemberAction(u, p, v) ==
    /\ "removeMember" \in Requests
    /\ Free(u)
    /\ ResolveProjectOwner(u, p)
    /\ Begin(u, "deleteMember", MemberRequest(u, p, v))
    /\ UNCHANGED <<project, ns, service, kept, contested>>

\* The row is deleted by its id alone.
DeleteMember(u) ==
    /\ pc[u] = "deleteMember"
    /\ members' = {m \in members : m.id # MemberId(req[u].user, req[u].project)}
    /\ Return(u)
    /\ UNCHANGED <<project, ns, service, kept, contested>>

-----------------------------------------------------------------------------
(* The project's service, as far as projects depend on it. *)

DeployServiceAction(u, p) ==
    /\ "deploy" \in Requests
    /\ Free(u)
    /\ service[p] = "none"   \* bound: one service of a project
    /\ ResolveUserPrivilege(u, p)
    /\ Begin(u, "insertService",
             [NullRequest EXCEPT !.project = p, !.name = project[p].name])
    /\ UNCHANGED <<project, ns, service, kept, contested>>

CreateServiceConfig(u) ==
    /\ pc[u] = "insertService"
    /\ service' = [service EXCEPT ![req[u].project] = "preparing"]
    /\ Goto(u, "deployService")
    /\ UNCHANGED <<project, members, ns, kept, contested>>

\* Nothing can be created in a namespace that is terminating.
DeployService(u) ==
    /\ pc[u] = "deployService"
    /\ \/ /\ ns[req[u].name] = "active"
          /\ service' = [service EXCEPT ![req[u].project] = "visible"]
       \/ /\ ns[req[u].name] # "active" \/ "deploy" \in Faults
          /\ UNCHANGED service
    /\ Return(u)
    /\ UNCHANGED <<project, members, ns, kept, contested>>

DeleteServiceAction(u, p) ==
    /\ "undeploy" \in Requests
    /\ Free(u)
    /\ service[p] # "none"
    /\ ResolveUserPrivilege(u, p)
    /\ Begin(u, "deleteService", [NullRequest EXCEPT !.project = p])
    /\ UNCHANGED <<project, ns, service, kept, contested>>

DeleteService(u) ==
    /\ pc[u] = "deleteService"
    /\ \/ service' = [service EXCEPT ![req[u].project] = "none"]
       \/ "undeploy" \in Faults /\ UNCHANGED service
    /\ Return(u)
    /\ UNCHANGED <<project, members, ns, kept, contested>>

-----------------------------------------------------------------------------
(* The server stops and comes up again: syncUpWithK8s first gives every     *)
(* project a namespace, then every namespace a project.                     *)

\* The initialiser may be held by an earlier error and not come to this.
Restart ==
    /\ "restart" \in Requests
    /\ req' = [x \in Procs |-> NullRequest]
    /\ \E c \in {"idle", "listProjects"} :
         pc' = [x \in Procs |-> IF x = Server THEN c ELSE "idle"]
    /\ UNCHANGED <<project, members, ns, service, kept, contested>>

\* What the list holds may be out of date when its turn comes.
ListProjects ==
    /\ pc[Server] = "listProjects"
    /\ Begin(Server, "syncNamespaces",
             [NullRequest EXCEPT !.projects = {p \in ProjectIds : Live(p)}])
    /\ UNCHANGED <<project, members, ns, service, kept, contested>>

\* The administrator sees all projects; an error ends this part, not the
\* initialiser.  When it ends the namespaces are listed for the next part.
SyncNamespaceByOwnerID ==
    LET listed == {n \in Names : NamespaceExists(n)} IN
    /\ pc[Server] = "syncNamespaces"
    /\ \/ /\ req[Server].projects = {} \/ "namespace" \in Faults
          /\ \E names \in {listed} \cup {{} : f \in Faults \cap {"namespace"}} :
               Begin(Server, "syncProjects",
                     [req[Server] EXCEPT !.projects = {}, !.names = names])
          /\ UNCHANGED ns
       \/ \E p \in req[Server].projects :
            /\ ns' = [ns EXCEPT ![project[p].name] = IF @ = "absent" THEN "active" ELSE @]
            /\ Begin(Server, "syncNamespaces", [req[Server] EXCEPT !.projects = @ \ {p}])
    /\ UNCHANGED <<project, members, service, kept, contested>>

\* What is done with a namespace of the list: it is given a project, or it has one.
TakeOver(n, owner) ==
    /\ Contest(Server, n)
    /\ Begin(Server, "addProject",
             [req[Server] EXCEPT !.names = @ \ {n}, !.name = n, !.user = owner])

PassOver(n) ==
    /\ Begin(Server, "syncProjects", [req[Server] EXCEPT !.names = @ \ {n}])
    /\ UNCHANGED contested

\* Variant: every namespace of the list is given a project.
SyncProjectsUnchecked ==
    /\ pc[Server] = "syncProjects"
    /\ \/ \E n \in req[Server].names :
            IF Unused = {} THEN PassOver(n) ELSE TakeOver(n, AdminId)
       \/ req[Server].names = {} /\ Return(Server) /\ UNCHANGED contested
    /\ UNCHANGED <<project, members, ns, service, kept>>

\* Variant: the owner of the new project is not set.
SyncProjectsOfNobody ==
    /\ pc[Server] = "syncProjects"
    /\ \/ \E n \in req[Server].names :
            IF ProjectExists(n) \/ Unused = {} THEN PassOver(n) ELSE TakeOver(n, Server)
       \/ req[Server].names = {} /\ Return(Server) /\ UNCHANGED contested
    /\ UNCHANGED <<project, members, ns, service, kept>>

SyncProjectsWithK8s ==
    /\ pc[Server] = "syncProjects"
    /\ \/ \E n \in req[Server].names :
            IF ProjectExists(n) \/ Unused = {}   \* bound: an id is left
            THEN PassOver(n) ELSE TakeOver(n, AdminId)
       \/ req[Server].names = {} /\ Return(Server) /\ UNCHANGED contested
    /\ UNCHANGED <<project, members, ns, service, kept>>

NamespaceGone(n) ==
    /\ ns[n] = "terminating"
    /\ ns' = [ns EXCEPT ![n] = "absent"]
    /\ UNCHANGED <<project, members, service, kept, contested, pc, req>>

-----------------------------------------------------------------------------
NewRequest(u) ==
    \/ CreateProjectAction(u)
    \/ \E p \in ProjectIds :
        \/ DeleteProjectAction(u, p)
        \/ DeployServiceAction(u, p)
        \/ DeleteServiceAction(u, p)
        \/ \E v \in Users :
            \/ AddOrUpdateProjectMemberAction(u, p, v)
            \/ DeleteProjectMemberAction(u, p, v)

Continue(x) ==
    \/ CheckNamespace(x)
    \/ AddProject(x)
    \/ AddMember(x)
    \/ CreateNamespace(x)
    \/ CreateRepoAndJob(x)
    \/ CheckMembers(x)
    \/ CheckServices(x)
    \/ DeleteNamespace(x)
    \/ MarkDeleted(x)
    \/ InsertMember(x)
    \/ DeleteMember(x)
    \/ CreateServiceConfig(x)
    \/ DeployService(x)
    \/ DeleteService(x)

Initialise == Restart \/ ListProjects \/ SyncNamespaceByOwnerID \/ SyncProjectsWithK8s

Next ==
    \/ \E u \in Users : NewRequest(u)
    \/ \E x \in Procs : Continue(x)
    \/ Initialise
    \/ \E n \in Names : NamespaceGone(n)

Spec == Init /\ [][Next]_vars
-----------------------------------------------------------------------------
(* Properties. *)

\* A name belongs to one live project, unless two creations of it, or a creation
\* and the initialiser's taking over of its namespace, were between their look-up
\* and their insert at one time.  The table has no key that says so: it is for
\* CreateProjectAction and SyncProjectsWithK8s to look first, and of two projects
\* GetProjectByName only ever finds one.
LiveNamesUnique ==
    \A p, q \in ProjectIds :
        Live(p) /\ Live(q) /\ project[p].name = project[q].name =>
            p = q \/ project[p].name \in contested

\* A project that was created with success keeps its namespace until a
\* request to delete it has passed the checks of DeleteProject, whatever
\* other requests fail and wherever the server stops.  Of a name that was
\* contested there may be two projects, and the namespace goes with either.
KeptProjectsHaveNamespace ==
    \A p \in kept :
        /\ Live(p)
        /\ project[p].name \in contested \/ ns[project[p].name] = "active"

\* The namespace of a service that is deployed is not deleted under it: what
\* DeleteProject checks suffices, whoever sends the request, provided that
\* the owner of the project is still a member of it and so sees the service,
\* and that there cannot be another project of the name.
ServicesKeepNamespace ==
    [][\A p \in ProjectIds :
        /\ service[p] = "visible" /\ Live(p) /\ OwnerSees(p)
        /\ project[p].name \notin contested
        =>  ~(ns[project[p].name] = "active" /\ ns'[project[p].name] = "terminating")]_vars

\* A membership ends when it is that membership which is removed.
RemovalIsLocal ==
    [][\A m \in members \ members' :
        \E u \in Users :
            /\ pc[u] = "deleteMember"
            /\ req[u].user = m.user
            /\ req[u].project = m.project]_vars
-----------------------------------------------------------------------------
(* What makes the invariants inductive. *)

\* What a call relies on in the local variables of its request.
KnownBy(c, r) ==
    /\ c \in {"checkNamespace", "addProject", "addMember", "insertMember",
             "deleteMember"}
         => r.user \in Users
    /\ c \in {"checkNamespace", "addProject"} => r.name \in Names
    /\ c \in {"addMember", "createNamespace", "createRepo", "checkMembers",
             "checkServices", "deleteNamespace", "markDeleted", "insertMember",
             "deleteMember", "insertService", "deployService", "deleteService"}
         => r.project \in ProjectIds

KnownRequests ==
    /\ \A p \in ProjectIds : Live(p) => project[p].name \in Names
    /\ \A x \in Procs : KnownBy(pc[x], req[x])

OneAtATime == \A u, v \in Users : pc[u] # "idle" /\ pc[v] # "idle" => u = v

\* Who has found a name free finds it free when it inserts it, and is the only
\* one to insert it, unless the name is contested.
NamesClaimed ==
    \A x \in Procs : \A n \in Names :
        Creating(x, n) /\ n \notin contested =>
            /\ ~ProjectExists(n)
            /\ \A y \in Procs : Creating(y, n) => y = x

HasProject(x) == Live(req[x].project) /\ project[req[x].project].name = req[x].name

\* A user's creation goes on with the project it has made, and the namespace of
\* its name, should the initialiser have made one meanwhile, is nobody else's.
CreatePhase(u) ==
    /\ pc[u] \in {"addMember", "createNamespace", "createRepo"} => HasProject(u)
    /\ pc[u] \in {"addProject", "addMember", "createNamespace"} =>
         ns[req[u].name] # "terminating"
    /\ pc[u] = "createRepo" => ns[req[u].name] = "active"

\* A deletion that touches the namespace has been given up on keeping it.
DeletePhase(u) ==
    /\ pc[u] \in {"checkMembers", "checkServices", "deleteNamespace", "markDeleted"} =>
         HasProject(u)
    /\ pc[u] \in {"deleteNamespace", "markDeleted"} => req[u].project \notin kept

\* The calls of the initialiser.
ServerCalls ==
    {"idle", "listProjects", "syncNamespaces", "syncProjects", "addProject", "addMember"}

\* What is inductive in every instance.
NamesInv == KnownRequests /\ NamesClaimed /\ LiveNamesUnique

\* The inductive invariant of instances whose users' requests do not overlap.
ProjectsInv ==
    /\ NamesInv
    /\ OneAtATime
    /\ pc[Server] \in ServerCalls
    /\ KeptProjectsHaveNamespace
    /\ \A u \in Users : CreatePhase(u) /\ DeletePhase(u)
=============================================================================
