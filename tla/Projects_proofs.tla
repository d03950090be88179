---------------------------- MODULE Projects_proofs ----------------------------
(* What the proof system checks about Projects: type correctness and the      *)
(* uniqueness of names in every instance, and for the instances whose users'  *)
(* requests do not overlap the inductive invariant, from which follow the     *)
(* properties of namespaces.                                                  *)
EXTENDS Projects, TLAPS

-----------------------------------------------------------------------------
(* Type correctness. *)

LEMMA UsersAreProcs == Users \subseteq Procs /\ Server \in Procs /\ Server \notin Users
BY ProjectsAssumption DEF Procs

LEMMA NullRequestType == NullRequest \in Request
BY UsersAreProcs DEF NullRequest, Request

\* How a process moves on: x makes call c next, with the local variables r.
Moves(x, c, r) ==
    \/ Begin(x, c, r)
    \/ Goto(x, c) /\ r = req[x]
    \/ Return(x) /\ c = "idle" /\ r = NullRequest

LEMMA Moved ==
    ASSUME TypeOK, NEW x \in Procs, NEW c \in PCs, NEW r \in Request, Moves(x, c, r)
    PROVE  /\ pc' \in [Procs -> PCs] /\ req' \in [Procs -> Request]
           /\ pc'[x] = c /\ req'[x] = r
           /\ \A y \in Procs : y # x => pc'[y] = pc[y] /\ req'[y] = req[y]
BY DEF Moves, Begin, Goto, Return, TypeOK

\* The part of the types that is about the tables and the cluster.
TablesOK ==
    /\ project \in [ProjectIds -> Project]
    /\ members \subseteq {MemberRow(u, p) : u \in Users, p \in ProjectIds}
    /\ ns \in [Names -> {"absent", "active", "terminating"}]
    /\ service \in [ProjectIds -> {"none", "preparing", "visible"}]
    /\ kept \subseteq ProjectIds
    /\ contested \subseteq Names
    /\ \A p \in ProjectIds : Live(p) => project[p].name \in Names

\* TypeOK alone is not inductive: that the owner of a new project is a user
\* depends on what the earlier calls of the request have put there.
TypeInv == TypeOK /\ KnownRequests

LEMMA TypeStep ==
    ASSUME TypeInv, NEW x \in Procs, NEW c \in PCs, NEW r \in Request,
           Moves(x, c, r), KnownBy(c, r), TablesOK'
    PROVE  TypeInv'
<1>1. TypeOK
    BY DEF TypeInv
<1>2. /\ pc' \in [Procs -> PCs] /\ req' \in [Procs -> Request]
      /\ pc'[x] = c /\ req'[x] = r
      /\ \A y \in Procs : y # x => pc'[y] = pc[y] /\ req'[y] = req[y]
    BY <1>1, Moved
<1>3. TypeOK'
    BY <1>2 DEF TablesOK, TypeOK
<1>4. \A y \in Procs : KnownBy(pc[y], req[y])'
    <2>1. KnownBy(pc'[x], req'[x])
        BY <1>2
    <2>2. \A y \in Procs : y # x => KnownBy(pc'[y], req'[y])
        BY <1>2 DEF TypeInv, KnownRequests
    <2>. QED  BY <2>1, <2>2 DEF KnownBy
<1>. QED  BY <1>3, <1>4 DEF TablesOK, TypeInv, KnownRequests

LEMMA TablesStay ==
    ASSUME TypeInv, UNCHANGED <<project, members, ns, service, kept>>, contested' \subseteq Names
    PROVE  TablesOK'
BY DEF TypeInv, TypeOK, KnownRequests, TablesOK, Live

\* A request that begins, or ends, and changes no table but that of members.
LEMMA TypeBegin ==
    ASSUME TypeInv, NEW u \in Procs, NEW c \in PCs, NEW r \in Request, Begin(u, c, r),
           KnownBy(c, r), members' \subseteq {MemberRow(v, p) : v \in Users, p \in ProjectIds},
           UNCHANGED <<project, ns, service, kept>>, contested' \subseteq Names
    PROVE  TypeInv'
<1>1. TablesOK'
    BY DEF TypeInv, TypeOK, KnownRequests, TablesOK, Live
<1>. QED  BY <1>1, TypeStep DEF Moves

LEMMA PrivilegeTypes ==
    ASSUME TypeOK, NEW u \in Users, NEW p \in ProjectIds,
           ResolveUserPrivilege(u, p) \/ ResolveProjectOwner(u, p)
    PROVE  /\ members' \subseteq {MemberRow(v, q) : v \in Users, q \in ProjectIds}
           /\ Live(p)
BY DEF ResolveUserPrivilege, ResolveProjectOwner, TypeOK

\* Only what is looked up becomes contested.
LEMMA ContestedNames ==
    ASSUME TypeInv, NEW x \in Procs, NewRequest(x) \/ Continue(x) \/ Initialise
    PROVE  contested' \subseteq Names
<1>0. contested \subseteq Names /\ req[Server].names \subseteq Names
    <2>1. contested \subseteq Names /\ req[Server] \in Request
        BY UsersAreProcs DEF TypeInv, TypeOK
    <2>. QED  BY <2>1 DEF Request
<1>1. ASSUME NEW y, NEW n \in Names, Contest(y, n) PROVE contested' \subseteq Names
    BY <1>0, <1>1 DEF Contest
<1>2. CASE CreateProjectAction(x)
    BY <1>1, <1>2 DEF CreateProjectAction
<1>3. CASE SyncProjectsWithK8s
    BY <1>0, <1>1, <1>3 DEF SyncProjectsWithK8s, TakeOver, PassOver
<1>4. CASE NewRequest(x) /\ ~CreateProjectAction(x)
    BY <1>0, <1>4 DEF NewRequest, DeleteProjectAction, DeployServiceAction,
       DeleteServiceAction, AddOrUpdateProjectMemberAction, DeleteProjectMemberAction
<1>5. CASE Continue(x)
    BY <1>0, <1>5 DEF Continue, CheckNamespace, AddProject, AddMember, CreateNamespace,
       CreateRepoAndJob, CheckMembers, CheckServices, DeleteNamespace, MarkDeleted,
       InsertMember, DeleteMember, CreateServiceConfig, DeployService, DeleteService
<1>6. CASE Initialise /\ ~SyncProjectsWithK8s
    BY <1>0, <1>6 DEF Initialise, Restart, ListProjects, SyncNamespaceByOwnerID
<1>. QED  BY <1>2, <1>3, <1>4, <1>5, <1>6

LEMMA TypeNewRequest ==
    ASSUME TypeInv, NEW u \in Users, NewRequest(u)
    PROVE  TypeInv'
<1>. USE UsersAreProcs
<1>0. TypeOK /\ KnownRequests
    BY DEF TypeInv
<1>k. contested' \subseteq Names
    BY ContestedNames
<1>1. CASE CreateProjectAction(u)
    <2>1. PICK n \in Names :
            Begin(u, "checkNamespace", [NullRequest EXCEPT !.name = n, !.user = u])
        BY <1>1 DEF CreateProjectAction
    <2>2. [NullRequest EXCEPT !.name = n, !.user = u] \in Request
        BY NullRequestType DEF Request
    <2>3. KnownBy("checkNamespace", [NullRequest EXCEPT !.name = n, !.user = u])
        BY DEF KnownBy, NullRequest
    <2>. QED  BY <1>0, <1>1, <2>1, <2>2, <2>3, <1>k, TypeBegin DEF CreateProjectAction, TypeOK, PCs
<1>2. ASSUME NEW p \in ProjectIds, DeleteProjectAction(u, p) PROVE TypeInv'
    <2>. DEFINE r == [NullRequest EXCEPT !.project = p, !.name = project[p].name]
    <2>1. r \in Request
        BY <1>0, <1>2, NullRequestType DEF DeleteProjectAction, Request, KnownRequests
    <2>2. KnownBy("checkMembers", r)
        BY DEF KnownBy, NullRequest
    <2>3. Begin(u, "checkMembers", r) /\ UNCHANGED <<project, members, ns, service, kept>>
        BY <1>2 DEF DeleteProjectAction
    <2>. HIDE DEF r
    <2>. QED  BY <1>0, <2>1, <2>2, <2>3, <1>k, TypeBegin DEF TypeOK, PCs
<1>3. ASSUME NEW p \in ProjectIds, DeployServiceAction(u, p) PROVE TypeInv'
    <2>. DEFINE r == [NullRequest EXCEPT !.project = p, !.name = project[p].name]
    <2>1. /\ members' \subseteq {MemberRow(v, q) : v \in Users, q \in ProjectIds}
          /\ Live(p)
        BY <1>0, <1>3, PrivilegeTypes DEF DeployServiceAction
    <2>2. r \in Request
        <3>1. project[p].name \in Names
            BY <1>0, <2>1 DEF KnownRequests
        <3>. QED  BY <3>1, NullRequestType DEF Request
    <2>3. KnownBy("insertService", r)
        BY DEF KnownBy, NullRequest
    <2>4. Begin(u, "insertService", r) /\ UNCHANGED <<project, ns, service, kept>>
        BY <1>3 DEF DeployServiceAction
    <2>. HIDE DEF r
    <2>. QED  BY <2>1, <2>2, <2>3, <2>4, <1>k, TypeBegin DEF PCs
<1>4. ASSUME NEW p \in ProjectIds, DeleteServiceAction(u, p) PROVE TypeInv'
    <2>. DEFINE r == [NullRequest EXCEPT !.project = p]
    <2>1. members' \subseteq {MemberRow(v, q) : v \in Users, q \in ProjectIds}
        BY <1>0, <1>4, PrivilegeTypes DEF DeleteServiceAction
    <2>2. r \in Request
        BY NullRequestType DEF Request
    <2>3. KnownBy("deleteService", r)
        BY DEF KnownBy, NullRequest
    <2>4. Begin(u, "deleteService", r) /\ UNCHANGED <<project, ns, service, kept>>
        BY <1>4 DEF DeleteServiceAction
    <2>. HIDE DEF r
    <2>. QED  BY <2>1, <2>2, <2>3, <2>4, <1>k, TypeBegin DEF PCs
<1>5. ASSUME NEW p \in ProjectIds, NEW v \in Users,
             \/ AddOrUpdateProjectMemberAction(u, p, v)
             \/ DeleteProjectMemberAction(u, p, v)
      PROVE  TypeInv'
    <2>1. members' \subseteq {MemberRow(w, q) : w \in Users, q \in ProjectIds}
        BY <1>0, <1>5, PrivilegeTypes
           DEF AddOrUpdateProjectMemberAction, DeleteProjectMemberAction
    <2>2. MemberRequest(u, p, v) \in Request
        BY NullRequestType DEF Request, MemberRequest
    <2>3. /\ KnownBy("insertMember", MemberRequest(u, p, v))
          /\ KnownBy("deleteMember", MemberRequest(u, p, v))
        BY DEF KnownBy, MemberRequest, NullRequest
    <2>4. PICK c \in {"insertMember", "deleteMember"} : Begin(u, c, MemberRequest(u, p, v))
        BY <1>5 DEF AddOrUpdateProjectMemberAction, DeleteProjectMemberAction
    <2>5. UNCHANGED <<project, ns, service, kept>>
        BY <1>5 DEF AddOrUpdateProjectMemberAction, DeleteProjectMemberAction
    <2>6. c \in PCs /\ KnownBy(c, MemberRequest(u, p, v))
        BY <2>3, <2>4 DEF PCs
    <2>. QED  BY <2>1, <2>2, <2>4, <2>5, <2>6, <1>k, TypeBegin
<1>. QED  BY <1>1, <1>2, <1>3, <1>4, <1>5 DEF NewRequest

\* A call that leaves the tables as well typed as they were.
LEMMA TypeCall ==
    ASSUME TypeInv, NEW x \in Procs, NEW c \in PCs, NEW r \in Request,
           Moves(x, c, r), KnownBy(c, r),
           project' \in [ProjectIds -> Project],
           \A p \in ProjectIds : Live(p)' => project'[p].name \in Names,
           members' \subseteq {MemberRow(u, p) : u \in Users, p \in ProjectIds},
           ns' \in [Names -> {"absent", "active", "terminating"}],
           service' \in [ProjectIds -> {"none", "preparing", "visible"}],
           kept' \subseteq ProjectIds,
           contested' \subseteq Names
    PROVE  TypeInv'
<1>1. TablesOK'
    BY DEF TablesOK
<1>. QED  BY <1>1, TypeStep

LEMMA TypeContinue ==
    ASSUME TypeInv, NEW x \in Procs, Continue(x)
    PROVE  TypeInv'
<1>. USE UsersAreProcs, NullRequestType
<1>0. /\ TypeOK /\ KnownRequests
      /\ req[x] \in Request
      /\ KnownBy(pc[x], req[x])
      /\ \A p \in ProjectIds : Live(p) => project[p].name \in Names
    BY DEF TypeInv, TypeOK, KnownRequests
<1>k. contested' \subseteq Names
    BY ContestedNames
\* Any call that ends the request.
<1>r. KnownBy("idle", NullRequest) /\ "idle" \in PCs /\ (Return(x) => Moves(x, "idle", NullRequest))
    BY DEF KnownBy, PCs, Moves
<1>1. CASE CheckNamespace(x)
    <2>1. KnownBy("addProject", req[x]) /\ "addProject" \in PCs
        BY <1>0, <1>1 DEF CheckNamespace, KnownBy, PCs
    <2>2. UNCHANGED <<project, members, ns, service, kept>>
        BY <1>1 DEF CheckNamespace
    <2>3. Moves(x, "addProject", req[x]) \/ Return(x)
        BY <1>1 DEF CheckNamespace, Moves
    <2>. QED  BY <1>0, <1>r, <2>1, <2>2, <2>3, <1>k, TablesStay, TypeStep
<1>2. CASE AddProject(x)
    <2>1. PICK p \in ProjectIds :
            /\ project' = [project EXCEPT ![p] =
                             [name |-> req[x].name, owner |-> req[x].user, state |-> "live"]]
            /\ Begin(x, "addMember", [req[x] EXCEPT !.project = p])
        BY <1>2 DEF AddProject, Unused
    <2>2. req[x].user \in Users /\ req[x].name \in Names
        BY <1>0, <1>2 DEF AddProject, KnownBy
    <2>. DEFINE new == [name |-> req[x].name, owner |-> req[x].user, state |-> "live"]
                r == [req[x] EXCEPT !.project = p]
    <2>3. new \in Project /\ new.name \in Names
        BY <2>2 DEF Project
    <2>4. r \in Request
        BY <1>0 DEF Request
    <2>5. KnownBy("addMember", r) /\ "addMember" \in PCs
        BY <1>0, <2>2 DEF KnownBy, Request, PCs
    <2>6. project' = [project EXCEPT ![p] = new] /\ Begin(x, "addMember", r)
        BY <2>1
    <2>. HIDE DEF new, r
    <2>7. /\ project' \in [ProjectIds -> Project]
          /\ \A q \in ProjectIds : Live(q)' => project'[q].name \in Names
        BY <1>0, <2>3, <2>6 DEF TypeOK, Live
    <2>. QED  BY <1>0, <1>2, <2>4, <2>5, <2>6, <2>7, <1>k, TypeCall DEF AddProject, TypeOK, Moves
<1>3. CASE AddMember(x)
    <2>1. req[x].user \in Users /\ req[x].project \in ProjectIds
        BY <1>0, <1>3 DEF AddMember, KnownBy
    <2>2. /\ members' \subseteq {MemberRow(u, p) : u \in Users, p \in ProjectIds}
          /\ UNCHANGED <<project, ns, service, kept>>
        BY <1>0, <1>3, <2>1 DEF AddMember, TypeOK
    <2>3. PICK c \in {"syncProjects", "createNamespace"} : Moves(x, c, req[x])
        BY <1>3 DEF AddMember, Moves
    <2>4. c \in PCs /\ KnownBy(c, req[x])
        BY <2>1, <2>3 DEF KnownBy, PCs
    <2>. QED  BY <1>0, <2>2, <2>3, <2>4, <1>k, TypeCall DEF TypeOK, Live
<1>4. CASE CreateNamespace(x)
    <2>1. KnownBy("createRepo", req[x]) /\ "createRepo" \in PCs
        BY <1>0, <1>4 DEF CreateNamespace, KnownBy, PCs
    <2>2. /\ ns' \in [Names -> {"absent", "active", "terminating"}]
          /\ UNCHANGED <<project, members, service, kept>>
        BY <1>0, <1>4 DEF CreateNamespace, TypeOK
    <2>3. Moves(x, "createRepo", req[x]) \/ Return(x)
        BY <1>4 DEF CreateNamespace, Moves
    <2>. QED  BY <1>0, <1>r, <2>1, <2>2, <2>3, <1>k, TypeCall DEF TypeOK, Live
<1>5. CASE CreateRepoAndJob(x)
    <2>1. req[x].project \in ProjectIds
        BY <1>0, <1>5 DEF CreateRepoAndJob, KnownBy
    <2>2. kept' \subseteq ProjectIds /\ Return(x) /\ UNCHANGED <<project, members, ns, service>>
        BY <1>0, <1>5, <2>1 DEF CreateRepoAndJob, TypeOK
    <2>. QED  BY <1>0, <1>r, <2>2, <1>k, TypeCall DEF TypeOK, Live
<1>6. CASE CheckMembers(x)
    <2>1. KnownBy("checkServices", req[x]) /\ "checkServices" \in PCs
        BY <1>0, <1>6 DEF CheckMembers, KnownBy, PCs
    <2>2. UNCHANGED <<project, members, ns, service, kept>>
        BY <1>6 DEF CheckMembers
    <2>3. Moves(x, "checkServices", req[x]) \/ Return(x)
        BY <1>6 DEF CheckMembers, Moves
    <2>. QED  BY <1>0, <1>r, <2>1, <2>2, <2>3, <1>k, TablesStay, TypeStep
<1>7. CASE CheckServices(x)
    <2>1. KnownBy("deleteNamespace", req[x]) /\ "deleteNamespace" \in PCs
        BY <1>0, <1>7 DEF CheckServices, KnownBy, PCs
    <2>2. kept' \subseteq ProjectIds /\ UNCHANGED <<project, members, ns, service>>
        BY <1>0, <1>7 DEF CheckServices, TypeOK
    <2>3. Moves(x, "deleteNamespace", req[x]) \/ Return(x)
        BY <1>7 DEF CheckServices, Moves
    <2>. QED  BY <1>0, <1>r, <2>1, <2>2, <2>3, <1>k, TypeCall DEF TypeOK, Live
<1>8. CASE DeleteNamespace(x)
    <2>1. KnownBy("markDeleted", req[x]) /\ "markDeleted" \in PCs
        BY <1>0, <1>8 DEF DeleteNamespace, KnownBy, PCs
    <2>2. /\ ns' \in [Names -> {"absent", "active", "terminating"}]
          /\ UNCHANGED <<project, members, service, kept>>
        BY <1>0, <1>8 DEF DeleteNamespace, TypeOK
    <2>3. Moves(x, "markDeleted", req[x]) \/ Return(x)
        BY <1>8 DEF DeleteNamespace, Moves
    <2>. QED  BY <1>0, <1>r, <2>1, <2>2, <2>3, <1>k, TypeCall DEF TypeOK, Live
<1>9. CASE MarkDeleted(x)
    <2>1. /\ project' = [project EXCEPT ![req[x].project].state = "deleted"]
          /\ Return(x) /\ UNCHANGED <<members, ns, service, kept>>
        BY <1>9 DEF MarkDeleted
    <2>2. PICK q \in ProjectIds : q = req[x].project
        BY <1>0, <1>9 DEF MarkDeleted, KnownBy
    <2>. DEFINE gone == [project[q] EXCEPT !.state = "deleted"]
    <2>3. gone \in Project /\ gone.name = project[q].name /\ gone.state = "deleted"
        <3>1. project[q] \in Project
            BY <1>0 DEF TypeOK
        <3>. QED  BY <3>1 DEF Project
    <2>4. project' = [project EXCEPT ![q] = gone]
        BY <2>1, <2>2
    <2>. HIDE DEF gone
    <2>5. project' \in [ProjectIds -> Project]
        BY <1>0, <2>3, <2>4 DEF TypeOK
    <2>6. \A p \in ProjectIds : Live(p)' => project'[p].name \in Names
        BY <1>0, <2>3, <2>4 DEF TypeOK, Live
    <2>. QED  BY <1>0, <1>r, <2>1, <2>5, <2>6, <1>k, TypeCall DEF TypeOK
<1>10. CASE InsertMember(x) \/ DeleteMember(x)
    <2>1. req[x].user \in Users /\ req[x].project \in ProjectIds
        BY <1>0, <1>10 DEF InsertMember, DeleteMember, KnownBy
    <2>2. /\ members' \subseteq {MemberRow(u, p) : u \in Users, p \in ProjectIds}
          /\ Return(x) /\ UNCHANGED <<project, ns, service, kept>>
        BY <1>0, <1>10, <2>1 DEF InsertMember, DeleteMember, TypeOK
    <2>. QED  BY <1>0, <1>r, <2>2, <1>k, TypeCall DEF TypeOK, Live
<1>11. CASE CreateServiceConfig(x)
    <2>1. KnownBy("deployService", req[x]) /\ "deployService" \in PCs
        BY <1>0, <1>11 DEF CreateServiceConfig, KnownBy, PCs
    <2>2. /\ service' \in [ProjectIds -> {"none", "preparing", "visible"}]
          /\ UNCHANGED <<project, members, ns, kept>>
        <3>1. service \in [ProjectIds -> {"none", "preparing", "visible"}]
            BY <1>0 DEF TypeOK
        <3>2. service' = [service EXCEPT ![req[x].project] = "preparing"]
            BY <1>11 DEF CreateServiceConfig
        <3>3. UNCHANGED <<project, members, ns, kept>>
            BY <1>11 DEF CreateServiceConfig
        <3>. QED  BY <3>1, <3>2, <3>3
    <2>3. Moves(x, "deployService", req[x])
        BY <1>11 DEF CreateServiceConfig, Moves
    <2>. QED  BY <1>0, <2>1, <2>2, <2>3, <1>k, TypeCall DEF TypeOK, Live
<1>12. CASE DeployService(x) \/ DeleteService(x)
    <2>1. /\ service' \in [ProjectIds -> {"none", "preparing", "visible"}]
          /\ Return(x) /\ UNCHANGED <<project, members, ns, kept>>
        BY <1>0, <1>12 DEF DeployService, DeleteService, TypeOK
    <2>. QED  BY <1>0, <1>r, <2>1, <1>k, TypeCall DEF TypeOK, Live
<1>. QED  BY <1>1, <1>2, <1>3, <1>4, <1>5, <1>6, <1>7, <1>8, <1>9, <1>10, <1>11, <1>12
          DEF Continue

LEMMA TypeInitialise ==
    ASSUME TypeInv, Initialise
    PROVE  TypeInv'
<1>. USE UsersAreProcs, NullRequestType
<1>0. /\ TypeOK /\ KnownRequests
      /\ req[Server] \in Request
      /\ KnownBy(pc[Server], req[Server])
    BY DEF TypeInv, TypeOK, KnownRequests
<1>k. contested' \subseteq Names
    BY ContestedNames
<1>1. CASE Restart
    <2>1. PICK c \in {"idle", "listProjects"} :
            pc' = [x \in Procs |-> IF x = Server THEN c ELSE "idle"]
        BY <1>1 DEF Restart
    <2>2. req' = [x \in Procs |-> NullRequest]
        BY <1>1 DEF Restart
    <2>3. KnownBy(c, NullRequest) /\ KnownBy("idle", NullRequest)
        BY DEF KnownBy
    <2>4. /\ pc' \in [Procs -> PCs] /\ req' \in [Procs -> Request]
          /\ \A x \in Procs : KnownBy(pc'[x], req'[x])
        BY <2>1, <2>2, <2>3 DEF PCs
    <2>5. TablesOK'
        BY <1>1, <1>k, TablesStay DEF Restart
    <2>6. TypeOK'
        BY <2>4, <2>5 DEF TablesOK, TypeOK
    <2>7. \A x \in Procs : KnownBy(pc[x], req[x])'
        BY <2>4 DEF KnownBy
    <2>. QED  BY <2>5, <2>6, <2>7 DEF TypeInv, TablesOK, KnownRequests
<1>4. CASE ListProjects
    <2>. DEFINE r == [NullRequest EXCEPT !.projects = {p \in ProjectIds : Live(p)}]
    <2>1. r \in Request
        BY DEF Request
    <2>2. Begin(Server, "syncNamespaces", r)
        BY <1>4 DEF ListProjects
    <2>. HIDE DEF r
    <2>3. "syncNamespaces" \in PCs /\ KnownBy("syncNamespaces", r)
        BY DEF PCs, KnownBy
    <2>4. Moves(Server, "syncNamespaces", r)
        BY <2>2 DEF Moves
    <2>5. UNCHANGED <<project, members, ns, service, kept>>
        BY <1>4 DEF ListProjects
    <2>. QED  BY <1>k, <2>1, <2>3, <2>4, <2>5, TablesStay, TypeStep
<1>2. CASE SyncNamespaceByOwnerID
    <2>2. \A c \in {"syncNamespaces", "syncProjects"} : \A r \in Request :
            c \in PCs /\ KnownBy(c, r)
        BY DEF KnownBy, PCs
    <2>3. ASSUME NEW names \in SUBSET Names,
                 Begin(Server, "syncProjects",
                       [req[Server] EXCEPT !.projects = {}, !.names = names]),
                 UNCHANGED ns
          PROVE  TypeInv'
        <3>. DEFINE r == [req[Server] EXCEPT !.projects = {}, !.names = names]
        <3>1. r \in Request
            BY <1>0 DEF Request
        <3>. HIDE DEF r
        <3>2. Moves(Server, "syncProjects", r)
            BY <2>3 DEF Moves, r
        <3>. QED  BY <1>0, <1>2, <2>2, <2>3, <3>1, <3>2, <1>k, TablesStay, TypeStep
                  DEF SyncNamespaceByOwnerID
    <2>4. ASSUME NEW p \in ProjectIds,
                 ns' = [ns EXCEPT ![project[p].name] = IF @ = "absent" THEN "active" ELSE @],
                 Begin(Server, "syncNamespaces", [req[Server] EXCEPT !.projects = @ \ {p}])
          PROVE  TypeInv'
        <3>. DEFINE r == [req[Server] EXCEPT !.projects = @ \ {p}]
        <3>1. r \in Request
            BY <1>0 DEF Request
        <3>. HIDE DEF r
        <3>2. Moves(Server, "syncNamespaces", r)
            BY <2>4 DEF Moves, r
        <3>3. ns' \in [Names -> {"absent", "active", "terminating"}]
            <4>1. ns \in [Names -> {"absent", "active", "terminating"}]
                BY <1>0 DEF TypeOK
            <4>. QED  BY <2>4, <4>1
        <3>4. UNCHANGED <<project, members, service, kept>>
            BY <1>2 DEF SyncNamespaceByOwnerID
        <3>. QED  BY <1>0, <2>2, <3>1, <3>2, <3>3, <3>4, <1>k, TypeCall
                  DEF TypeOK, KnownRequests, Live
    <2>5. req[Server].projects \subseteq ProjectIds
        BY <1>0 DEF Request
    <2>. QED  BY <1>2, <2>3, <2>4, <2>5 DEF SyncNamespaceByOwnerID
<1>3. CASE SyncProjectsWithK8s
    <2>0. UNCHANGED <<project, members, ns, service, kept>>
        BY <1>3 DEF SyncProjectsWithK8s
    <2>1. req[Server].names \subseteq Names
        BY <1>0 DEF Request
    <2>2. ASSUME Return(Server) PROVE TypeInv'
        <3>1. "idle" \in PCs /\ KnownBy("idle", NullRequest)
            BY DEF PCs, KnownBy
        <3>. QED  BY <1>k, <2>0, <2>2, <3>1, TablesStay, TypeStep DEF Moves
    <2>3. ASSUME NEW n \in Names, PassOver(n) PROVE TypeInv'
        <3>. DEFINE r == [req[Server] EXCEPT !.names = @ \ {n}]
        <3>1. r \in Request
            BY <1>0 DEF Request
        <3>2. Begin(Server, "syncProjects", r)
            BY <2>3 DEF PassOver
        <3>. HIDE DEF r
        <3>3. "syncProjects" \in PCs /\ KnownBy("syncProjects", r)
            BY DEF PCs, KnownBy
        <3>. QED  BY <1>k, <2>0, <3>1, <3>2, <3>3, TablesStay, TypeStep DEF Moves
    <2>4. ASSUME NEW n \in Names, TakeOver(n, AdminId) PROVE TypeInv'
        <3>. DEFINE r == [req[Server] EXCEPT !.names = @ \ {n}, !.name = n, !.user = AdminId]
        <3>1. AdminId \in Users
            BY ProjectsAssumption
        <3>2. r \in Request /\ r.user = AdminId /\ r.name = n
            BY <1>0, <3>1 DEF Request
        <3>3. Begin(Server, "addProject", r)
            BY <2>4 DEF TakeOver
        <3>. HIDE DEF r
        <3>4. "addProject" \in PCs /\ KnownBy("addProject", r)
            BY <3>1, <3>2 DEF PCs, KnownBy
        <3>. QED  BY <1>k, <2>0, <3>2, <3>3, <3>4, TablesStay, TypeStep DEF Moves
    <2>. QED  BY <1>3, <2>1, <2>2, <2>3, <2>4 DEF SyncProjectsWithK8s
<1>. QED  BY <1>1, <1>2, <1>3, <1>4 DEF Initialise

LEMMA TypeNext ==
    TypeInv /\ [Next]_vars => TypeInv'
<1>. SUFFICES ASSUME TypeInv, [Next]_vars PROVE TypeInv'
    OBVIOUS
<1>1. CASE UNCHANGED vars
    BY <1>1 DEF vars, TypeInv, TypeOK, KnownRequests, KnownBy, Live
<1>2. ASSUME NEW n \in Names, NamespaceGone(n) PROVE TypeInv'
    BY <1>2 DEF NamespaceGone, TypeInv, TypeOK, KnownRequests, KnownBy, Live
<1>. QED  BY <1>1, <1>2, TypeNewRequest, TypeContinue, TypeInitialise DEF Next

LEMMA TypeInit == Init => TypeInv
<1>. SUFFICES ASSUME Init PROVE TypeInv
    OBVIOUS
<1>1. NoProject \in Project
    BY ProjectsAssumption DEF NoProject, Project
<1>2. TypeOK
    BY <1>1, NullRequestType DEF Init, TypeOK, PCs
<1>3. KnownRequests
    BY DEF Init, KnownRequests, KnownBy, Live, NoProject
<1>. QED  BY <1>2, <1>3 DEF TypeInv

\* Every state has the types of TypeOK: the rows of projects and members,
\* the states of namespaces and what requests hold between calls.
THEOREM ProjectsTypeCorrect == Spec => []TypeOK
<1>1. TypeInv => TypeOK
    BY DEF TypeInv
<1>. QED  BY <1>1, TypeInit, TypeNext, PTL DEF Spec
-----------------------------------------------------------------------------
(* Names, in every instance: also requests that overlap. *)

NamesOK == TypeInv /\ NamesClaimed /\ LiveNamesUnique

\* A step in which nobody finds a name free and no project is added.
LEMMA NamesStay ==
    ASSUME NamesOK, UNCHANGED contested,
           \A p \in ProjectIds : Live(p)' => Live(p) /\ project'[p].name = project[p].name,
           \A x \in Procs : \A n \in Names : Creating(x, n)' => Creating(x, n)
    PROVE  NamesClaimed' /\ LiveNamesUnique'
<1>1. \A n : ProjectExists(n)' => ProjectExists(n)
    BY DEF ProjectExists
<1>2. NamesClaimed'
    BY <1>1 DEF NamesOK, NamesClaimed
<1>3. LiveNamesUnique'
    BY DEF NamesOK, LiveNamesUnique
<1>. QED  BY <1>2, <1>3

\* x finds n free.
LEMMA NamesBegin ==
    ASSUME NamesOK, NEW x \in Procs, NEW n \in Names, ~ProjectExists(n), Contest(x, n),
           pc[x] \in {"idle", "syncProjects"}, UNCHANGED project,
           NEW c \in {"checkNamespace", "addProject"}, NEW r \in Request, r.name = n,
           Begin(x, c, r)
    PROVE  NamesClaimed' /\ LiveNamesUnique'
<1>1. /\ pc'[x] = c /\ req'[x].name = n
      /\ \A y \in Procs : y # x => pc'[y] = pc[y] /\ req'[y] = req[y]
    <2>1. pc \in [Procs -> PCs] /\ req \in [Procs -> Request]
        BY DEF NamesOK, TypeInv, TypeOK
    <2>. QED  BY <2>1 DEF Begin
<1>2. \A m : ProjectExists(m)' <=> ProjectExists(m)
    BY DEF ProjectExists, Live
<1>3. \A y \in Procs : \A m \in Names : y # x => (Creating(y, m)' <=> Creating(y, m))
    BY <1>1 DEF Creating
<1>4. \A m \in Names : (Creating(x, m)' <=> m = n) /\ ~Creating(x, m)
    BY <1>1 DEF Creating
<1>5. contested' = contested \cup {m \in {n} : \E y \in Procs \ {x} : Creating(y, m)}
    BY DEF Contest
<1>6. NamesClaimed'
    <2>. SUFFICES ASSUME NEW y \in Procs, NEW m \in Names, Creating(y, m)', m \notin contested'
                  PROVE  ~ProjectExists(m)' /\ \A z \in Procs : Creating(z, m)' => z = y
        BY DEF NamesClaimed
    <2>1. m \notin contested /\ (m = n => \A z \in Procs : z # x => ~Creating(z, m))
        BY <1>5
    <2>2. CASE y = x
        BY <1>2, <1>3, <1>4, <2>1, <2>2
    <2>3. CASE y # x
        <3>1. Creating(y, m) /\ m # n
            BY <1>3, <2>1, <2>3
        <3>2. ~ProjectExists(m) /\ \A z \in Procs : Creating(z, m) => z = y
            BY <2>1, <3>1 DEF NamesOK, NamesClaimed
        <3>. QED  BY <1>2, <1>3, <1>4, <3>1, <3>2
    <2>. QED  BY <2>2, <2>3
<1>7. LiveNamesUnique'
    BY <1>5 DEF NamesOK, LiveNamesUnique, Live
<1>. QED  BY <1>6, <1>7

\* x inserts the name it has found free.
LEMMA NamesAdd ==
    ASSUME NamesOK, NEW x \in Procs, AddProject(x)
    PROVE  NamesClaimed' /\ LiveNamesUnique'
<1>. DEFINE m == req[x].name
<1>0. /\ project \in [ProjectIds -> Project]
      /\ pc \in [Procs -> PCs] /\ req \in [Procs -> Request]
      /\ m \in Names /\ Creating(x, m)
    <2>1. KnownBy(pc[x], req[x]) /\ pc[x] = "addProject"
        BY DEF NamesOK, TypeInv, KnownRequests, AddProject
    <2>. QED  BY <2>1 DEF NamesOK, TypeInv, TypeOK, KnownBy, Creating
<1>1. PICK p \in ProjectIds :
        /\ project' = [project EXCEPT ![p] =
                         [name |-> m, owner |-> req[x].user, state |-> "live"]]
        /\ Begin(x, "addMember", [req[x] EXCEPT !.project = p])
        /\ UNCHANGED contested
    BY DEF AddProject, Unused
<1>2. /\ project'[p].name = m
      /\ \A q \in ProjectIds : q # p => project'[q] = project[q]
    BY <1>0, <1>1
<1>3. /\ pc'[x] = "addMember"
      /\ \A y \in Procs : y # x => pc'[y] = pc[y] /\ req'[y] = req[y]
    BY <1>0, <1>1 DEF Begin
<1>. HIDE DEF m
<1>4. \A y \in Procs : \A n \in Names : Creating(y, n)' => y # x /\ Creating(y, n)
    BY <1>3 DEF Creating
<1>5. \A n : ProjectExists(n)' => ProjectExists(n) \/ n = m
    BY <1>2 DEF ProjectExists, Live
<1>6. m \notin contested => ~ProjectExists(m) /\ \A y \in Procs : Creating(y, m) => y = x
    BY <1>0 DEF NamesOK, NamesClaimed
<1>7. NamesClaimed'
    BY <1>1, <1>4, <1>5, <1>6 DEF NamesOK, NamesClaimed
<1>8. LiveNamesUnique'
    BY <1>1, <1>2, <1>6 DEF NamesOK, LiveNamesUnique, ProjectExists, Live
<1>. QED  BY <1>7, <1>8

LEMMA NamesContinue ==
    ASSUME NamesOK, NEW x \in Procs, Continue(x)
    PROVE  NamesClaimed' /\ LiveNamesUnique'
<1>0. /\ project \in [ProjectIds -> Project]
      /\ pc \in [Procs -> PCs] /\ req \in [Procs -> Request]
    BY DEF NamesOK, TypeInv, TypeOK
<1>1. CASE AddProject(x)
    BY <1>1, NamesAdd
<1>2. CASE ~AddProject(x)
    <2>1. UNCHANGED contested
        BY <1>2 DEF Continue, CheckNamespace, AddMember, CreateNamespace,
           CreateRepoAndJob, CheckMembers, CheckServices, DeleteNamespace, MarkDeleted,
           InsertMember, DeleteMember, CreateServiceConfig, DeployService, DeleteService
    <2>2. \/ UNCHANGED project
          \/ /\ project' = [project EXCEPT ![req[x].project].state = "deleted"]
             /\ req[x].project \in ProjectIds
        <3>1. pc[x] = "markDeleted" => req[x].project \in ProjectIds
            BY DEF NamesOK, TypeInv, KnownRequests, KnownBy
        <3>. QED  BY <1>2, <3>1 DEF Continue, CheckNamespace, AddMember, CreateNamespace,
           CreateRepoAndJob, CheckMembers, CheckServices, DeleteNamespace, MarkDeleted,
           InsertMember, DeleteMember, CreateServiceConfig, DeployService, DeleteService
    <2>3. \A p \in ProjectIds : Live(p)' => Live(p) /\ project'[p].name = project[p].name
        <3>1. CASE UNCHANGED project
            BY <3>1 DEF Live
        <3>2. CASE /\ project' = [project EXCEPT ![req[x].project].state = "deleted"]
                   /\ req[x].project \in ProjectIds
            <4>1. project[req[x].project] \in Project
                BY <1>0, <3>2
            <4>2. project'[req[x].project].state = "deleted"
                BY <1>0, <3>2, <4>1 DEF Project
            <4>. QED  BY <1>0, <3>2, <4>2 DEF Live
        <3>. QED  BY <2>2, <3>1, <3>2
    <2>4. \/ Return(x)
          \/ \E c \in PCs : /\ Goto(x, c)
                            /\ c \in {"checkNamespace", "addProject"} =>
                                 pc[x] = "checkNamespace"
        BY <1>2 DEF Continue, CheckNamespace, AddMember, CreateNamespace,
           CreateRepoAndJob, CheckMembers, CheckServices, DeleteNamespace, MarkDeleted,
           InsertMember, DeleteMember, CreateServiceConfig, DeployService, DeleteService, PCs
    <2>5. \A y \in Procs : \A n \in Names : Creating(y, n)' => Creating(y, n)
        <3>1. CASE Return(x)
            BY <1>0, <3>1 DEF Return, Begin, Creating
        <3>2. ASSUME NEW c \in PCs, Goto(x, c),
                     c \in {"checkNamespace", "addProject"} => pc[x] = "checkNamespace"
              PROVE  \A y \in Procs : \A n \in Names : Creating(y, n)' => Creating(y, n)
            BY <1>0, <3>2 DEF Goto, Creating
        <3>. QED  BY <2>4, <3>1, <3>2
    <2>. QED  BY <2>1, <2>3, <2>5, NamesStay
<1>. QED  BY <1>1, <1>2

LEMMA NamesNewRequest ==
    ASSUME NamesOK, NEW u \in Users, NewRequest(u)
    PROVE  NamesClaimed' /\ LiveNamesUnique'
<1>. USE UsersAreProcs, NullRequestType
<1>0. pc \in [Procs -> PCs] /\ req \in [Procs -> Request]
    BY DEF NamesOK, TypeInv, TypeOK
<1>1. CASE CreateProjectAction(u)
    <2>1. PICK n \in Names :
            /\ ~ProjectExists(n) /\ Contest(u, n)
            /\ Begin(u, "checkNamespace", [NullRequest EXCEPT !.name = n, !.user = u])
        BY <1>1 DEF CreateProjectAction
    <2>. DEFINE r == [NullRequest EXCEPT !.name = n, !.user = u]
    <2>2. r \in Request /\ r.name = n
        BY DEF Request, NullRequest
    <2>3. Begin(u, "checkNamespace", r)
        BY <2>1
    <2>4. pc[u] = "idle" /\ UNCHANGED project
        BY <1>1 DEF CreateProjectAction, Free
    <2>. HIDE DEF r
    <2>. QED  BY <2>1, <2>2, <2>3, <2>4, NamesBegin
<1>2. CASE ~CreateProjectAction(u)
    <2>1. UNCHANGED <<project, contested>>
        BY <1>2 DEF NewRequest, DeleteProjectAction, DeployServiceAction,
           DeleteServiceAction, AddOrUpdateProjectMemberAction, DeleteProjectMemberAction
    <2>2. PICK c \in PCs \ {"checkNamespace", "addProject"} : \E r : Begin(u, c, r)
        BY <1>2 DEF NewRequest, DeleteProjectAction, DeployServiceAction,
           DeleteServiceAction, AddOrUpdateProjectMemberAction, DeleteProjectMemberAction, PCs
    <2>3. \A y \in Procs : \A n \in Names : Creating(y, n)' => Creating(y, n)
        BY <1>0, <2>2 DEF Begin, Creating
    <2>. QED  BY <2>1, <2>3, NamesStay DEF Live
<1>. QED  BY <1>1, <1>2

LEMMA NamesInitialise ==
    ASSUME NamesOK, Initialise
    PROVE  NamesClaimed' /\ LiveNamesUnique'
<1>. USE UsersAreProcs
<1>0. pc \in [Procs -> PCs] /\ req \in [Procs -> Request] /\ req[Server] \in Request
    BY DEF NamesOK, TypeInv, TypeOK
<1>1. CASE Restart \/ ListProjects \/ SyncNamespaceByOwnerID
    <2>1. UNCHANGED <<project, contested>>
        BY <1>1 DEF Restart, ListProjects, SyncNamespaceByOwnerID
    <2>2. \A y \in Procs : \A n \in Names : Creating(y, n)' => Creating(y, n)
        <3>1. CASE Restart
            BY <3>1 DEF Restart, Creating
        <3>2. CASE ListProjects \/ SyncNamespaceByOwnerID
            <4>1. PICK c \in {"syncNamespaces", "syncProjects"} : \E r : Begin(Server, c, r)
                BY <3>2 DEF ListProjects, SyncNamespaceByOwnerID
            <4>. QED  BY <1>0, <4>1 DEF Begin, Creating
        <3>. QED  BY <1>1, <3>1, <3>2
    <2>. QED  BY <2>1, <2>2, NamesStay DEF Live
<1>2. CASE SyncProjectsWithK8s
    <2>1. pc[Server] = "syncProjects" /\ UNCHANGED project
        BY <1>2 DEF SyncProjectsWithK8s
    <2>2. ASSUME NEW n \in Names, ~ProjectExists(n), TakeOver(n, AdminId)
          PROVE  NamesClaimed' /\ LiveNamesUnique'
        <3>. DEFINE r == [req[Server] EXCEPT !.names = @ \ {n}, !.name = n, !.user = AdminId]
        <3>1. r \in Request /\ r.name = n
            BY <1>0, ProjectsAssumption DEF Request
        <3>2. Begin(Server, "addProject", r) /\ Contest(Server, n)
            BY <2>2 DEF TakeOver
        <3>. HIDE DEF r
        <3>. QED  BY <2>1, <2>2, <3>1, <3>2, NamesBegin
    <2>3. ASSUME UNCHANGED contested,
                 \E c \in {"idle", "syncProjects"} : \E r : Begin(Server, c, r)
          PROVE  NamesClaimed' /\ LiveNamesUnique'
        <3>1. \A y \in Procs : \A n \in Names : Creating(y, n)' => Creating(y, n)
            BY <1>0, <2>3 DEF Begin, Creating
        <3>. QED  BY <2>1, <2>3, <3>1, NamesStay DEF Live
    <2>4. req[Server].names \subseteq Names
        BY <1>0 DEF Request
    <2>. QED  BY <1>2, <2>2, <2>3, <2>4 DEF SyncProjectsWithK8s, PassOver, Return
<1>. QED  BY <1>1, <1>2 DEF Initialise

LEMMA NamesNext == NamesOK /\ [Next]_vars => NamesOK'
<1>. SUFFICES ASSUME NamesOK, [Next]_vars PROVE NamesOK'
    OBVIOUS
<1>0. TypeInv'
    BY TypeNext DEF NamesOK
<1>1. ASSUME UNCHANGED vars \/ \E n \in Names : NamespaceGone(n)
      PROVE  NamesClaimed' /\ LiveNamesUnique'
    <2>1. UNCHANGED <<project, contested, pc, req>>
        BY <1>1 DEF vars, NamespaceGone
    <2>. QED  BY <2>1, NamesStay DEF Live, Creating
<1>. QED  BY <1>0, <1>1, NamesNewRequest, NamesContinue, NamesInitialise DEF Next, NamesOK

LEMMA NamesInit == Init => NamesOK
<1>. SUFFICES ASSUME Init PROVE NamesOK
    OBVIOUS
<1>1. LiveNamesUnique /\ NamesClaimed
    BY DEF Init, LiveNamesUnique, NamesClaimed, Creating, Live, NoProject
<1>. QED  BY <1>1, TypeInit DEF NamesOK

\* No two live projects have the same name, although no key says so, unless two
\* had looked it up before either inserted it: whatever requests overlap, and
\* however the server restarts and takes over namespaces beside them.
THEOREM NamesUnique == Spec => []LiveNamesUnique
<1>1. NamesOK => LiveNamesUnique
    BY DEF NamesOK
<1>. QED  BY <1>1, NamesInit, NamesNext, PTL DEF Spec
-----------------------------------------------------------------------------
(* The inductive invariant of the instances whose users' requests do not      *)
(* overlap.  The initialiser may be at work beside any of them.               *)

Inv == NamesOK /\ ProjectsInv

\* No other user has a request underway.
Alone(u) == \A v \in Users : v # u => pc[v] = "idle"

LEMMA AloneAtWork ==
    ASSUME Inv, NEW u \in Users, pc[u] # "idle"
    PROVE  Alone(u)
BY DEF Inv, ProjectsInv, OneAtATime, Alone

\* Of a user's step it is enough to look at the tables and at the user.
LEMMA UserStep ==
    ASSUME Inv, NamesOK', NEW u \in Users, Alone(u),
           \A y \in Procs : y # u => pc'[y] = pc[y],
           KeptProjectsHaveNamespace',
           CreatePhase(u)', DeletePhase(u)'
    PROVE  Inv'
<1>. USE UsersAreProcs
<1>1. \A v \in Users : v # u => pc'[v] = "idle"
    BY DEF Alone
<1>2. OneAtATime'
    BY <1>1 DEF OneAtATime
<1>3. \A v \in Users : v # u => CreatePhase(v)' /\ DeletePhase(v)'
    BY <1>1 DEF CreatePhase, DeletePhase
<1>4. NamesInv'
    BY DEF NamesOK, TypeInv, NamesInv
<1>5. pc'[Server] \in ServerCalls
    BY DEF Inv, ProjectsInv
<1>. QED  BY <1>2, <1>3, <1>4, <1>5 DEF Inv, ProjectsInv

\* A step of the initialiser, or of nobody: it takes no user's project away, and no
\* namespace that is not terminating.
LEMMA OtherStep ==
    ASSUME Inv, NamesOK',
           \A u \in Users : pc'[u] = pc[u] /\ req'[u] = req[u],
           pc'[Server] \in ServerCalls,
           \A p \in ProjectIds : Live(p) => project'[p] = project[p],
           \A n \in Names : ns[n] = "active" => ns'[n] = "active",
           \A n \in Names : ns'[n] = "terminating" => ns[n] = "terminating",
           UNCHANGED kept, contested \subseteq contested'
    PROVE  Inv'
<1>1. KeptProjectsHaveNamespace'
    <2>. SUFFICES ASSUME NEW p \in kept
                  PROVE  /\ Live(p)'
                         /\ (project[p].name \in contested \/ ns[project[p].name] = "active")'
        BY DEF KeptProjectsHaveNamespace
    <2>1. /\ p \in ProjectIds /\ Live(p) /\ project[p].name \in Names
          /\ project[p].name \in contested \/ ns[project[p].name] = "active"
        BY DEF Inv, NamesOK, TypeInv, TypeOK, KnownRequests, ProjectsInv,
               KeptProjectsHaveNamespace
    <2>. QED  BY <2>1 DEF Live
<1>2. ASSUME NEW u \in Users PROVE CreatePhase(u)' /\ DeletePhase(u)'
    <2>1. CreatePhase(u) /\ DeletePhase(u) /\ KnownBy(pc[u], req[u])
        BY UsersAreProcs DEF Inv, ProjectsInv, NamesInv, KnownRequests
    <2>2. HasProject(u) /\ req[u].project \in ProjectIds => HasProject(u)'
        BY DEF HasProject, Live
    <2>3. HasProject(u) /\ req[u].project \in ProjectIds => req[u].name \in Names
        BY DEF HasProject, Inv, NamesOK, TypeInv, KnownRequests
    <2>4. pc[u] = "addProject" => req[u].name \in Names
        BY <2>1 DEF KnownBy
    <2>5. CreatePhase(u)'
        BY <2>1, <2>2, <2>3, <2>4 DEF CreatePhase, KnownBy
    <2>6. DeletePhase(u)'
        BY <2>1, <2>2 DEF DeletePhase, KnownBy
    <2>. QED  BY <2>5, <2>6
<1>3. OneAtATime'
    BY DEF Inv, ProjectsInv, OneAtATime
<1>4. NamesInv'
    BY DEF NamesOK, TypeInv, NamesInv
<1>. QED  BY <1>1, <1>2, <1>3, <1>4 DEF Inv, ProjectsInv

PhaseCalls ==
    {"addProject", "addMember", "createNamespace", "createRepo",
     "checkMembers", "checkServices", "deleteNamespace", "markDeleted"}

\* A call that leads to none of the calls the phases speak of.
LEMMA QuietStep ==
    ASSUME Inv, NamesOK', NEW u \in Users, Alone(u),
           NEW c \in PCs, NEW r \in Request, Moves(u, c, r), c \notin PhaseCalls,
           KeptProjectsHaveNamespace'
    PROVE  Inv'
<1>1. pc'[u] = c /\ \A y \in Procs : y # u => pc'[y] = pc[y]
    BY UsersAreProcs, Moved DEF Inv, NamesOK, TypeInv
<1>2. CreatePhase(u)' /\ DeletePhase(u)'
    BY <1>1 DEF CreatePhase, DeletePhase, PhaseCalls
<1>. QED  BY <1>1, <1>2, UserStep

LEMMA QuietReturn ==
    ASSUME Inv, NamesOK', NEW u \in Users, Alone(u), Return(u),
           KeptProjectsHaveNamespace'
    PROVE  Inv'
<1>1. "idle" \in PCs /\ "idle" \notin PhaseCalls /\ Moves(u, "idle", NullRequest)
    BY DEF PCs, PhaseCalls, Moves
<1>. QED  BY <1>1, NullRequestType, QuietStep

\* Nothing is contested for a time only.
LEMMA ContestedGrows ==
    ASSUME [Next]_vars
    PROVE  contested \subseteq contested'
<1>1. ASSUME NEW u \in Users, NewRequest(u) PROVE contested \subseteq contested'
    BY <1>1 DEF NewRequest, CreateProjectAction, Contest, DeleteProjectAction,
       DeployServiceAction, DeleteServiceAction, AddOrUpdateProjectMemberAction,
       DeleteProjectMemberAction
<1>2. ASSUME NEW x \in Procs, Continue(x) PROVE contested \subseteq contested'
    BY <1>2 DEF Continue, CheckNamespace, AddProject, AddMember, CreateNamespace,
       CreateRepoAndJob, CheckMembers, CheckServices, DeleteNamespace, MarkDeleted,
       InsertMember, DeleteMember, CreateServiceConfig, DeployService, DeleteService
<1>3. CASE Initialise
    BY <1>3 DEF Initialise, Restart, ListProjects, SyncNamespaceByOwnerID,
       SyncProjectsWithK8s, TakeOver, PassOver, Contest
<1>4. CASE (\E n \in Names : NamespaceGone(n)) \/ UNCHANGED vars
    BY <1>4 DEF NamespaceGone, vars
<1>. QED  BY <1>1, <1>2, <1>3, <1>4 DEF Next

\* The invariant on namespaces is about these variables.
LEMMA SameTables ==
    ASSUME Inv, [Next]_vars, UNCHANGED <<project, ns, kept>>
    PROVE  KeptProjectsHaveNamespace'
<1>1. contested \subseteq contested'
    BY ContestedGrows
<1>. QED  BY <1>1 DEF Inv, ProjectsInv, KeptProjectsHaveNamespace, Live

LEMMA SerialNewRequest ==
    ASSUME Overlap = FALSE, Inv, NamesOK', NEW u \in Users, NewRequest(u)
    PROVE  Inv'
<1>. USE UsersAreProcs
<1>s. [Next]_vars
    BY DEF Next
<1>0. Alone(u)
    BY DEF Alone, Free, NewRequest, CreateProjectAction, DeleteProjectAction,
           DeployServiceAction, DeleteServiceAction, AddOrUpdateProjectMemberAction,
           DeleteProjectMemberAction
<1>1. UNCHANGED <<project, ns, kept>>
    BY DEF NewRequest, CreateProjectAction, DeleteProjectAction,
           DeployServiceAction, DeleteServiceAction, AddOrUpdateProjectMemberAction,
           DeleteProjectMemberAction
<1>2. KeptProjectsHaveNamespace'
    BY <1>1, <1>s, SameTables
<1>3. pc \in [Procs -> PCs] /\ req \in [Procs -> Request]
    BY DEF Inv, NamesOK, TypeInv, TypeOK
<1>4. ASSUME NEW c, NEW r, Begin(u, c, r),
             c \in {"insertService", "deleteService", "insertMember", "deleteMember"}
      PROVE  Inv'
    <2>1. pc'[u] = c /\ \A y \in Procs : y # u => pc'[y] = pc[y]
        BY <1>3, <1>4 DEF Begin
    <2>2. CreatePhase(u)' /\ DeletePhase(u)'
        BY <1>4, <2>1 DEF CreatePhase, DeletePhase
    <2>. QED  BY <1>0, <1>2, <2>1, <2>2, UserStep
<1>5. CASE CreateProjectAction(u)
    <2>1. PICK n \in Names :
            /\ ~ProjectExists(n)
            /\ Begin(u, "checkNamespace", [NullRequest EXCEPT !.name = n, !.user = u])
        BY <1>5 DEF CreateProjectAction
    <2>2. /\ pc'[u] = "checkNamespace" /\ req'[u].name = n
          /\ \A y \in Procs : y # u => pc'[y] = pc[y]
        BY <1>3, <2>1 DEF Begin, NullRequest
    <2>3. CreatePhase(u)' /\ DeletePhase(u)'
        BY <2>2 DEF CreatePhase, DeletePhase
    <2>. QED  BY <1>0, <1>2, <2>2, <2>3, UserStep
<1>6. ASSUME NEW p \in ProjectIds, DeleteProjectAction(u, p) PROVE Inv'
    <2>1. /\ Live(p)
          /\ Begin(u, "checkMembers",
                   [NullRequest EXCEPT !.project = p, !.name = project[p].name])
        BY <1>6 DEF DeleteProjectAction
    <2>2. /\ pc'[u] = "checkMembers" /\ req'[u].project = p /\ req'[u].name = project[p].name
          /\ \A y \in Procs : y # u => pc'[y] = pc[y]
        BY <1>3, <2>1 DEF Begin, NullRequest
    <2>3. CreatePhase(u)' /\ DeletePhase(u)'
        BY <1>1, <2>1, <2>2 DEF CreatePhase, DeletePhase, HasProject, Live
    <2>. QED  BY <1>0, <1>2, <2>2, <2>3, UserStep
<1>. QED  BY <1>4, <1>5, <1>6
          DEF NewRequest, DeployServiceAction, DeleteServiceAction,
              AddOrUpdateProjectMemberAction, DeleteProjectMemberAction

\* A call that returns, or goes on with the same local variables.
LEMMA SerialGoto ==
    ASSUME Inv, NamesOK', NEW x \in Users, Alone(x), NEW c \in PCs,
           Goto(x, c) \/ Return(x),
           KeptProjectsHaveNamespace',
           pc'[x] = c /\ req'[x] = req[x] => CreatePhase(x)' /\ DeletePhase(x)'
    PROVE  Inv'
<1>1. CASE Return(x)
    BY <1>1, QuietReturn
<1>2. CASE Goto(x, c)
    <2>1. /\ pc'[x] = c /\ req'[x] = req[x]
          /\ \A y \in Procs : y # x => pc'[y] = pc[y]
        BY <1>2 DEF Goto, Inv, NamesOK, TypeInv, TypeOK
    <2>. QED  BY <2>1, UserStep
<1>. QED  BY <1>1, <1>2

LEMMA SerialContinue ==
    ASSUME Inv, NamesOK', NEW x \in Users, Continue(x)
    PROVE  Inv'
<1>. USE UsersAreProcs
<1>s. [Next]_vars
    BY DEF Next
<1>a. /\ CreatePhase(x) /\ DeletePhase(x) /\ LiveNamesUnique /\ KeptProjectsHaveNamespace
      /\ KnownBy(pc[x], req[x])
      /\ \A p \in ProjectIds : Live(p) => project[p].name \in Names
    BY DEF Inv, ProjectsInv, NamesInv, KnownRequests
<1>b. Alone(x)
    <2>1. pc[x] # "idle"
        BY DEF Continue, CheckNamespace, AddProject, AddMember, CreateNamespace,
               CreateRepoAndJob, CheckMembers, CheckServices, DeleteNamespace,
               MarkDeleted, InsertMember, DeleteMember, CreateServiceConfig,
               DeployService, DeleteService
    <2>. QED  BY <2>1, AloneAtWork
<1>c. /\ project \in [ProjectIds -> Project]
      /\ ns \in [Names -> {"absent", "active", "terminating"}]
      /\ kept \subseteq ProjectIds
      /\ pc \in [Procs -> PCs] /\ req \in [Procs -> Request]
    BY DEF Inv, NamesOK, TypeInv, TypeOK
<1>1. CASE CheckNamespace(x)
    <2>1. UNCHANGED <<project, ns, kept>>
        BY <1>1 DEF CheckNamespace
    <2>2. \/ Return(x)
          \/ Goto(x, "addProject") /\ ns[req[x].name] = "absent"
        BY <1>1 DEF CheckNamespace, NamespaceExists
    <2>3. pc'[x] = "addProject" /\ req'[x] = req[x] /\ ns[req[x].name] = "absent" =>
            CreatePhase(x)' /\ DeletePhase(x)'
        BY <1>1, <1>a, <2>1 DEF CheckNamespace, CreatePhase, DeletePhase, ProjectExists, Live
    <2>4. KeptProjectsHaveNamespace'
        BY <2>1, <1>s, SameTables
    <2>. QED  BY <1>b, <2>2, <2>3, <2>4, QuietReturn, SerialGoto DEF PCs
<1>2. CASE AddProject(x)
    <2>1. PICK p \in ProjectIds :
            /\ project[p].state = "none"
            /\ project' = [project EXCEPT ![p] =
                             [name |-> req[x].name, owner |-> req[x].user, state |-> "live"]]
            /\ Begin(x, "addMember", [req[x] EXCEPT !.project = p])
            /\ UNCHANGED <<members, ns, service, kept, contested>>
        BY <1>2 DEF AddProject, Unused
    <2>2. /\ project'[p].name = req[x].name /\ project'[p].state = "live"
          /\ \A q \in ProjectIds : q # p => project'[q] = project[q]
        BY <1>c, <2>1
    <2>3. /\ pc'[x] = "addMember" /\ req'[x].project = p /\ req'[x].name = req[x].name
          /\ \A y \in Procs : y # x => pc'[y] = pc[y]
        <3>. DEFINE r == [req[x] EXCEPT !.project = p]
        <3>1. r.project = p /\ r.name = req[x].name
            <4>1. req[x] \in Request
                BY <1>c
            <4>. QED  BY <4>1 DEF Request
        <3>2. Begin(x, "addMember", r)
            BY <2>1
        <3>. HIDE DEF r
        <3>. QED  BY <1>c, <3>1, <3>2 DEF Begin
    <2>4. ns[req[x].name] # "terminating"
        BY <1>2, <1>a DEF AddProject, CreatePhase
    <2>6. KeptProjectsHaveNamespace'
        <3>1. p \notin kept
            BY <1>a, <2>1 DEF KeptProjectsHaveNamespace, Live
        <3>. QED  BY <1>a, <1>c, <2>1, <2>2, <3>1 DEF KeptProjectsHaveNamespace, Live
    <2>7. CreatePhase(x)' /\ DeletePhase(x)'
        BY <2>1, <2>2, <2>3, <2>4 DEF CreatePhase, DeletePhase, HasProject, Live
    <2>. QED  BY <1>b, <2>3, <2>6, <2>7, UserStep
<1>3. CASE AddMember(x)
    <2>1. UNCHANGED <<project, ns, kept>>
        BY <1>3 DEF AddMember
    <2>2. Goto(x, "createNamespace")
        BY <1>3 DEF AddMember
    <2>3. pc'[x] = "createNamespace" /\ req'[x] = req[x]
        BY <1>c, <2>2 DEF Goto
    <2>4. CreatePhase(x)' /\ DeletePhase(x)'
        BY <1>3, <1>a, <2>1, <2>2, <2>3 DEF AddMember, CreatePhase, DeletePhase, HasProject, Live
    <2>5. KeptProjectsHaveNamespace'
        BY <2>1, <1>s, SameTables
    <2>. QED  BY <1>b, <2>2, <2>4, <2>5, SerialGoto DEF PCs
<1>4. CASE CreateNamespace(x)
    <2>. DEFINE n == req[x].name
    <2>1. UNCHANGED <<project, kept, contested>>
        BY <1>4 DEF CreateNamespace
    <2>2. HasProject(x) /\ ns[n] # "terminating" /\ n \in Names
        <3>1. HasProject(x) /\ ns[n] # "terminating" /\ req[x].project \in ProjectIds
            BY <1>4, <1>a DEF CreateNamespace, CreatePhase, KnownBy
        <3>. QED  BY <1>a, <3>1 DEF HasProject
    <2>3. CASE Return(x) /\ UNCHANGED ns
        <3>1. KeptProjectsHaveNamespace'
            BY <2>1, <2>3, <1>s, SameTables
        <3>. QED  BY <1>b, <2>3, <3>1, QuietReturn
    <2>4. CASE /\ ns' = [ns EXCEPT ![n] = IF @ = "absent" THEN "active" ELSE @]
               /\ Goto(x, "createRepo")
        <3>1. ns'[n] = "active" /\ \A m \in Names : ns[m] = "active" => ns'[m] = "active"
            BY <1>c, <2>2, <2>4
        <3>2. KeptProjectsHaveNamespace'
            BY <1>a, <1>c, <2>1, <3>1 DEF KeptProjectsHaveNamespace, Live
        <3>3. pc'[x] = "createRepo" /\ req'[x] = req[x]
            BY <1>c, <2>4 DEF Goto
        <3>4. CreatePhase(x)' /\ DeletePhase(x)'
            BY <2>1, <2>2, <3>1, <3>3 DEF CreatePhase, DeletePhase, HasProject, Live
        <3>. QED  BY <1>b, <2>4, <3>2, <3>4, SerialGoto DEF PCs
    <2>. QED  BY <1>4, <2>3, <2>4 DEF CreateNamespace
<1>5. CASE CreateRepoAndJob(x)
    <2>1. /\ Return(x) /\ UNCHANGED <<project, ns, contested>>
          /\ kept' = kept \/ kept' = kept \cup {req[x].project}
        BY <1>5 DEF CreateRepoAndJob
    <2>2. HasProject(x) /\ ns[req[x].name] = "active"
        BY <1>5, <1>a DEF CreateRepoAndJob, CreatePhase
    <2>3. KeptProjectsHaveNamespace'
        BY <1>a, <2>1, <2>2 DEF KeptProjectsHaveNamespace, HasProject, Live
    <2>. QED  BY <1>b, <2>1, <2>3, QuietReturn
<1>6. CASE CheckMembers(x)
    <2>1. UNCHANGED <<project, ns, kept>> /\ (Goto(x, "checkServices") \/ Return(x))
        BY <1>6 DEF CheckMembers
    <2>2. pc'[x] = "checkServices" /\ req'[x] = req[x] => CreatePhase(x)' /\ DeletePhase(x)'
        BY <1>6, <1>a, <2>1 DEF CheckMembers, CreatePhase, DeletePhase, HasProject, Live
    <2>3. KeptProjectsHaveNamespace'
        BY <2>1, <1>s, SameTables
    <2>. QED  BY <1>b, <2>1, <2>2, <2>3, SerialGoto DEF PCs
<1>7. CASE CheckServices(x)
    <2>1. UNCHANGED <<project, ns, contested>>
        BY <1>7 DEF CheckServices
    <2>2. \/ Return(x) /\ kept' = kept
          \/ Goto(x, "deleteNamespace") /\ kept' = kept \ {req[x].project}
        BY <1>7 DEF CheckServices
    <2>3. KeptProjectsHaveNamespace'
        BY <1>a, <2>1, <2>2 DEF KeptProjectsHaveNamespace, Live
    <2>4. Goto(x, "deleteNamespace") /\ kept' = kept \ {req[x].project} => Inv'
        <3>1. SUFFICES ASSUME Goto(x, "deleteNamespace"), kept' = kept \ {req[x].project}
                       PROVE  Inv'
            OBVIOUS
        <3>2. pc'[x] = "deleteNamespace" /\ req'[x] = req[x]
            BY <1>c, <3>1 DEF Goto
        <3>3. CreatePhase(x)' /\ DeletePhase(x)'
            BY <1>7, <1>a, <2>1, <3>1, <3>2 DEF CheckServices, CreatePhase, DeletePhase, HasProject, Live
        <3>. QED  BY <1>b, <2>3, <3>1, <3>3, SerialGoto DEF PCs
    <2>. QED  BY <1>b, <2>2, <2>3, <2>4, QuietReturn
<1>8. CASE DeleteNamespace(x)
    <2>. DEFINE n == req[x].name
    <2>1. UNCHANGED <<project, kept, contested>>
        BY <1>8 DEF DeleteNamespace
    <2>2. HasProject(x) /\ req[x].project \notin kept /\ req[x].project \in ProjectIds
        BY <1>8, <1>a DEF DeleteNamespace, DeletePhase, KnownBy
    <2>3. \A m \in Names : m # n => ns'[m] = ns[m]
        BY <1>8, <1>c DEF DeleteNamespace
    <2>4. \A p \in kept : project[p].name \in contested \/ project[p].name # n
        BY <1>a, <1>c, <2>2 DEF LiveNamesUnique, KeptProjectsHaveNamespace, HasProject
    <2>5. KeptProjectsHaveNamespace'
        BY <1>a, <1>c, <2>1, <2>3, <2>4 DEF KeptProjectsHaveNamespace, Live
    <2>6. pc'[x] = "markDeleted" /\ req'[x] = req[x] => CreatePhase(x)' /\ DeletePhase(x)'
        BY <2>1, <2>2 DEF CreatePhase, DeletePhase, HasProject, Live
    <2>7. Goto(x, "markDeleted") \/ Return(x)
        BY <1>8 DEF DeleteNamespace
    <2>. QED  BY <1>b, <2>5, <2>6, <2>7, SerialGoto DEF PCs
<1>9. CASE MarkDeleted(x)
    <2>1. /\ project' = [project EXCEPT ![req[x].project].state = "deleted"]
          /\ Return(x) /\ UNCHANGED <<ns, kept, contested>>
        BY <1>9 DEF MarkDeleted
    <2>2. req[x].project \notin kept /\ req[x].project \in ProjectIds
        BY <1>9, <1>a DEF MarkDeleted, DeletePhase, KnownBy
    <2>3. /\ \A p \in ProjectIds : p # req[x].project => project'[p] = project[p]
          /\ project'[req[x].project].state = "deleted"
        <3>1. project[req[x].project] \in Project
            BY <1>c, <2>2
        <3>. QED  BY <1>c, <2>1, <2>2, <3>1 DEF Project
    <2>4. KeptProjectsHaveNamespace'
        BY <1>a, <1>c, <2>1, <2>2, <2>3 DEF KeptProjectsHaveNamespace, Live
    <2>. QED  BY <1>b, <2>1, <2>4, QuietReturn
<1>10. CASE InsertMember(x) \/ DeleteMember(x) \/ DeployService(x) \/ DeleteService(x)
    <2>1. UNCHANGED <<project, ns, kept>> /\ Return(x)
        BY <1>10 DEF InsertMember, DeleteMember, DeployService, DeleteService
    <2>2. KeptProjectsHaveNamespace'
        BY <2>1, <1>s, SameTables
    <2>. QED  BY <1>b, <2>1, <2>2, QuietReturn
<1>11. CASE CreateServiceConfig(x)
    <2>1. UNCHANGED <<project, ns, kept>> /\ Goto(x, "deployService")
        BY <1>11 DEF CreateServiceConfig
    <2>2. KeptProjectsHaveNamespace'
        BY <2>1, <1>s, SameTables
    <2>. QED  BY <1>b, <1>c, <2>1, <2>2, QuietStep DEF PCs, PhaseCalls, Moves
<1>. QED  BY <1>1, <1>2, <1>3, <1>4, <1>5, <1>6, <1>7, <1>8, <1>9, <1>10, <1>11
          DEF Continue

\* The initialiser makes namespaces and adds projects.
LEMMA ServerContinue ==
    ASSUME Inv, NamesOK', Continue(Server)
    PROVE  Inv'
<1>. USE UsersAreProcs
<1>0. /\ project \in [ProjectIds -> Project]
      /\ pc \in [Procs -> PCs] /\ req \in [Procs -> Request]
    BY DEF Inv, NamesOK, TypeInv, TypeOK
<1>1. CASE AddProject(Server)
    <2>1. PICK p, new, r :
            /\ p \in ProjectIds
            /\ project[p].state = "none"
            /\ project' = [project EXCEPT ![p] = new]
            /\ Begin(Server, "addMember", r)
            /\ UNCHANGED <<ns, kept, contested>>
        BY <1>1 DEF AddProject, Unused
    <2>2. /\ pc'[Server] = "addMember"
          /\ \A u \in Users : pc'[u] = pc[u] /\ req'[u] = req[u]
        BY <1>0, <2>1 DEF Begin
    <2>3. \A q \in ProjectIds : Live(q) => project'[q] = project[q]
        BY <1>0, <2>1 DEF Live
    <2>. QED  BY <2>1, <2>2, <2>3, OtherStep DEF ServerCalls
<1>2. CASE AddMember(Server)
    <2>1. Goto(Server, "syncProjects") /\ UNCHANGED <<project, ns, kept, contested>>
        BY <1>2 DEF AddMember
    <2>2. /\ pc'[Server] = "syncProjects"
          /\ \A u \in Users : pc'[u] = pc[u] /\ req'[u] = req[u]
        BY <1>0, <2>1 DEF Goto
    <2>. QED  BY <2>1, <2>2, OtherStep DEF ServerCalls
<1>3. pc[Server] \in ServerCalls
    BY DEF Inv, ProjectsInv
<1>. QED  BY <1>1, <1>2, <1>3 DEF Continue, ServerCalls, CheckNamespace, CreateNamespace,
          CreateRepoAndJob, CheckMembers, CheckServices, DeleteNamespace, MarkDeleted,
          InsertMember, DeleteMember, CreateServiceConfig, DeployService, DeleteService

LEMMA SerialInitialise ==
    ASSUME Inv, NamesOK', Initialise
    PROVE  Inv'
<1>. USE UsersAreProcs
<1>0. /\ ns \in [Names -> {"absent", "active", "terminating"}]
      /\ pc \in [Procs -> PCs] /\ req \in [Procs -> Request]
    BY DEF Inv, NamesOK, TypeInv, TypeOK
<1>s. [Next]_vars
    BY DEF Next
<1>1. CASE Restart
    <2>1. \A u \in Users : pc'[u] = "idle"
        BY <1>1 DEF Restart
    <2>2. pc'[Server] \in ServerCalls
        BY <1>1 DEF Restart, ServerCalls
    <2>3. OneAtATime' /\ \A u \in Users : CreatePhase(u)' /\ DeletePhase(u)'
        BY <2>1 DEF OneAtATime, CreatePhase, DeletePhase
    <2>4. KeptProjectsHaveNamespace'
        BY <1>1, <1>s, SameTables DEF Restart
    <2>5. NamesInv'
        BY DEF NamesOK, TypeInv, NamesInv
    <2>. QED  BY <2>2, <2>3, <2>4, <2>5 DEF Inv, ProjectsInv
<1>2. CASE ListProjects \/ SyncNamespaceByOwnerID \/ SyncProjectsWithK8s
    <2>1. UNCHANGED <<project, kept>>
        BY <1>2 DEF ListProjects, SyncNamespaceByOwnerID, SyncProjectsWithK8s
    <2>2. PICK c \in ServerCalls : \E r : Begin(Server, c, r)
        BY <1>2 DEF ListProjects, SyncNamespaceByOwnerID, SyncProjectsWithK8s, TakeOver,
           PassOver, Return, ServerCalls
    <2>3. pc'[Server] = c /\ \A u \in Users : pc'[u] = pc[u] /\ req'[u] = req[u]
        BY <1>0, <2>2 DEF Begin
    <2>4. \A n \in Names : /\ ns[n] = "active" => ns'[n] = "active"
                           /\ ns'[n] = "terminating" => ns[n] = "terminating"
        BY <1>0, <1>2 DEF ListProjects, SyncNamespaceByOwnerID, SyncProjectsWithK8s
    <2>5. contested \subseteq contested'
        BY <1>s, ContestedGrows
    <2>6. \A p \in ProjectIds : Live(p) => project'[p] = project[p]
        BY <2>1
    <2>7. \A n \in Names : ns[n] = "active" => ns'[n] = "active"
        BY <2>4
    <2>8. \A n \in Names : ns'[n] = "terminating" => ns[n] = "terminating"
        BY <2>4
    <2>. QED  BY <2>1, <2>3, <2>5, <2>6, <2>7, <2>8, OtherStep
<1>. QED  BY <1>1, <1>2 DEF Initialise

LEMMA SerialNext ==
    ASSUME Overlap = FALSE
    PROVE  Inv /\ [Next]_vars => Inv'
<1>. SUFFICES ASSUME Inv, [Next]_vars PROVE Inv'
    OBVIOUS
<1>0. NamesOK'
    BY NamesNext DEF Inv
<1>1. ASSUME UNCHANGED vars \/ \E n \in Names : NamespaceGone(n)
      PROVE  Inv'
    <2>1. UNCHANGED <<project, kept, contested, pc, req>>
        BY <1>1 DEF vars, NamespaceGone
    <2>2. ns \in [Names -> {"absent", "active", "terminating"}]
        BY DEF Inv, NamesOK, TypeInv, TypeOK
    <2>3. \A n \in Names : /\ ns[n] = "active" => ns'[n] = "active"
                           /\ ns'[n] = "terminating" => ns[n] = "terminating"
        BY <1>1, <2>2 DEF vars, NamespaceGone
    <2>4. pc'[Server] \in ServerCalls
        BY <2>1 DEF Inv, ProjectsInv
    <2>5. \A u \in Users : pc'[u] = pc[u] /\ req'[u] = req[u]
        BY <2>1
    <2>6. \A p \in ProjectIds : Live(p) => project'[p] = project[p]
        BY <2>1
    <2>7. \A n \in Names : ns[n] = "active" => ns'[n] = "active"
        BY <2>3
    <2>8. \A n \in Names : ns'[n] = "terminating" => ns[n] = "terminating"
        BY <2>3
    <2>9. contested \subseteq contested'
        BY <2>1
    <2>. QED  BY <1>0, <2>1, <2>4, <2>5, <2>6, <2>7, <2>8, <2>9, OtherStep
<1>2. ASSUME NEW x \in Procs, Continue(x) PROVE Inv'
    BY <1>0, <1>2, SerialContinue, ServerContinue DEF Procs
<1>. QED  BY <1>0, <1>1, <1>2, SerialNewRequest, SerialInitialise DEF Next

LEMMA SerialInit == Init => Inv
<1>. SUFFICES ASSUME Init PROVE Inv
    OBVIOUS
<1>1. KeptProjectsHaveNamespace
    BY DEF Init, KeptProjectsHaveNamespace
<1>2. \A x \in Procs : pc[x] = "idle"
    BY DEF Init
<1>3. OneAtATime /\ \A u \in Users : CreatePhase(u) /\ DeletePhase(u)
    BY <1>2, UsersAreProcs DEF OneAtATime, CreatePhase, DeletePhase
<1>4. pc[Server] \in ServerCalls
    BY <1>2, UsersAreProcs DEF ServerCalls
<1>. QED  BY <1>1, <1>3, <1>4, NamesInit DEF Inv, ProjectsInv, NamesInv, NamesOK, TypeInv

\* The inductive invariant: while requests of users do not overlap every call of
\* a creation or a deletion can rely on what the earlier calls have found,
\* wherever calls fail, the server restarts, and whatever its initialiser does
\* beside the request.
THEOREM ProjectsInvariant ==
    ASSUME Overlap = FALSE
    PROVE  Spec => []ProjectsInv
<1>1. Init => Inv
    BY SerialInit
<1>2. Inv /\ [Next]_vars => Inv'
    BY SerialNext
<1>3. Inv => ProjectsInv
    BY DEF Inv
<1>. QED  BY <1>1, <1>2, <1>3, PTL DEF Spec

\* A project created with success keeps its namespace until a request to delete
\* it has passed the checks of DeleteProject, unless its name was contested.
THEOREM NamespacesKept ==
    ASSUME Overlap = FALSE
    PROVE  Spec => []KeptProjectsHaveNamespace
<1>1. ProjectsInv => KeptProjectsHaveNamespace
    BY DEF ProjectsInv
<1>. QED  BY <1>1, ProjectsInvariant, PTL
-----------------------------------------------------------------------------
(* The service that a deletion may not find under its namespace. *)

\* A deletion that has passed CheckServices has found no service that the owner
\* of the project sees, and so it is until the namespace goes.
ServicesChecked ==
    \A x \in Procs : pc[x] = "deleteNamespace" =>
        ~(service[req[x].project] = "visible" /\ OwnerSees(req[x].project))

\* What the initialiser adds is the administrator's.
ServerIsAdmin == pc[Server] \in {"addProject", "addMember"} => req[Server].user = AdminId

LEMMA ServerIsAdminNext ==
    ASSUME Inv, ServerIsAdmin, [Next]_vars
    PROVE  ServerIsAdmin'
<1>. USE UsersAreProcs
<1>0. pc \in [Procs -> PCs] /\ req \in [Procs -> Request] /\ req[Server] \in Request
    BY DEF Inv, NamesOK, TypeInv, TypeOK
<1>a. pc[Server] \in ServerCalls
    BY DEF Inv, ProjectsInv
<1>1. ASSUME pc'[Server] = pc[Server], req'[Server] = req[Server] PROVE ServerIsAdmin'
    BY <1>1 DEF ServerIsAdmin
<1>2. ASSUME NEW u \in Users, NewRequest(u) \/ Continue(u) PROVE ServerIsAdmin'
    <2>1. \E c, r : Begin(u, c, r) \/ Goto(u, c)
        BY <1>2 DEF NewRequest, CreateProjectAction, DeleteProjectAction, DeployServiceAction,
           DeleteServiceAction, AddOrUpdateProjectMemberAction, DeleteProjectMemberAction,
           Continue, CheckNamespace, AddProject, AddMember, CreateNamespace,
           CreateRepoAndJob, CheckMembers, CheckServices, DeleteNamespace, MarkDeleted,
           InsertMember, DeleteMember, CreateServiceConfig, DeployService,
           DeleteService, Return
    <2>. QED  BY <1>0, <1>1, <2>1 DEF Begin, Goto
<1>3. CASE AddProject(Server)
    <2>1. PICK p \in ProjectIds : Begin(Server, "addMember", [req[Server] EXCEPT !.project = p])
        BY <1>3 DEF AddProject, Unused
    <2>2. [req[Server] EXCEPT !.project = p].user = req[Server].user
        BY <1>0 DEF Request
    <2>3. req'[Server].user = req[Server].user
        BY <1>0, <2>1, <2>2 DEF Begin
    <2>. QED  BY <1>3, <2>3 DEF ServerIsAdmin, AddProject
<1>4. ASSUME NEW n, TakeOver(n, AdminId) PROVE ServerIsAdmin'
    <2>. DEFINE r == [req[Server] EXCEPT !.names = @ \ {n}, !.name = n, !.user = AdminId]
    <2>1. r.user = AdminId
        BY <1>0 DEF Request
    <2>2. Begin(Server, "addProject", r)
        BY <1>4 DEF TakeOver
    <2>. HIDE DEF r
    <2>3. req'[Server].user = AdminId
        BY <1>0, <2>1, <2>2 DEF Begin
    <2>. QED  BY <2>3 DEF ServerIsAdmin
<1>5. ASSUME pc'[Server] \notin {"addProject", "addMember"} PROVE ServerIsAdmin'
    BY <1>5 DEF ServerIsAdmin
<1>6. CASE AddMember(Server)
    <2>1. Goto(Server, "syncProjects")
        BY <1>6 DEF AddMember
    <2>. QED  BY <1>0, <1>5, <2>1 DEF Goto
<1>7. CASE Continue(Server)
    BY <1>a, <1>3, <1>6, <1>7 DEF Continue, ServerCalls, CheckNamespace, CreateNamespace,
       CreateRepoAndJob, CheckMembers, CheckServices, DeleteNamespace, MarkDeleted,
       InsertMember, DeleteMember, CreateServiceConfig, DeployService, DeleteService
<1>8. CASE Restart
    BY <1>5, <1>8 DEF Restart
<1>9. CASE ListProjects \/ SyncNamespaceByOwnerID \/ SyncProjectsWithK8s
    <2>1. \/ \E n : TakeOver(n, AdminId)
          \/ \E c \in {"idle", "syncNamespaces", "syncProjects"} : \E r : Begin(Server, c, r)
        BY <1>9 DEF ListProjects, SyncNamespaceByOwnerID, SyncProjectsWithK8s, PassOver, Return
    <2>. QED  BY <1>0, <1>4, <1>5, <2>1 DEF Begin
<1>10. CASE (\E n \in Names : NamespaceGone(n)) \/ UNCHANGED vars
    BY <1>1, <1>10 DEF NamespaceGone, vars
<1>. QED  BY <1>2, <1>7, <1>8, <1>9, <1>10 DEF Next, Initialise, Procs

LEMMA ServicesCheckedNext ==
    ASSUME Overlap = FALSE, Inv, ServerIsAdmin, ServicesChecked, [Next]_vars
    PROVE  ServicesChecked'
<1>. USE UsersAreProcs
<1>0. /\ project \in [ProjectIds -> Project]
      /\ pc \in [Procs -> PCs] /\ req \in [Procs -> Request]
    BY DEF Inv, NamesOK, TypeInv, TypeOK
<1>a. pc[Server] \in ServerCalls
    BY DEF Inv, ProjectsInv
\* The server deletes nothing, and of the users only one is at work.
<1>1. ASSUME NEW u \in Users, Alone(u), pc'[u] # "deleteNamespace",
             \A y \in Procs : y # u => pc'[y] = pc[y]
      PROVE  ServicesChecked'
    BY <1>a, <1>1 DEF Alone, ServicesChecked, Procs, ServerCalls
<1>2. ASSUME NEW u \in Users, NewRequest(u) PROVE ServicesChecked'
    <2>1. Alone(u)
        BY <1>2 DEF Alone, Free, NewRequest, CreateProjectAction, DeleteProjectAction,
           DeployServiceAction, DeleteServiceAction, AddOrUpdateProjectMemberAction,
           DeleteProjectMemberAction
    <2>2. PICK c \in PCs \ {"deleteNamespace"} : \E r : Begin(u, c, r)
        BY <1>2 DEF NewRequest, CreateProjectAction, DeleteProjectAction,
           DeployServiceAction, DeleteServiceAction, AddOrUpdateProjectMemberAction,
           DeleteProjectMemberAction, PCs
    <2>3. pc'[u] = c /\ \A y \in Procs : y # u => pc'[y] = pc[y]
        BY <1>0, <2>2 DEF Begin
    <2>. QED  BY <1>1, <2>1, <2>2, <2>3
<1>3. ASSUME NEW u \in Users, Continue(u) PROVE ServicesChecked'
    <2>1. Alone(u)
        <3>1. pc[u] # "idle"
            BY <1>3 DEF Continue, CheckNamespace, AddProject, AddMember, CreateNamespace,
               CreateRepoAndJob, CheckMembers, CheckServices, DeleteNamespace, MarkDeleted,
               InsertMember, DeleteMember, CreateServiceConfig, DeployService, DeleteService
        <3>. QED  BY <3>1, AloneAtWork
    <2>2. CASE CheckServices(u)
        <3>1. CASE service[req[u].project] = "visible" /\ OwnerSees(req[u].project)
            <4>1. pc'[u] = "idle" /\ \A y \in Procs : y # u => pc'[y] = pc[y]
                BY <1>0, <2>2, <3>1 DEF CheckServices, Return, Begin
            <4>. QED  BY <1>1, <2>1, <4>1
        <3>2. CASE ~(service[req[u].project] = "visible" /\ OwnerSees(req[u].project))
            <4>1. /\ pc'[u] = "deleteNamespace" /\ \A y \in Procs : y # u => pc'[y] = pc[y]
                  /\ UNCHANGED <<project, members, service, req>>
                BY <1>0, <2>2, <3>2 DEF CheckServices, Goto
            <4>2. \A y \in Procs : pc'[y] = "deleteNamespace" => y = u
                BY <1>a, <2>1, <4>1 DEF Alone, Procs, ServerCalls
            <4>3. ~(service'[req'[u].project] = "visible" /\ OwnerSees(req[u].project)')
                BY <3>2, <4>1 DEF OwnerSees, IsProjectMember, MembersOf
            <4>. QED  BY <4>2, <4>3 DEF ServicesChecked
        <3>. QED  BY <3>1, <3>2
    <2>3. CASE ~CheckServices(u)
        <3>1. PICK c \in PCs \ {"deleteNamespace"} : Goto(u, c) \/ \E r : Begin(u, c, r)
            BY <1>3, <2>3 DEF Continue, CheckNamespace, AddProject, AddMember,
               CreateNamespace, CreateRepoAndJob, CheckMembers, DeleteNamespace, MarkDeleted,
               InsertMember, DeleteMember, CreateServiceConfig, DeployService,
               DeleteService, Return, PCs
        <3>2. pc'[u] = c /\ \A y \in Procs : y # u => pc'[y] = pc[y]
            BY <1>0, <3>1 DEF Begin, Goto
        <3>. QED  BY <1>1, <2>1, <3>1, <3>2
    <2>. QED  BY <2>2, <2>3
\* What the server adds makes no owner see more: its member is an administrator.
<1>4. ASSUME UNCHANGED service,
             \A u \in Users : pc'[u] = pc[u] /\ req'[u] = req[u],
             pc'[Server] \in ServerCalls,
             \A p \in ProjectIds : Live(p) => project'[p] = project[p],
             \A m \in members' \ members : m.user \in SysAdmins
      PROVE  ServicesChecked'
    <2>. SUFFICES ASSUME NEW u \in Users, pc'[u] = "deleteNamespace"
                  PROVE  ~(service'[req'[u].project] = "visible" /\ OwnerSees(req[u].project)')
        BY <1>4 DEF ServicesChecked, Procs, ServerCalls
    <2>. DEFINE p == req[u].project
    <2>1. pc[u] = "deleteNamespace" /\ req'[u] = req[u]
        BY <1>4
    <2>2. HasProject(u) /\ p \in ProjectIds
        BY <2>1 DEF Inv, ProjectsInv, DeletePhase, NamesOK, TypeInv, KnownRequests, KnownBy
    <2>3. project'[p] = project[p]
        BY <1>4, <2>2 DEF HasProject
    <2>4. ~(service[p] = "visible" /\ OwnerSees(p))
        BY <2>1 DEF ServicesChecked
    <2>5. OwnerSees(p)' => OwnerSees(p)
        BY <1>4, <2>1, <2>3 DEF OwnerSees, IsProjectMember, MembersOf
    <2>. QED  BY <1>4, <2>1, <2>4, <2>5
<1>5. CASE AddProject(Server)
    <2>1. PICK p, new, r :
            /\ p \in ProjectIds
            /\ project[p].state = "none"
            /\ project' = [project EXCEPT ![p] = new]
            /\ Begin(Server, "addMember", r)
            /\ UNCHANGED <<members, service>>
        BY <1>5 DEF AddProject, Unused
    <2>2. /\ pc'[Server] \in ServerCalls
          /\ \A u \in Users : pc'[u] = pc[u] /\ req'[u] = req[u]
        BY <1>0, <2>1 DEF Begin, ServerCalls
    <2>3. \A q \in ProjectIds : Live(q) => project'[q] = project[q]
        BY <1>0, <2>1 DEF Live
    <2>. QED  BY <1>4, <2>1, <2>2, <2>3
<1>6. CASE AddMember(Server)
    <2>1. /\ Goto(Server, "syncProjects") /\ UNCHANGED <<project, service>>
          /\ members' = members \cup {MemberRow(AdminId, req[Server].project)}
        BY <1>6 DEF AddMember, ServerIsAdmin
    <2>2. /\ pc'[Server] \in ServerCalls
          /\ \A u \in Users : pc'[u] = pc[u] /\ req'[u] = req[u]
        BY <1>0, <2>1 DEF Goto, ServerCalls
    <2>3. \A m \in members' \ members : m.user \in SysAdmins
        <3>1. MemberRow(AdminId, req[Server].project).user = AdminId
            BY DEF MemberRow
        <3>2. AdminId \in SysAdmins
            BY ProjectsAssumption
        <3>. QED  BY <2>1, <3>1, <3>2
    <2>4. \A q \in ProjectIds : Live(q) => project'[q] = project[q]
        BY <2>1
    <2>. QED  BY <1>4, <2>1, <2>2, <2>3, <2>4
<1>8. CASE Continue(Server)
    BY <1>a, <1>5, <1>6, <1>8 DEF Continue, ServerCalls, CheckNamespace, CreateNamespace,
       CreateRepoAndJob, CheckMembers, CheckServices, DeleteNamespace, MarkDeleted,
       InsertMember, DeleteMember, CreateServiceConfig, DeployService, DeleteService
<1>9. CASE Initialise
    <2>1. CASE Restart
        BY <2>1 DEF Restart, ServicesChecked
    <2>2. CASE ListProjects \/ SyncNamespaceByOwnerID \/ SyncProjectsWithK8s
        <3>1. UNCHANGED <<project, members, service>>
            BY <2>2 DEF ListProjects, SyncNamespaceByOwnerID, SyncProjectsWithK8s
        <3>2. PICK c \in ServerCalls : \E r : Begin(Server, c, r)
            BY <2>2 DEF ListProjects, SyncNamespaceByOwnerID, SyncProjectsWithK8s, TakeOver,
               PassOver, Return, ServerCalls
        <3>3. pc'[Server] \in ServerCalls /\ \A u \in Users : pc'[u] = pc[u] /\ req'[u] = req[u]
            BY <1>0, <3>2 DEF Begin
        <3>4. \A q \in ProjectIds : Live(q) => project'[q] = project[q]
            BY <3>1
        <3>. QED  BY <1>4, <3>1, <3>3, <3>4
    <2>. QED  BY <1>9, <2>1, <2>2 DEF Initialise
<1>7. CASE (\E n \in Names : NamespaceGone(n)) \/ UNCHANGED vars
    <2>1. UNCHANGED <<project, members, service, pc, req>>
        BY <1>7 DEF NamespaceGone, vars
    <2>. QED  BY <2>1 DEF ServicesChecked, OwnerSees, IsProjectMember, MembersOf
<1>. QED  BY <1>2, <1>3, <1>7, <1>8, <1>9 DEF Next, Procs

\* Only DeleteNamespace ends a namespace.
LEMMA OnlyDeletionTerminates ==
    ASSUME Inv, [Next]_vars, NEW n \in Names, ns[n] = "active", ns'[n] = "terminating"
    PROVE  \E x \in Procs : DeleteNamespace(x) /\ req[x].name = n
<1>1. ns \in [Names -> {"absent", "active", "terminating"}]
    BY DEF Inv, NamesOK, TypeInv, TypeOK
<1>2. ASSUME NEW u \in Users, NewRequest(u) PROVE FALSE
    BY <1>2 DEF NewRequest, CreateProjectAction, DeleteProjectAction,
       DeployServiceAction, DeleteServiceAction, AddOrUpdateProjectMemberAction,
       DeleteProjectMemberAction
<1>3. ASSUME NEW x \in Procs, CreateNamespace(x) PROVE FALSE
    BY <1>1, <1>3 DEF CreateNamespace
<1>4. ASSUME NEW x \in Procs, Continue(x), ~CreateNamespace(x), ~DeleteNamespace(x) PROVE FALSE
    BY <1>4 DEF Continue, CheckNamespace, AddProject, AddMember, CreateRepoAndJob,
       CheckMembers, CheckServices, MarkDeleted, InsertMember, DeleteMember,
       CreateServiceConfig, DeployService, DeleteService
<1>5. CASE Initialise
    BY <1>1, <1>5 DEF Initialise, Restart, ListProjects, SyncNamespaceByOwnerID,
       SyncProjectsWithK8s
<1>6. CASE (\E m \in Names : NamespaceGone(m)) \/ UNCHANGED vars
    BY <1>1, <1>6 DEF NamespaceGone, vars
<1>7. ASSUME NEW x \in Procs, DeleteNamespace(x) PROVE req[x].name = n
    BY <1>1, <1>7 DEF DeleteNamespace
<1>. QED  BY <1>2, <1>3, <1>4, <1>5, <1>6, <1>7 DEF Next

LEMMA NamespaceStays ==
    ASSUME Inv, ServicesChecked, [Next]_vars
    PROVE  \A p \in ProjectIds :
            /\ service[p] = "visible" /\ Live(p) /\ OwnerSees(p)
            /\ project[p].name \notin contested
            =>  ~(ns[project[p].name] = "active" /\ ns'[project[p].name] = "terminating")
<1>. SUFFICES ASSUME NEW p \in ProjectIds, service[p] = "visible", Live(p), OwnerSees(p),
                     project[p].name \notin contested,
                     ns[project[p].name] = "active", ns'[project[p].name] = "terminating"
              PROVE  FALSE
    OBVIOUS
<1>1. project[p].name \in Names
    BY DEF Inv, NamesOK, TypeInv, KnownRequests
<1>2. PICK x \in Procs : DeleteNamespace(x) /\ req[x].name = project[p].name
    BY <1>1, OnlyDeletionTerminates
<1>3. pc[x] = "deleteNamespace" /\ x \in Users
    BY <1>2 DEF DeleteNamespace, Inv, ProjectsInv, ServerCalls, Procs
<1>4. HasProject(x) /\ req[x].project \in ProjectIds
    BY <1>2, <1>3 DEF Inv, ProjectsInv, DeletePhase, NamesOK, TypeInv, KnownRequests, KnownBy
<1>5. req[x].project = p
    BY <1>2, <1>4 DEF HasProject, Inv, NamesOK, LiveNamesUnique
<1>. QED  BY <1>2, <1>3, <1>5 DEF ServicesChecked

\* No namespace is deleted under a service that is deployed and that the owner of
\* the project sees: what CheckServices finds still holds when DeleteNamespace is
\* called, also beside the initialiser, and the name, unless it was contested, is
\* of no other project.
THEOREM NamespacesOutliveServices ==
    ASSUME Overlap = FALSE
    PROVE  Spec => ServicesKeepNamespace
<1>. DEFINE All == Inv /\ ServerIsAdmin /\ ServicesChecked
<1>1. Init => All
    <2>1. Init => \A x \in Procs : pc[x] = "idle"
        BY DEF Init
    <2>. QED  BY <2>1, SerialInit, UsersAreProcs DEF ServicesChecked, ServerIsAdmin
<1>2. All /\ [Next]_vars => All'
    BY SerialNext, ServerIsAdminNext, ServicesCheckedNext
<1>3. All /\ [Next]_vars =>
        [\A p \in ProjectIds :
            /\ service[p] = "visible" /\ Live(p) /\ OwnerSees(p)
            /\ project[p].name \notin contested
            =>  ~(ns[project[p].name] = "active" /\ ns'[project[p].name] = "terminating")]_vars
    BY NamespaceStays
<1>. QED  BY <1>1, <1>2, <1>3, PTL DEF Spec, ServicesKeepNamespace
=============================================================================
