--------------------------------- MODULE Helm ---------------------------------
(***************************************************************************)
(* The helm repositories and releases of the API server:                   *)
(* v1/controller/helm.go, service/helm.go, service/helm/*.go and           *)
(* common/dao/helm.go.                                                     *)
(*                                                                         *)
(* A release is in three places: helm (its server, tiller) deployed it and *)
(* keeps its manifest, a row of the server says which project and user it  *)
(* belongs to, and each workload of the manifest that has a service is a   *)
(* row of the table of services, with source "helm".  Nothing joins the    *)
(* three: every request is a sequence of commands, each of which can fail  *)
(* or time out, and of statements, and what a failure undoes is written    *)
(* out, case by case.  Releases are also installed with helm's own command *)
(* line; the start of the server and the administrator synchronise them.   *)
(***************************************************************************)
EXTENDS Naturals, FiniteSets, SequencesExt

CONSTANTS
    Clients,      \* requests that can be underway at a time
    Users,
    Admin,        \* the system administrator
    Projects,
    Members,      \* project -> its members
    Owner,        \* project -> its owner
    Names,        \* names of releases
    None,         \* no project, no name
    Repositories, \* helm repositories ...
    Museums,      \* ... and those of the type that takes uploads
    Charts,       \* the charts there are: name and version (numbers), form (of the version), infos (the manifest)
    Services,     \* names of services
    MaxAsks,      \* bound: requests
    MaxIds,       \* bound: rows ever inserted into one table
    MaxFaults     \* bound: failed calls

ASSUME HelmAssumption ==
    /\ Admin \in Users /\ Museums \subseteq Repositories
    /\ Members \in [Projects -> SUBSET Users] /\ Owner \in [Projects -> Users]
    \* Names and versions are numbered in their order; 0 stands for no version.
    \* A version is a release, a pre-release, or a string that does not parse.
    /\ IsFiniteSet(Charts)
    /\ \A a \in Charts : a.name \in Nat /\ a.version \in Nat \ {0} /\ a.form \in {"release", "pre", "odd"}
    /\ \A a, b \in Charts : a.name = b.name /\ a.version = b.version => a = b
    \* CreateProject makes the owner a member (see Projects); here members stay as they are.
    /\ \A p \in Projects : Owner[p] = Admin \/ Owner[p] \in Members[p]
    /\ None \notin Names
    /\ MaxAsks \in Nat /\ MaxIds \in Nat \ {0} /\ MaxFaults \in Nat

VARIABLES
    index,       \* repository -> the charts it has
    helm,        \* name -> the release helm has, for the names in use
    rows,        \* the rows of releases
    lastRow,     \* the number of the last one
    services,    \* the rows of services
    lastService, \* the number of the last one
    pc,          \* client -> the next step of its request
    req,         \* client -> the local variables of its request
    asks,        \* requests so far
    faults,      \* failed calls so far
    disturbed    \* history: names that two requests were busy with at a time, and
                 \* those for which a failure was not undone

releaseVars == <<helm, rows, lastRow>>
serviceVars == <<services, lastService>>
procVars    == <<pc, req>>
vars == <<index, releaseVars, serviceVars, procVars, asks, faults, disturbed>>

-----------------------------------------------------------------------------
(* Charts and manifests. *)

\* What a manifest has, as far as the server looks: objects of these kinds, by name.
K8sInfo == [kind : {"Service", "Deployment", "StatefulSet"}, name : Services]

ASSUME ChartsAssumption == \A ch \in Charts : ch.infos \subseteq K8sInfo

\* The workloads that have a service of their name.
matchedServiceAndWorkload(infos) ==
    {w \in infos : w.kind # "Service" /\ [kind |-> "Service", name |-> w.name] \in infos}

\* What the downloaded index of a repository has.
NewChartRepository(r) == index[r]

\* The latest of some versions of a chart, which the index has before the others.
Newest(versions) == {c \in versions : \A d \in versions : d.version <= c.version}

VersionsOf(entries, name) == {c \in entries : c.name = name}

\* The chart of the name, of the version asked for (in full) or, without one, the first that fits
\* "*".  A pre-release does not fit "*"; a version that does not parse fits nothing.
Get(entries, name, version) ==
    LET versions == VersionsOf(entries, name) IN
    IF version = 0 THEN Newest({c \in versions : c.form = "release"})
                   ELSE {c \in versions : c.version = version /\ c.form # "odd"}

\* The manifest in the archive of a chart.
FetchChart(r, name, version) == {c.infos : c \in Get(NewChartRepository(r), name, version)}

GetHelmChartDetailAction(r, name, version) == FetchChart(r, name, version)

\* The names of a repository's charts, in their order.
GetRepoDetail(r) ==
    LET names == {c.name : c \in NewChartRepository(r)}
        D     == 1..Cardinality(names) IN
    CHOOSE list \in [D -> names] : \A i, j \in D : i < j => list[i] < list[j]

\* Variant: the last page is forgotten unless it is full.
GetPageCountFull(total, size) == total \div size

GetPageCount(total, size) ==
    IF total % size = 0 THEN total \div size ELSE total \div size + 1

\* A page of the list, counted from 1.
paginateHelmRepositoryDetail(list, page, size) ==
    LET pages == GetPageCount(Len(list), size) IN
    IF page < pages THEN SubSeq(list, (page - 1) * size + 1, page * size)
    ELSE IF page = pages THEN SubSeq(list, (page - 1) * size + 1, Len(list))
    ELSE <<>>

\* All of the list, without a size.
GetHelmRepoDetailAction(r, page, size) ==
    IF size = 0 THEN GetRepoDetail(r) ELSE paginateHelmRepositoryDetail(GetRepoDetail(r), page, size)

-----------------------------------------------------------------------------
(* The state. *)

Manifest == {c.infos : c \in Charts}

\* A release of helm: where it is deployed, what it consists of, whether the last
\* installation of it succeeded, and whether it was installed without the server.
HelmRelease == [ns : Projects, infos : Manifest, deployed : BOOLEAN, foreign : BOOLEAN]

\* A row of a release; `seen` is the last row the request knew of that inserted it.
ReleaseModel == [id : 1..MaxIds, name : Names, project : Projects, owner : Users,
                 infos : Manifest, seen : 0..MaxIds]
NoRow == [id |-> 0, name |-> None, project |-> None, owner |-> Admin, infos |-> {}, seen |-> 0]

\* A row of a service, and the release it was inserted for.
ServiceStatus == [id : 1..MaxIds, project : Projects, name : Services,
                  source : {"board", "helm"}, of : Names \cup {None}]

\* The chart of an installation; version 0 when none is asked for.
Chart == [repository : Repositories, name : {c.name : c \in Charts}, version : {0} \cup {c.version : c \in Charts}]
NoChart == [repository |-> None, name |-> 0, version |-> 0]

Request ==
    [op : {"none", "install", "sync", "delete"}, user : Users, project : Projects \cup {None},
     name : Names \cup {None}, chart : Chart \cup {NoChart}, infos : Manifest \cup {{}}, row : ReleaseModel \cup {NoRow},
     seen : 0..MaxIds, left : SUBSET K8sInfo, adds : SUBSET K8sInfo,
     names : SUBSET Names, todo : SUBSET ReleaseModel]

NullRequest ==
    [op |-> "none", user |-> Admin, project |-> None, name |-> None, chart |-> NoChart,
     infos |-> {}, row |-> NoRow, seen |-> 0, left |-> {}, adds |-> {}, names |-> {}, todo |-> {}]

PCs == {"idle", "check", "fetch", "install", "purge", "row", "prepare", "services", "unrow",
        "undo", "list", "models", "next", "delete", "deleteRow", "deleteServices"}

TypeOK ==
    /\ index \in [Repositories -> SUBSET Charts]
    /\ DOMAIN helm \subseteq Names /\ \A n \in DOMAIN helm : helm[n] \in HelmRelease
    /\ rows \subseteq ReleaseModel /\ lastRow \in 0..MaxIds
    /\ services \subseteq ServiceStatus /\ lastService \in 0..MaxIds
    /\ \A r, s \in rows : r.id = s.id => r = s
    /\ \A r, s \in services : r.id = s.id => r = s
    /\ pc \in [Clients -> PCs] /\ req \in [Clients -> Request]
    /\ asks \in 0..MaxAsks /\ faults \in 0..MaxFaults
    /\ disturbed \subseteq Names

\* The repositories have charts; a release may have been installed with the command line, and
\* a service of the server may be there.
Init ==
    /\ index = [r \in Repositories |-> Charts]
    /\ \/ helm = <<>>
       \/ \E n \in Names, p \in Projects, infos \in Manifest :
             helm = [m \in {n} |-> [ns |-> p, infos |-> infos, deployed |-> TRUE, foreign |-> TRUE]]
    /\ rows = {} /\ lastRow = 0
    /\ \/ services = {} /\ lastService = 0
       \/ \E p \in Projects, s \in Services :
             /\ services = {[id |-> 1, project |-> p, name |-> s, source |-> "board", of |-> None]}
             /\ lastService = 1
    /\ pc = [c \in Clients |-> "idle"] /\ req = [c \in Clients |-> NullRequest]
    /\ asks = 0 /\ faults = 0 /\ disturbed = {}

-----------------------------------------------------------------------------
(* Requests. *)

Goto(c, p) == pc' = [pc EXCEPT ![c] = p] /\ UNCHANGED req

Continue(c, p, r) == pc' = [pc EXCEPT ![c] = p] /\ req' = [req EXCEPT ![c] = r]

Return(c) == Continue(c, "idle", NullRequest)

\* The releases a request is busy with.
Concerns(c, n) ==
    /\ pc[c] # "idle"
    /\ n = req[c].name \/ n \in req[c].names \/ \E r \in req[c].todo : r.name = n

\* The request of c turns to the releases `names`.
Disturb(c, names) ==
    disturbed' = disturbed \cup {n \in names : \E d \in Clients \ {c} : Concerns(d, n)}

\* Nothing undoes the failure.
Unrecovered(c) == disturbed' = disturbed \cup {req[c].name}

Fails == faults < MaxFaults /\ faults' = faults + 1
Works == UNCHANGED faults

\* No node answers that could be helm's host.
HostFails == Fails

\* A command of helm exits with an error, or is stopped after a quarter of a minute.
HelmFails == Fails

\* The repository does not answer, or not with 200.
RepositoryFails == Fails

\* A statement fails.
QueryFails == Fails

\* A project for which the user has privileges.
ResolveUserPrivilegeByID(u, p) == u = Admin \/ u \in Members[p]

Ask(c, p, r, names) ==
    /\ pc[c] = "idle" /\ asks < MaxAsks /\ asks' = asks + 1
    /\ Continue(c, p, r)
    /\ Disturb(c, names)
    /\ UNCHANGED <<index, releaseVars, serviceVars, faults>>

-----------------------------------------------------------------------------
(* Helm is asked. *)

\* The names of all releases, failed ones too.
HelmReleases == DOMAIN helm

ListDeployedReleasesByNamespace(p) == {n \in HelmReleases : helm[n].deployed /\ helm[n].ns = p}

GetReleaseManifest(n) == IF n \in HelmReleases THEN helm[n].infos ELSE {}
GetReleaseStatus(n)   == n \in HelmReleases /\ helm[n].deployed

-----------------------------------------------------------------------------
(* Charts are uploaded and deleted; other repositories refuse. *)

\* The museum answers "created" only when it does not have the version.
Created(r, ch) == ch \notin index[r]

UploadChart(r, ch) ==
    /\ r \in Museums /\ Created(r, ch)
    /\ index' = [index EXCEPT ![r] = @ \cup {ch}]

DeleteChart(r, name, version) ==
    /\ r \in Museums
    /\ index' = [index EXCEPT ![r] = {c \in @ : ~(c.name = name /\ c.version = version)}]

UploadHelmChartAction(u, r, ch) ==
    /\ u = Admin /\ asks < MaxAsks /\ asks' = asks + 1
    /\ UploadChart(r, ch)
    /\ UNCHANGED <<releaseVars, serviceVars, procVars, faults, disturbed>>

DeleteHelmChartAction(u, r, ch) ==
    /\ u = Admin /\ asks < MaxAsks /\ asks' = asks + 1
    /\ DeleteChart(r, ch.name, ch.version)
    /\ UNCHANGED <<releaseVars, serviceVars, procVars, faults, disturbed>>

-----------------------------------------------------------------------------
(* The installation of a chart. *)

GetHelmReleaseByName(n) == {r \in rows : r.name = n}

\* Variant: the server's rows are not asked.
InstallHelmChartActionUnasked(c, u, p, n, chart) ==
    /\ ResolveUserPrivilegeByID(u, p)
    /\ Ask(c, "check", [NullRequest EXCEPT !.op = "install", !.user = u, !.project = p, !.name = n,
                                           !.chart = chart, !.seen = lastRow], {n})

\* The server's rows are asked for the name first ...
InstallHelmChartAction(c, u, p, n, chart) ==
    /\ ResolveUserPrivilegeByID(u, p)
    /\ GetHelmReleaseByName(n) = {}
    /\ Ask(c, "check", [NullRequest EXCEPT !.op = "install", !.user = u, !.project = p, !.name = n,
                                           !.chart = chart, !.seen = lastRow], {n})

\* Variant: only the server's rows are asked.
CheckReleaseNamesRows(c) ==
    /\ pc[c] = "check" /\ Works /\ Goto(c, "fetch")
    /\ UNCHANGED <<index, releaseVars, serviceVars, asks, disturbed>>

\* ... then helm is.
CheckReleaseNames(c) ==
    /\ pc[c] = "check"
    /\ \/ Works /\ IF req[c].name \in HelmReleases THEN Return(c) ELSE Goto(c, "fetch")
       \/ (QueryFails \/ HostFails \/ HelmFails) /\ Return(c)
    /\ UNCHANGED <<index, releaseVars, serviceVars, asks, disturbed>>

\* The index and the chart are downloaded, if the index has it.
DownloadChart(c) ==
    /\ pc[c] = "fetch"
    /\ \/ /\ Works
          /\ LET q == req[c]
                 found == FetchChart(q.chart.repository, q.chart.name, q.chart.version) IN
             \/ found = {} /\ Return(c)
             \/ \E infos \in found : Continue(c, "install", [q EXCEPT !.chart = NoChart, !.infos = infos])
       \/ (RepositoryFails \/ HostFails) /\ Return(c)
    /\ UNCHANGED <<index, releaseVars, serviceVars, asks, disturbed>>

\* Variant: without "--namespace".
UpgradedNowhere(n, p, infos, deployed) ==
    [m \in DOMAIN helm \cup {n} |->
        IF m # n THEN helm[m]
        ELSE IF n \in DOMAIN helm THEN [helm[n] EXCEPT !.infos = infos, !.deployed = deployed]
        ELSE [ns |-> None, infos |-> infos, deployed |-> deployed, foreign |-> FALSE]]

\* "helm upgrade --install": a release of the name that came meanwhile is upgraded where it is.
Upgraded(n, p, infos, deployed) ==
    [m \in DOMAIN helm \cup {n} |->
        IF m # n THEN helm[m]
        ELSE IF n \in DOMAIN helm THEN [helm[n] EXCEPT !.infos = infos, !.deployed = deployed]
        ELSE [ns |-> p, infos |-> infos, deployed |-> deployed, foreign |-> FALSE]]

Purged(n) == [m \in DOMAIN helm \ {n} |-> helm[m]]

\* The command fails when the objects cannot be made, or after a quarter of a minute; tiller may
\* have stored the release, and may even have finished the installation.
InstallChart(c) ==
    LET q == req[c] IN
    /\ pc[c] = "install"
    /\ \/ helm' = Upgraded(q.name, q.project, q.infos, TRUE) /\ Goto(c, "row")
       \/ \E deployed \in BOOLEAN : /\ helm' = Upgraded(q.name, q.project, q.infos, deployed)
                                    /\ Goto(c, "purge")
       \/ Goto(c, "purge") /\ UNCHANGED helm
    /\ UNCHANGED <<index, rows, lastRow, serviceVars, asks, faults, disturbed>>

\* "tiller maybe store the release, so we need to delete it manually"
PurgeFailed(c) ==
    /\ pc[c] = "purge" /\ Return(c)
    /\ \/ Works /\ helm' = Purged(req[c].name) /\ UNCHANGED disturbed
       \/ HelmFails /\ Unrecovered(c) /\ UNCHANGED helm
    /\ UNCHANGED <<index, rows, lastRow, serviceVars, asks>>

-----------------------------------------------------------------------------
(* A release of helm becomes a row, and its workloads become services; after an installation *)
(* and when the releases of a project are synchronised.                                      *)

\* The synchronisation goes on after an error, the installation gives up.
Finish(c) == IF req[c].op = "sync" THEN Goto(c, "next") ELSE Return(c)

\* The release and its manifest are read from helm, and the row is inserted.
insertReleaseIntoDatabase(c) ==
    LET q == req[c] IN
    /\ pc[c] = "row"
    /\ \/ /\ Works /\ q.name \in HelmReleases /\ lastRow < MaxIds
          /\ lastRow' = lastRow + 1
          /\ LET row == [id |-> lastRow', name |-> q.name, project |-> q.project, owner |-> q.user,
                         infos |-> GetReleaseManifest(q.name), seen |-> q.seen] IN
             /\ rows' = rows \cup {row}
             /\ Continue(c, "prepare", [q EXCEPT !.row = row, !.left = matchedServiceAndWorkload(row.infos)])
       \/ /\ IF q.name \in HelmReleases THEN HostFails \/ HelmFails \/ QueryFails ELSE Works
          /\ IF q.op = "sync" THEN Goto(c, "next") ELSE Goto(c, "undo")
          /\ UNCHANGED <<rows, lastRow>>
    /\ UNCHANGED <<index, helm, serviceVars, asks, disturbed>>

\* The installed release is removed again; an error is ignored.
DeleteReleaseAgain(c) ==
    /\ pc[c] = "undo" /\ Return(c)
    /\ \/ Works /\ helm' = Purged(req[c].name) /\ UNCHANGED disturbed
       \/ HelmFails /\ Unrecovered(c) /\ UNCHANGED helm
    /\ UNCHANGED <<index, rows, lastRow, serviceVars, asks>>

ServiceExists(p, name) == \E s \in services : s.project = p /\ s.name = name

\* For each workload: a stateful set is always added, a deployment unless the project has a
\* service of the name.  All are looked at before the first is added.
PrepareService(c) ==
    LET q == req[c] IN
    /\ pc[c] = "prepare"
    /\ \/ q.left = {} /\ Works /\ Goto(c, "services")
       \/ \E w \in q.left :
             \/ /\ Works
                /\ Continue(c, pc[c], [q EXCEPT !.left = @ \ {w},
                                       !.adds = IF w.kind = "StatefulSet" \/ ~ServiceExists(q.project, w.name)
                                                THEN @ \cup {w} ELSE @])
             \/ w.kind = "Deployment" /\ QueryFails /\ Goto(c, "unrow")
    /\ UNCHANGED <<index, releaseVars, serviceVars, asks, disturbed>>

AddService(c) ==
    LET q == req[c] IN
    /\ pc[c] = "services"
    /\ \/ q.adds = {} /\ Works /\ Finish(c) /\ UNCHANGED serviceVars
       \/ \E w \in q.adds :
             \/ /\ Works /\ lastService < MaxIds
                /\ lastService' = lastService + 1
                /\ services' = services \cup {[id |-> lastService', project |-> q.project, name |-> w.name,
                                               source |-> "helm", of |-> q.name]}
                /\ Continue(c, pc[c], [q EXCEPT !.adds = @ \ {w}])
             \/ QueryFails /\ Goto(c, "unrow") /\ UNCHANGED serviceVars
    /\ UNCHANGED <<index, releaseVars, asks, disturbed>>

\* When a service could not be added the row of the release goes, the release and the services
\* that were added stay, and the caller hears of no error.
DeleteHelmReleaseAgain(c) ==
    /\ pc[c] = "unrow" /\ Finish(c) /\ Unrecovered(c)
    /\ \/ Works /\ rows' = {r \in rows : r.id # req[c].row.id}
       \/ QueryFails /\ UNCHANGED rows
    /\ UNCHANGED <<index, helm, lastRow, serviceVars, asks>>

-----------------------------------------------------------------------------
(* The releases of a project are synchronised. *)

SyncHelmReleaseWithK8s(c, p) ==
    Ask(c, "list", [NullRequest EXCEPT !.op = "sync", !.project = p, !.user = Owner[p]], {})

SyncList(c) ==
    /\ pc[c] = "list"
    /\ \/ /\ Works
          /\ LET names == ListDeployedReleasesByNamespace(req[c].project) IN
             /\ Continue(c, "models", [req[c] EXCEPT !.names = names])
             /\ Disturb(c, names)
       \/ (HostFails \/ HelmFails) /\ Return(c) /\ UNCHANGED disturbed
    /\ UNCHANGED <<index, releaseVars, serviceVars, asks>>

\* The rows of all projects are read, once; the error of this statement is lost, and every
\* release then seems to be missing.
SyncModels(c) ==
    LET q == req[c] IN
    /\ pc[c] = "models"
    /\ \/ /\ Works
          /\ Continue(c, "next", [q EXCEPT !.names = @ \ {r.name : r \in rows}, !.seen = lastRow])
          /\ UNCHANGED disturbed
       \/ QueryFails /\ Goto(c, "next") /\ disturbed' = disturbed \cup q.names
    /\ UNCHANGED <<index, releaseVars, serviceVars, asks>>

SyncNext(c) ==
    LET q == req[c] IN
    /\ pc[c] = "next" /\ q.op = "sync"
    /\ \/ q.names = {} /\ Return(c)
       \/ \E n \in q.names :
             Continue(c, "row", [q EXCEPT !.name = n, !.names = @ \ {n}, !.row = NoRow, !.left = {}, !.adds = {}])
    /\ UNCHANGED <<index, releaseVars, serviceVars, asks, faults, disturbed>>

-----------------------------------------------------------------------------
(* Lists and deletions. *)

GetAllHelmReleases == rows

GetAllHelmReleasesByProjectName(p) == {r \in rows : r.project = p}

\* A user sees the own releases, in the projects the user is a member of.
GetHelmReleasesByUserIDAndProjectName(u, p) ==
    {r \in rows : r.owner = u /\ r.project = p /\ (u \in Members[r.project] \/ u = Admin)}

\* Of the rows, those helm has a release for.
generateModelReleases(models) == {m \in models : m.name \in HelmReleases}

\* Those of a project, or of all.
ListAllReleases(p) ==
    generateModelReleases(IF p = None THEN GetAllHelmReleases ELSE GetAllHelmReleasesByProjectName(p))

ListReleasesByUserID(u, p) ==
    generateModelReleases(
        IF p = None THEN UNION {GetHelmReleasesByUserIDAndProjectName(u, q) : q \in Projects}
                    ELSE GetHelmReleasesByUserIDAndProjectName(u, p))

ListHelmReleaseAction(u, p) ==
    IF u = Admin THEN ListAllReleases(p) ELSE ListReleasesByUserID(u, p)

resolveRelease(u, r) == r \in rows /\ (u = Admin \/ u = r.owner)

\* What is read of a release for its page, part by part side by side, until all parts are there.
GetReleaseDetail(r) ==
    [release   |-> r,
     deployed  |-> GetReleaseStatus(r.name),
     workloads |-> GetReleaseManifest(r.name)]

GetHelmReleaseAction(u, r) == IF resolveRelease(u, r) THEN {GetReleaseDetail(r)} ELSE {}

DeleteHelmReleaseAction(c, u, r) ==
    /\ resolveRelease(u, r)
    /\ Ask(c, "next", [NullRequest EXCEPT !.op = "delete", !.user = u, !.todo = {r}], {r.name})

DeleteHelmReleaseByProjectAction(c, u, p) ==
    LET models == IF u = Admin THEN GetAllHelmReleasesByProjectName(p)
                  ELSE GetHelmReleasesByUserIDAndProjectName(u, p) IN
    Ask(c, "next", [NullRequest EXCEPT !.op = "delete", !.user = u, !.todo = models],
        {r.name : r \in models})

DeleteNext(c) ==
    LET q == req[c] IN
    /\ pc[c] = "next" /\ q.op = "delete"
    /\ \/ q.todo = {} /\ Return(c)
       \/ \E r \in q.todo :
             Continue(c, "delete", [q EXCEPT !.row = r, !.name = r.name, !.project = r.project,
                                             !.todo = @ \ {r}])
    /\ UNCHANGED <<index, releaseVars, serviceVars, asks, faults, disturbed>>

\* The output of a command that fails is not passed on, so the exception made for "not found" never
\* applies: the deletion ends when helm has no such release.  A command that timed out may have had
\* its effect.
DeleteRelease(c) ==
    /\ pc[c] = "delete"
    /\ \/ /\ Works /\ req[c].name \in HelmReleases /\ Goto(c, "deleteRow")
          /\ helm' = Purged(req[c].name) /\ UNCHANGED disturbed
       \/ Works /\ req[c].name \notin HelmReleases /\ Return(c) /\ UNCHANGED <<helm, disturbed>>
       \/ (HostFails \/ HelmFails) /\ Return(c) /\ UNCHANGED <<helm, disturbed>>
       \/ HelmFails /\ Return(c) /\ helm' = Purged(req[c].name) /\ Unrecovered(c)
    /\ UNCHANGED <<index, rows, lastRow, serviceVars, asks>>

DeleteHelmRelease(c) ==
    /\ pc[c] = "deleteRow"
    /\ \/ Works /\ rows' = {r \in rows : r.id # req[c].row.id} /\ Goto(c, "deleteServices") /\ UNCHANGED disturbed
       \/ QueryFails /\ Return(c) /\ Unrecovered(c) /\ UNCHANGED rows
    /\ UNCHANGED <<index, helm, lastRow, serviceVars, asks>>

\* Variant: stateful sets are forgotten.
DeleteServiceByDeployments(c) ==
    LET q     == req[c]
        names == {w.name : w \in {v \in matchedServiceAndWorkload(q.row.infos) : v.kind = "Deployment"}} IN
    /\ pc[c] = "deleteServices" /\ Works /\ Goto(c, "next")
    /\ services' = {s \in services : ~(s.project = q.row.project /\ s.name \in names)}
    /\ UNCHANGED <<index, releaseVars, lastService, asks, disturbed>>

\* The services of the names in the manifest go, whoever made them.
DeleteServiceByNames(c) ==
    LET q     == req[c]
        names == {w.name : w \in matchedServiceAndWorkload(q.row.infos)} IN
    /\ pc[c] = "deleteServices"
    /\ \/ /\ Works /\ Goto(c, "next") /\ UNCHANGED disturbed
          /\ services' = {s \in services : ~(s.project = q.row.project /\ s.name \in names)}
       \/ QueryFails /\ Return(c) /\ Unrecovered(c) /\ UNCHANGED services
    /\ UNCHANGED <<index, releaseVars, lastService, asks>>

-----------------------------------------------------------------------------
(* The services the users make and delete. *)

DeployService(p, name) ==
    /\ ~ServiceExists(p, name) /\ asks < MaxAsks /\ asks' = asks + 1
    /\ lastService < MaxIds /\ lastService' = lastService + 1
    /\ services' = services \cup {[id |-> lastService', project |-> p, name |-> name,
                                   source |-> "board", of |-> None]}
    /\ UNCHANGED <<index, releaseVars, procVars, faults, disturbed>>

\* "you must delete the service %s from helm release page."
CheckServiceDeletable(s) == s.source # "helm"

DeleteService(s) ==
    /\ s \in services /\ CheckServiceDeletable(s) /\ asks < MaxAsks /\ asks' = asks + 1
    /\ services' = services \ {s}
    /\ UNCHANGED <<index, releaseVars, lastService, procVars, faults, disturbed>>

-----------------------------------------------------------------------------
Next ==
    \/ \E u \in Users, r \in Repositories, ch \in Charts :
          UploadHelmChartAction(u, r, ch) \/ DeleteHelmChartAction(u, r, ch)
    \/ \E p \in Projects, s \in Services : DeployService(p, s)
    \/ \E s \in services : DeleteService(s)
    \/ \E c \in Clients :
          \/ \E u \in Users, p \in Projects, n \in Names, chart \in Chart :
                InstallHelmChartAction(c, u, p, n, chart)
          \/ CheckReleaseNames(c) \/ DownloadChart(c) \/ InstallChart(c) \/ PurgeFailed(c)
          \/ insertReleaseIntoDatabase(c) \/ DeleteReleaseAgain(c)
          \/ PrepareService(c) \/ AddService(c) \/ DeleteHelmReleaseAgain(c)
          \/ \E p \in Projects : SyncHelmReleaseWithK8s(c, p)
          \/ SyncList(c) \/ SyncModels(c) \/ SyncNext(c)
          \/ \E u \in Users, r \in rows : DeleteHelmReleaseAction(c, u, r)
          \/ \E u \in Users, p \in Projects : DeleteHelmReleaseByProjectAction(c, u, p)
          \/ DeleteNext(c) \/ DeleteRelease(c) \/ DeleteHelmRelease(c) \/ DeleteServiceByNames(c)

Spec == Init /\ [][Next]_vars

-----------------------------------------------------------------------------
(* Properties. *)

\* No request is busy with the release, and none was left half done.
Settled(n) == n \notin disturbed /\ \A c \in Clients : ~Concerns(c, n)

\* Once no request is busy with a release, its row and helm agree, unless two requests were busy with
\* it at a time or what undoes a failure failed itself or was not tried, and whatever the requests
\* for other releases did: what the server installed has one row, in the
\* project it is deployed to and with the manifest that is deployed, and its owner and the
\* administrator find it in the lists; a row has a release.  (InstallChart's order of commands, and
\* what each of its failures undoes.)
ReleasesAreRecorded ==
    \A n \in Names : Settled(n) =>
        LET models == GetHelmReleaseByName(n) IN
        /\ Cardinality(models) <= 1
        /\ n \in DOMAIN helm => helm[n].foreign \/ models # {}
        /\ \A r \in models :
              /\ n \in DOMAIN helm /\ r.project = helm[n].ns
              /\ \A u \in {r.owner, Admin} :
                    /\ \A p \in {r.project, None} : r \in ListHelmReleaseAction(u, p)
                    /\ \A d \in GetHelmReleaseAction(u, r) : d.deployed /\ d.workloads = r.infos

\* A service of source "helm" cannot be deleted on its own page, so there has to be a release whose
\* deletion takes it along: a row that names it in its project, of a release that helm still has,
\* since without it the deletion ends before the services.  (CheckServiceDeletable and
\* DeleteReleaseByReleaseModel, which goes by the names in the row's manifest.)
HelmServicesAreDeletable ==
    \A s \in services : s.source = "helm" /\ Settled(s.of) =>
        \E r \in GetAllHelmReleasesByProjectName(s.project) :
            /\ r.name = s.of /\ r.name \in HelmReleases
            /\ \E w \in matchedServiceAndWorkload(r.infos) : w.name = s.name

\* Two rows have one name only when the request that inserted the later one had looked before the
\* other was there, which takes two requests at a time, or could not look.  (CheckReleaseNames,
\* SyncHelmReleaseWithK8s: the table itself takes any name.)
ReleasesAreUnique ==
    \A r, s \in rows : r.name = s.name /\ r.id < s.id => s.seen < r.id

\* The pages of a repository's charts, one after the other, are the list of its charts, all of them,
\* and of a listed chart one is fetched when no version is asked for, if it has a release at all.
\* (paginateHelmRepositoryDetail: the last page is short; SortEntries and Get: the first version that
\* fits.)
PagesCoverIndex ==
    \A r \in Repositories, size \in 1..3 :
        LET list == GetHelmRepoDetailAction(r, 0, 0) IN
        /\ FlattenSeq([i \in 1..(Len(list) + 1) |-> GetHelmRepoDetailAction(r, i, size)]) = list
        /\ Range(list) = {c.name : c \in NewChartRepository(r)}
        /\ \A i \in DOMAIN list :
              Cardinality(GetHelmChartDetailAction(r, list[i], 0)) =
                  IF \E c \in VersionsOf(NewChartRepository(r), list[i]) : c.form = "release" THEN 1 ELSE 0
================================================================================
