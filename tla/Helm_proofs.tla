----------------------------- MODULE Helm_proofs -----------------------------
(* What the proof system checks about Helm. *)
EXTENDS Helm, FiniteSetTheorems, SequenceTheorems, WellFoundedInduction, TLAPS

-----------------------------------------------------------------------------
(* Type correctness. *)

\* Of a row that was read: it has its number for itself.
RowKnown(r) == r.id <= lastRow /\ \A s \in rows : s.id = r.id => s = r

\* What the variables of a request are at each of its steps.
Shape(p, q) ==
    /\ p = "idle" => q = NullRequest
    /\ p \in {"check", "fetch", "install", "purge", "undo"} => q.op = "install"
    /\ p \in {"list", "models"} => q.op = "sync" /\ q.name = None /\ q.seen = 0
    /\ p \in {"row", "prepare", "services", "unrow"} => q.op \in {"install", "sync"} /\ q.name \in Names
    /\ p = "next" => q.op \in {"sync", "delete"}
    /\ p \in {"delete", "deleteRow", "deleteServices"} => q.op = "delete"
    /\ q.op = "install" => q.name \in Names
    /\ q.op \in {"install", "sync"} =>
        q.project \in Projects /\ ResolveUserPrivilegeByID(q.user, q.project) /\ q.todo = {}
    /\ q.op # "sync" => q.names = {}
    /\ q.name \notin q.names
    /\ p = "list" => q.names = {}
    /\ q.op = "delete" => q.seen = 0
    /\ p \in {"check", "fetch"} => q.chart \in Chart
    /\ p = "install" => q.infos \in Manifest
    /\ p \in {"check", "fetch", "install", "row"} => q.adds = {}
    /\ p \in {"prepare", "services", "unrow", "delete", "deleteRow", "deleteServices"} =>
        q.row \in ReleaseModel /\ q.row.name = q.name /\ q.row.project = q.project
    /\ p \in {"prepare", "services"} => q.left \cup q.adds \subseteq matchedServiceAndWorkload(q.row.infos)

\* What a request has read of the rows: of its names there were none up to the row it has seen.
Fits(q) ==
    /\ q.seen <= lastRow
    /\ RowKnown(q.row)
    /\ \A r \in q.todo : RowKnown(r)
    /\ \A r \in rows : r.name = q.name \/ r.name \in q.names => q.seen < r.id

TableInv ==
    /\ rows \subseteq ReleaseModel /\ lastRow \in 0..MaxIds
    /\ \A r \in rows : RowKnown(r)

ServiceInv ==
    /\ services \subseteq ServiceStatus /\ lastService \in 0..MaxIds
    /\ \A r, s \in services : r.id = s.id => r = s
    /\ \A s \in services : s.id <= lastService /\ (s.source = "helm" => s.of \in Names)

TillerInv == DOMAIN helm \subseteq Names /\ \A n \in DOMAIN helm : helm[n] \in HelmRelease

ProcInv ==
    /\ pc \in [Clients -> PCs] /\ req \in [Clients -> Request]
    /\ \A c \in Clients : Shape(pc[c], req[c]) /\ Fits(req[c])

RestInv ==
    /\ index \in [Repositories -> SUBSET Charts]
    /\ asks \in 0..MaxAsks /\ faults \in 0..MaxFaults /\ disturbed \subseteq Names

TypeInv == TableInv /\ ServiceInv /\ TillerInv /\ ProcInv /\ RestInv

LEMMA TypeInvTyped == TypeInv => TypeOK
BY DEF TypeInv, TypeOK, TableInv, ServiceInv, TillerInv, ProcInv, RestInv, RowKnown

LEMMA Bounds == MaxAsks \in Nat /\ MaxIds \in Nat \ {0} /\ MaxFaults \in Nat
BY HelmAssumption

LEMMA ManifestTypes ==
    /\ \A infos \in Manifest : infos \subseteq K8sInfo
    /\ \A infos : matchedServiceAndWorkload(infos) \subseteq infos
BY ChartsAssumption DEF Manifest, matchedServiceAndWorkload

LEMMA NullTypes ==
    /\ NullRequest \in Request /\ NoRow \notin ReleaseModel
    /\ NullRequest.op = "none" /\ NullRequest.name = None /\ NullRequest.seen = 0
    /\ NullRequest.names = {} /\ NullRequest.todo = {} /\ NullRequest.row = NoRow
    /\ NullRequest.left = {} /\ NullRequest.adds = {} /\ NullRequest.infos = {}
BY Bounds, HelmAssumption DEF NullRequest, Request, NoRow, ReleaseModel

LEMMA GotoContinues ==
    ASSUME ProcInv, NEW c \in Clients, NEW p, Goto(c, p)
    PROVE  Continue(c, p, req[c])
BY DEF ProcInv, Goto, Continue

\* A step of the request of c.
ClientStep(c) ==
    \/ \E u \in Users, p \in Projects, n \in Names, chart \in Chart :
          InstallHelmChartAction(c, u, p, n, chart)
    \/ CheckReleaseNames(c) \/ DownloadChart(c) \/ InstallChart(c) \/ PurgeFailed(c)
    \/ insertReleaseIntoDatabase(c) \/ DeleteReleaseAgain(c)
    \/ PrepareService(c) \/ AddService(c) \/ DeleteHelmReleaseAgain(c)
    \/ \E p \in Projects : SyncHelmReleaseWithK8s(c, p)
    \/ SyncList(c) \/ SyncModels(c) \/ SyncNext(c)
    \/ \E u \in Users, r \in rows : DeleteHelmReleaseAction(c, u, r)
    \/ \E u \in Users, p \in Projects : DeleteHelmReleaseByProjectAction(c, u, p)
    \/ DeleteNext(c) \/ DeleteRelease(c) \/ DeleteHelmRelease(c) \/ DeleteServiceByNames(c)

\* A step in which no request goes on.
IdleStep ==
    \/ \E u \in Users, r \in Repositories, ch \in Charts :
          UploadHelmChartAction(u, r, ch) \/ DeleteHelmChartAction(u, r, ch)
    \/ \E p \in Projects, s \in Services : DeployService(p, s)
    \/ \E s \in services : DeleteService(s)

LEMMA NextSteps == Next <=> IdleStep \/ \E c \in Clients : ClientStep(c)
BY DEF Next, IdleStep, ClientStep

\* The numbers of rows are given out in order.
RowsMove ==
    /\ lastRow' \in Nat /\ lastRow <= lastRow'
    /\ \A s \in rows' : s.id \in Nat /\ (s \in rows \/ lastRow < s.id)

LEMMA RowsStay == ASSUME TypeInv, UNCHANGED <<rows, lastRow>> PROVE RowsMove /\ TableInv'
BY Bounds DEF RowsMove, TypeInv, TableInv, RowKnown, ReleaseModel

LEMMA RowsGo ==
    ASSUME TypeInv, rows' \subseteq rows, UNCHANGED lastRow PROVE RowsMove /\ TableInv'
BY Bounds DEF RowsMove, TypeInv, TableInv, RowKnown, ReleaseModel

LEMMA FitsStays ==
    ASSUME TypeInv, NEW c \in Clients, NEW q \in Request, Fits(q), RowsMove
    PROVE  Fits(q)'
<1>0. /\ lastRow \in Nat /\ lastRow' \in Nat /\ lastRow <= lastRow' /\ q.seen \in Nat
      /\ \A s \in rows : s.id \in Nat
      /\ q.row.id \in Nat /\ \A r \in q.todo : r.id \in Nat
    BY Bounds DEF RowsMove, TypeInv, TableInv, Request, ReleaseModel, NoRow
<1>1. \A r : r.id \in Nat /\ RowKnown(r) => RowKnown(r)'
    BY <1>0 DEF RowKnown, RowsMove
<1>2. q.seen <= lastRow'
    BY <1>0 DEF Fits
<1>3. RowKnown(q.row)' /\ \A r \in q.todo : RowKnown(r)'
    BY <1>0, <1>1 DEF Fits
<1>4. ASSUME NEW r \in rows', r.name = q.name \/ r.name \in q.names PROVE q.seen < r.id
    <2>1. CASE r \in rows
        BY <1>4, <2>1 DEF Fits
    <2>2. CASE lastRow < r.id /\ r \notin rows
        <3>1. q.seen <= lastRow
            BY DEF Fits
        <3>2. r.id \in Nat
            BY <1>0 DEF RowsMove
        <3>. QED  BY <1>0, <2>2, <3>1, <3>2
    <2>. QED  BY <2>1, <2>2 DEF RowsMove
<1>5. \A r \in rows' : r.name = q.name \/ r.name \in q.names => q.seen < r.id
    BY <1>4
<1>. QED  BY <1>2, <1>3, <1>5 DEF Fits

LEMMA ProcStep ==
    ASSUME TypeInv, NEW c \in Clients, NEW p \in PCs, NEW q \in Request, Continue(c, p, q),
           Shape(p, q), Fits(q)', RowsMove
    PROVE  ProcInv'
<1>1. pc' \in [Clients -> PCs] /\ req' \in [Clients -> Request]
    BY DEF TypeInv, ProcInv, Continue
<1>2. ASSUME NEW d \in Clients PROVE Shape(pc'[d], req'[d]) /\ Fits(req[d])'
    <2>1. CASE d = c
        BY <2>1 DEF TypeInv, ProcInv, Continue
    <2>2. CASE d # c
        BY <2>2, FitsStays DEF TypeInv, ProcInv, Continue
    <2>. QED  BY <2>1, <2>2
<1>. QED  BY <1>1, <1>2 DEF ProcInv
\* What a step leaves alone keeps its type.
LEMMA ServicesStay == ASSUME TypeInv, UNCHANGED serviceVars PROVE ServiceInv'
BY DEF TypeInv, ServiceInv, serviceVars

LEMMA TillerStays == ASSUME TypeInv, UNCHANGED helm PROVE TillerInv'
BY DEF TypeInv, TillerInv

LEMMA RestStep ==
    ASSUME TypeInv, UNCHANGED <<index, asks>>, Works \/ Fails, disturbed' \subseteq Names
    PROVE  RestInv'
BY Bounds DEF TypeInv, RestInv, Works, Fails

LEMMA AskStep ==
    ASSUME TypeInv, asks < MaxAsks, asks' = asks + 1, UNCHANGED faults,
           index' \in [Repositories -> SUBSET Charts], disturbed' \subseteq Names
    PROVE  RestInv'
BY Bounds DEF TypeInv, RestInv

LEMMA Disturbs ==
    ASSUME TypeInv, NEW c \in Clients
    PROVE  /\ UNCHANGED disturbed => disturbed' \subseteq Names
           /\ \A names \in SUBSET Names : Disturb(c, names) => disturbed' \subseteq Names
           /\ req[c].name \in Names /\ Unrecovered(c) => disturbed' \subseteq Names
BY DEF TypeInv, RestInv, Disturb, Unrecovered

\* A request that ends, or goes on with what it has read.
LEMMA ReturnStep ==
    ASSUME TypeInv, NEW c \in Clients, Return(c), RowsMove
    PROVE  ProcInv'
<1>1. Shape("idle", NullRequest)
    BY NullTypes DEF Shape
<1>2. Fits(NullRequest)'
    <2>1. \A s \in rows' : 0 < s.id
        BY Bounds DEF RowsMove, TypeInv, TableInv, ReleaseModel
    <2>2. 0 <= lastRow' /\ NoRow.id = 0
        BY Bounds DEF RowsMove, TypeInv, TableInv, NoRow
    <2>3. NullRequest.seen = 0 /\ NullRequest.row = NoRow /\ NullRequest.todo = {}
        BY NullTypes
    <2>. QED  BY <2>1, <2>2, <2>3 DEF Fits, RowKnown
<1>. QED  BY <1>1, <1>2, ProcStep, NullTypes DEF Return, PCs

LEMMA GotoStep ==
    ASSUME TypeInv, NEW c \in Clients, NEW p \in PCs, Goto(c, p), RowsMove, Shape(p, req[c])
    PROVE  ProcInv'
<1>1. req[c] \in Request /\ Fits(req[c])
    BY DEF TypeInv, ProcInv
<1>2. Continue(c, p, req[c])
    BY GotoContinues DEF TypeInv
<1>3. PICK q \in Request : q = req[c]
    BY <1>1
<1>4. Fits(q)'
    BY <1>1, <1>3, FitsStays
<1>. QED  BY <1>2, <1>3, <1>4, ProcStep

\* A deployed release, and one that goes.
LEMMA TillerSteps ==
    ASSUME TypeInv, NEW n \in Names
    PROVE  /\ \A p \in Projects, infos \in Manifest, deployed \in BOOLEAN :
                 helm' = Upgraded(n, p, infos, deployed) => TillerInv'
           /\ helm' = Purged(n) => TillerInv'
<1>1. ASSUME NEW p \in Projects, NEW infos \in Manifest, NEW deployed \in BOOLEAN,
             helm' = Upgraded(n, p, infos, deployed)
      PROVE  TillerInv'
    <2>1. DOMAIN helm' = DOMAIN helm \cup {n}
        BY <1>1 DEF Upgraded
    <2>2. \A m \in DOMAIN helm' : helm'[m] \in HelmRelease
        <3>1. \A m \in DOMAIN helm : helm[m] \in HelmRelease
            BY DEF TypeInv, TillerInv
        <3>2. n \in DOMAIN helm => [helm[n] EXCEPT !.infos = infos, !.deployed = deployed] \in HelmRelease
            BY <3>1 DEF HelmRelease
        <3>3. [ns |-> p, infos |-> infos, deployed |-> deployed, foreign |-> FALSE] \in HelmRelease
            BY DEF HelmRelease
        <3>4. \A m \in DOMAIN helm \cup {n} : m # n => helm'[m] = helm[m]
            BY <1>1 DEF Upgraded
        <3>5. helm'[n] \in HelmRelease
            BY <1>1, <3>2, <3>3 DEF Upgraded
        <3>. QED  BY <2>1, <3>1, <3>4, <3>5
    <2>. QED  BY <2>1, <2>2 DEF TypeInv, TillerInv
<1>2. ASSUME helm' = Purged(n) PROVE TillerInv'
    BY <1>2 DEF Purged, TypeInv, TillerInv
<1>. QED  BY <1>1, <1>2
\* What a request has read stays known after a step in which the rows stay.
LEMMA ContinueStep ==
    ASSUME TypeInv, NEW c \in Clients, NEW p \in PCs, NEW q \in Request, Continue(c, p, q),
           Shape(p, q), Fits(q), UNCHANGED <<rows, lastRow>>
    PROVE  ProcInv'
BY RowsStay, FitsStays, ProcStep

LEMMA NullRowKnown == TypeInv => RowKnown(NoRow)
<1>1. NoRow.id = 0
    BY DEF NoRow
<1>. QED  BY <1>1, Bounds DEF RowKnown, TypeInv, TableInv, ReleaseModel

\* One lemma for each step of a request.
LEMMA AskTyped ==
    ASSUME TypeInv, NEW c \in Clients, NEW p \in PCs, NEW q \in Request, NEW names \in SUBSET Names,
           Ask(c, p, q, names), Shape(p, q), Fits(q)
    PROVE  TypeInv'
<1>1. TableInv' /\ ServiceInv' /\ TillerInv'
    BY RowsStay, ServicesStay, TillerStays DEF Ask, releaseVars
<1>2. ProcInv'
    BY ContinueStep DEF Ask, releaseVars
<1>3. RestInv'
    BY AskStep, Disturbs DEF Ask, TypeInv, RestInv
<1>. QED  BY <1>1, <1>2, <1>3 DEF TypeInv

LEMMA InstallRequest ==
    ASSUME NEW u \in Users, NEW p \in Projects, NEW n \in Names, NEW chart \in Chart, NEW seen \in 0..MaxIds
    PROVE  [NullRequest EXCEPT !.op = "install", !.user = u, !.project = p, !.name = n,
                               !.chart = chart, !.seen = seen] \in Request
<1>1. \A q \in Request : [q EXCEPT !.op = "install", !.user = u, !.project = p] \in Request
    BY DEF Request
<1>2. \A q \in Request : [q EXCEPT !.name = n] \in Request
    BY DEF Request
<1>3. \A q \in Request : [q EXCEPT !.chart = chart, !.seen = seen] \in Request
    BY DEF Request
<1>4. \A q \in Request : DOMAIN q = {"op", "user", "project", "name", "chart", "infos", "row", "seen",
                                    "left", "adds", "names", "todo"}
    BY DEF Request
<1> DEFINE r == [NullRequest EXCEPT !.op = "install", !.user = u, !.project = p]
           s == [r EXCEPT !.name = n]
<1>5. NullRequest \in Request /\ r \in Request /\ s \in Request
    <2>1. NullRequest \in Request
        BY NullTypes
    <2>2. r \in Request
        BY <1>1, <2>1
    <2>. HIDE DEF r
    <2>. QED  BY <1>2, <2>1, <2>2
<1>6. [NullRequest EXCEPT !.op = "install", !.user = u, !.project = p, !.name = n,
                          !.chart = chart, !.seen = seen]
          = [s EXCEPT !.chart = chart, !.seen = seen]
    BY <1>4, <1>5
<1> HIDE DEF r, s
<1>. QED  BY <1>3, <1>5, <1>6

LEMMA InstallTyped ==
    ASSUME TypeInv, NEW c \in Clients, NEW u \in Users, NEW p \in Projects, NEW n \in Names,
           NEW chart \in Chart, InstallHelmChartAction(c, u, p, n, chart)
    PROVE  TypeInv'
<1> DEFINE q == [NullRequest EXCEPT !.op = "install", !.user = u, !.project = p, !.name = n,
                                    !.chart = chart, !.seen = lastRow]
<1>0. lastRow \in 0..MaxIds
    BY DEF TypeInv, TableInv
<1>1. q \in Request
    BY <1>0, InstallRequest
<1>2. /\ q.chart = chart /\ q.adds = {} /\ q.op = "install" /\ q.user = u /\ q.project = p /\ q.name = n /\ q.seen = lastRow
      /\ q.row = NoRow /\ q.todo = {} /\ q.names = {}
    BY NullTypes DEF NullRequest
<1>3. Shape("check", q)
    BY <1>2 DEF Shape, InstallHelmChartAction
<1>4. Fits(q)
    <2>1. \A r \in rows : r.name # n
        BY DEF InstallHelmChartAction, GetHelmReleaseByName
    <2>2. RowKnown(NoRow)
        BY NullRowKnown
    <2>. QED  BY <1>2, <2>1, <2>2, Bounds DEF Fits, TypeInv, TableInv
<1>5. Ask(c, "check", q, {n})
    BY DEF InstallHelmChartAction
<1> HIDE DEF q
<1>. QED  BY <1>1, <1>3, <1>4, <1>5, AskTyped DEF PCs

LEMMA FetchTyped ==
    ASSUME TypeInv, NEW c \in Clients, CheckReleaseNames(c) \/ DownloadChart(c)
    PROVE  TypeInv'
<1>1. UNCHANGED <<index, rows, lastRow, helm, serviceVars, asks, disturbed>>
    BY DEF CheckReleaseNames, DownloadChart, releaseVars
<1>2. TableInv' /\ ServiceInv' /\ TillerInv' /\ RowsMove
    BY <1>1, RowsStay, ServicesStay, TillerStays
<1>3. RestInv'
    BY <1>1, RestStep, Disturbs
       DEF CheckReleaseNames, DownloadChart, QueryFails, HostFails, HelmFails, RepositoryFails
<1>4. Shape(pc[c], req[c]) /\ Fits(req[c]) /\ req[c] \in Request
    BY DEF TypeInv, ProcInv
<1>5. CASE CheckReleaseNames(c)
    <2>1. CASE Return(c)
        BY <1>2, <1>3, <2>1, ReturnStep DEF TypeInv
    <2>2. CASE Goto(c, "fetch")
        <3>1. Shape("fetch", req[c])
            BY <1>4, <1>5 DEF Shape, CheckReleaseNames
        <3>. QED  BY <1>2, <1>3, <2>2, <3>1, GotoStep DEF TypeInv, PCs
    <2>. QED  BY <1>5, <2>1, <2>2 DEF CheckReleaseNames
<1>6. CASE DownloadChart(c)
    <2>1. CASE Return(c)
        BY <1>2, <1>3, <2>1, ReturnStep DEF TypeInv
    <2>2. ASSUME NEW infos \in FetchChart(req[c].chart.repository, req[c].chart.name, req[c].chart.version),
                 Continue(c, "install", [req[c] EXCEPT !.chart = NoChart, !.infos = infos]), req[c].op = "install"
          PROVE  TypeInv'
        <3> DEFINE q == [req[c] EXCEPT !.chart = NoChart, !.infos = infos]
        <3>1. infos \in Manifest
            BY <1>4, <1>6 DEF Shape, DownloadChart, Chart, FetchChart, Get, VersionsOf, Newest, NewChartRepository,
                              Manifest, TypeInv, RestInv
        <3>2. q \in Request /\ q.infos = infos
            BY <1>4, <3>1 DEF Request
        <3>3. Shape("install", q)
            <4>1. pc[c] = "fetch"
                BY <1>6 DEF DownloadChart
            <4>. QED  BY <1>4, <3>1, <3>2, <2>2, <4>1 DEF Shape, Request
        <3>4. Fits(q)
            BY <1>4 DEF Fits, Request
        <3>5. Continue(c, "install", q)
            BY <2>2
        <3> HIDE DEF q
        <3>6. ProcInv'
            BY <1>1, <3>2, <3>3, <3>4, <3>5, ContinueStep DEF PCs
        <3>. QED  BY <1>2, <1>3, <3>6 DEF TypeInv
    <2>3. req[c].op = "install"
        BY <1>4, <1>6 DEF Shape, DownloadChart
    <2>. QED  BY <1>6, <2>1, <2>2, <2>3 DEF DownloadChart
<1>. QED  BY <1>5, <1>6
LEMMA TillerTyped ==
    ASSUME TypeInv, NEW c \in Clients, InstallChart(c) \/ PurgeFailed(c) \/ DeleteReleaseAgain(c)
    PROVE  TypeInv'
<1>1. Shape(pc[c], req[c]) /\ req[c] \in Request
    BY DEF TypeInv, ProcInv
<1>2. req[c].op = "install" /\ req[c].name \in Names /\ req[c].project \in Projects
    BY <1>1 DEF Shape, InstallChart, PurgeFailed, DeleteReleaseAgain
<1>3. UNCHANGED <<index, rows, lastRow, serviceVars, asks>>
    BY DEF InstallChart, PurgeFailed, DeleteReleaseAgain
<1>4. TableInv' /\ ServiceInv' /\ RowsMove
    BY <1>3, RowsStay, ServicesStay
<1>5. RestInv'
    BY <1>2, <1>3, RestStep, Disturbs
       DEF InstallChart, PurgeFailed, DeleteReleaseAgain, HelmFails, Works
<1>6. TillerInv'
    <2>1. CASE InstallChart(c)
        <3>1. req[c].infos \in Manifest
            BY <1>1, <2>1 DEF Shape, InstallChart
        <3>. QED  BY <1>2, <2>1, <3>1, TillerSteps, TillerStays DEF InstallChart
    <2>2. CASE PurgeFailed(c) \/ DeleteReleaseAgain(c)
        BY <1>2, <2>2, TillerSteps, TillerStays DEF PurgeFailed, DeleteReleaseAgain
    <2>. QED  BY <2>1, <2>2
<1>7. ProcInv'
    <2>1. CASE Return(c)
        BY <1>4, <2>1, ReturnStep
    <2>2. ASSUME NEW p \in {"purge", "row"}, Goto(c, p), pc[c] = "install" PROVE ProcInv'
        <3>1. Shape(p, req[c])
            BY <1>1, <1>2, <2>2 DEF Shape
        <3>. QED  BY <1>4, <2>2, <3>1, GotoStep DEF PCs
    <2>. QED  BY <2>1, <2>2 DEF InstallChart, PurgeFailed, DeleteReleaseAgain
<1>. QED  BY <1>4, <1>5, <1>6, <1>7 DEF TypeInv

\* A request whose part for one release is over.
LEMMA FinishStep ==
    ASSUME TypeInv, NEW c \in Clients, Finish(c), RowsMove
    PROVE  ProcInv'
<1>1. CASE Return(c)
    BY <1>1, ReturnStep
<1>2. CASE req[c].op = "sync" /\ Goto(c, "next")
    <2>1. Shape("next", req[c])
        BY <1>2 DEF Shape, TypeInv, ProcInv
    <2>. QED  BY <1>2, <2>1, GotoStep DEF PCs
<1>. QED  BY <1>1, <1>2 DEF Finish

LEMMA RowTyped ==
    ASSUME TypeInv, NEW c \in Clients, insertReleaseIntoDatabase(c)
    PROVE  TypeInv'
<1>1. Shape(pc[c], req[c]) /\ Fits(req[c]) /\ req[c] \in Request
    BY DEF TypeInv, ProcInv
<1>2. /\ req[c].op \in {"install", "sync"} /\ req[c].name \in Names /\ req[c].project \in Projects
      /\ req[c].user \in Users /\ req[c].seen \in 0..MaxIds
    BY <1>1 DEF Shape, insertReleaseIntoDatabase, Request
<1>3. UNCHANGED <<index, helm, serviceVars, asks, disturbed>>
    BY DEF insertReleaseIntoDatabase
<1>4. ServiceInv' /\ TillerInv' /\ RestInv'
    BY <1>3, ServicesStay, TillerStays, RestStep, Disturbs
       DEF insertReleaseIntoDatabase, HostFails, HelmFails, QueryFails
<1>5. CASE UNCHANGED <<rows, lastRow>>
    <2>1. ASSUME NEW p \in {"next", "undo"}, Goto(c, p), p = "undo" <=> req[c].op # "sync" PROVE ProcInv'
        <3>1. Shape(p, req[c])
            BY <1>1, <1>2, <2>1 DEF Shape
        <3>. QED  BY <1>5, <2>1, <3>1, GotoStep, RowsStay DEF PCs
    <2>2. ProcInv'
        BY <1>5, <2>1 DEF insertReleaseIntoDatabase, TypeInv, TableInv
    <2>. QED  BY <1>4, <1>5, <2>2, RowsStay DEF TypeInv
<1>6. CASE /\ req[c].name \in HelmReleases /\ lastRow < MaxIds /\ lastRow' = lastRow + 1
    <2> DEFINE row == [id |-> lastRow', name |-> req[c].name, project |-> req[c].project,
                       owner |-> req[c].user, infos |-> GetReleaseManifest(req[c].name), seen |-> req[c].seen]
               q == [req[c] EXCEPT !.row = row, !.left = matchedServiceAndWorkload(row.infos)]
    <2>0. lastRow \in Nat /\ lastRow + 1 \in 1..MaxIds
        BY <1>6, Bounds DEF TypeInv, TableInv
    <2>1. row.infos \in Manifest
        BY <1>2, <1>6 DEF GetReleaseManifest, HelmReleases, TypeInv, TillerInv, HelmRelease
    <2>2. row \in ReleaseModel
        BY <1>2, <1>6, <2>0, <2>1 DEF ReleaseModel
    <2>3. rows' = rows \cup {row} /\ Continue(c, "prepare", q)
        BY <1>6, <2>0 DEF insertReleaseIntoDatabase, TypeInv, TableInv
    <2>4. /\ row.id = lastRow + 1 /\ row.name = req[c].name /\ row.project = req[c].project
          /\ row.seen = req[c].seen
        BY <1>6
    <2>5. q \in Request
        BY <1>1, <2>1, <2>2, ManifestTypes DEF Request
    <2>6. /\ q.op = req[c].op /\ q.user = req[c].user /\ q.project = req[c].project /\ q.name = req[c].name
          /\ q.seen = req[c].seen /\ q.names = req[c].names /\ q.todo = req[c].todo /\ q.row = row
          /\ q.left = matchedServiceAndWorkload(row.infos) /\ q.adds = req[c].adds
        BY <1>1 DEF Request
    <2> HIDE DEF row, q
    <2>7. req[c].adds = {}
        BY <1>1 DEF Shape, insertReleaseIntoDatabase
    <2>8. Shape("prepare", q)
        BY <1>1, <1>2, <2>2, <2>4, <2>6, <2>7 DEF Shape
    <2>9. TableInv' /\ RowsMove
        <3>1. \A s \in rows : s.id \in Nat /\ s.id <= lastRow
            BY Bounds DEF TypeInv, TableInv, ReleaseModel, RowKnown
        <3>2. \A r, s \in rows' : r.id = s.id => r = s
            BY <2>0, <2>3, <2>4, <3>1 DEF TypeInv, TableInv, RowKnown
        <3>3. \A r \in rows' : r.id <= lastRow'
            BY <1>6, <2>0, <2>3, <2>4, <3>1
        <3>. QED  BY <1>6, <2>0, <2>2, <2>3, <2>4, <3>1, <3>2, <3>3
                  DEF TypeInv, TableInv, RowKnown, RowsMove
    <2>10. PICK g \in Request : g = req[c]
        BY <1>1
    <2>11. Fits(g)'
        BY <1>1, <2>9, <2>10, FitsStays
    <2>12. PICK h \in Request : h = q
        BY <2>5
    <2>13. Fits(h)'
        <3>1. /\ h.seen = g.seen /\ h.names = g.names /\ h.todo = g.todo /\ h.name = g.name
              /\ h.row \in rows'
            BY <2>3, <2>6, <2>10, <2>12
        <3>2. RowKnown(h.row)'
            BY <2>9, <3>1 DEF TableInv
        <3>. QED  BY <2>11, <3>1, <3>2 DEF Fits
    <2>14. Continue(c, "prepare", h) /\ Shape("prepare", h)
        BY <2>3, <2>8, <2>12
    <2>. QED  BY <1>4, <2>9, <2>13, <2>14, ProcStep DEF TypeInv, PCs
<1>. QED  BY <1>5, <1>6 DEF insertReleaseIntoDatabase
LEMMA ServiceTyped ==
    ASSUME TypeInv, NEW c \in Clients, PrepareService(c) \/ AddService(c)
    PROVE  TypeInv'
<1>1. Shape(pc[c], req[c]) /\ Fits(req[c]) /\ req[c] \in Request
    BY DEF TypeInv, ProcInv
<1>2. UNCHANGED <<index, helm, rows, lastRow, asks, disturbed>>
    BY DEF PrepareService, AddService, releaseVars
<1>3. TableInv' /\ TillerInv' /\ RowsMove
    BY <1>2, RowsStay, TillerStays
<1>4. RestInv'
    BY <1>2, RestStep, Disturbs DEF PrepareService, AddService, QueryFails
<1>5. pc[c] \in {"prepare", "services"}
    BY DEF PrepareService, AddService
<1>6. ServiceInv'
    <2>1. CASE UNCHANGED serviceVars
        BY <2>1, ServicesStay
    <2>2. ASSUME NEW w \in req[c].adds, lastService < MaxIds, lastService' = lastService + 1,
                 services' = services \cup {[id |-> lastService', project |-> req[c].project, name |-> w.name,
                                             source |-> "helm", of |-> req[c].name]}
          PROVE  ServiceInv'
        <3>1. req[c].project \in Projects /\ req[c].name \in Names
            BY <1>1, <1>5 DEF Shape
        <3>2. w.name \in Services
            BY <1>1, <2>2 DEF Request, K8sInfo
        <3>3. lastService \in Nat /\ lastService + 1 \in 1..MaxIds
            BY <2>2, Bounds DEF TypeInv, ServiceInv
        <3>4. \A s \in services : s.id \in Nat /\ s.id <= lastService
            BY Bounds DEF TypeInv, ServiceInv, ServiceStatus
        <3> DEFINE new == [id |-> lastService + 1, project |-> req[c].project, name |-> w.name,
                           source |-> "helm", of |-> req[c].name]
        <3>5. new \in ServiceStatus /\ new.id = lastService + 1 /\ new.of \in Names
            BY <3>1, <3>2, <3>3 DEF ServiceStatus
        <3>6. services' = services \cup {new}
            BY <2>2
        <3> HIDE DEF new
        <3>7. \A r, s \in services' : r.id = s.id => r = s
            BY <3>3, <3>4, <3>5, <3>6 DEF TypeInv, ServiceInv
        <3>8. \A s \in services' : s.id <= lastService' /\ (s.source = "helm" => s.of \in Names)
            BY <2>2, <3>3, <3>4, <3>5, <3>6 DEF TypeInv, ServiceInv
        <3>. QED  BY <2>2, <3>3, <3>5, <3>6, <3>7, <3>8 DEF TypeInv, ServiceInv
    <2>. QED  BY <2>1, <2>2 DEF PrepareService, AddService
<1>7. ProcInv'
    <2>1. ASSUME NEW p \in {"services", "unrow"}, Goto(c, p) PROVE ProcInv'
        <3>1. Shape(p, req[c])
            BY <1>1, <1>5, <2>1 DEF Shape
        <3>. QED  BY <1>3, <2>1, <3>1, GotoStep DEF PCs
    <2>2. CASE Finish(c)
        BY <1>3, <2>2, FinishStep
    <2>3. ASSUME NEW left \in SUBSET req[c].left, NEW adds \in SUBSET (req[c].left \cup req[c].adds),
                 Continue(c, pc[c], [req[c] EXCEPT !.left = left, !.adds = adds])
          PROVE  ProcInv'
        <3> DEFINE q == [req[c] EXCEPT !.left = left, !.adds = adds]
        <3>1. q \in Request /\ Fits(q)
            BY <1>1 DEF Request, Fits
        <3>2. /\ q.op = req[c].op /\ q.user = req[c].user /\ q.project = req[c].project /\ q.name = req[c].name
              /\ q.seen = req[c].seen /\ q.names = req[c].names /\ q.todo = req[c].todo /\ q.row = req[c].row
              /\ q.left = left /\ q.adds = adds
            BY <1>1 DEF Request
        <3>3. Continue(c, pc[c], q)
            BY <2>3
        <3> HIDE DEF q
        <3>4. Shape(pc[c], q)
            BY <1>1, <1>5, <3>2 DEF Shape
        <3>. QED  BY <1>2, <1>5, <3>1, <3>3, <3>4, ContinueStep DEF PCs
    <2>4. CASE PrepareService(c)
        <3>1. ASSUME NEW w \in req[c].left, NEW adds \in {req[c].adds, req[c].adds \cup {w}},
                     Continue(c, pc[c], [req[c] EXCEPT !.left = @ \ {w}, !.adds = adds])
              PROVE  ProcInv'
            <4>1. req[c].left \ {w} \in SUBSET req[c].left /\ adds \in SUBSET (req[c].left \cup req[c].adds)
                OBVIOUS
            <4>2. [req[c] EXCEPT !.left = @ \ {w}, !.adds = adds]
                      = [req[c] EXCEPT !.left = req[c].left \ {w}, !.adds = adds]
                BY <1>1 DEF Request
            <4>. QED  BY <2>3, <3>1, <4>1, <4>2
        <3>. QED  BY <2>1, <2>4, <3>1 DEF PrepareService
    <2>5. CASE AddService(c)
        <3>1. ASSUME NEW w \in req[c].adds, Continue(c, pc[c], [req[c] EXCEPT !.adds = @ \ {w}]) PROVE ProcInv'
            <4>1. [req[c] EXCEPT !.adds = @ \ {w}]
                      = [req[c] EXCEPT !.left = req[c].left, !.adds = req[c].adds \ {w}]
                BY <1>1 DEF Request
            <4>2. req[c].left \in SUBSET req[c].left
                  /\ req[c].adds \ {w} \in SUBSET (req[c].left \cup req[c].adds)
                OBVIOUS
            <4>3. Continue(c, pc[c], [req[c] EXCEPT !.left = req[c].left, !.adds = req[c].adds \ {w}])
                BY <3>1, <4>1
            <4>. QED  BY <2>3, <4>2, <4>3
        <3>. QED  BY <2>1, <2>2, <2>5, <3>1 DEF AddService
    <2>. QED  BY <2>4, <2>5
<1>. QED  BY <1>3, <1>4, <1>6, <1>7 DEF TypeInv

LEMMA UnrowTyped ==
    ASSUME TypeInv, NEW c \in Clients, DeleteHelmReleaseAgain(c)
    PROVE  TypeInv'
<1>1. UNCHANGED <<index, helm, lastRow, serviceVars, asks>> /\ rows' \subseteq rows /\ Finish(c)
    BY DEF DeleteHelmReleaseAgain
<1>2. TableInv' /\ ServiceInv' /\ TillerInv' /\ RowsMove
    BY <1>1, RowsGo, ServicesStay, TillerStays
<1>3. req[c].name \in Names
    BY DEF TypeInv, ProcInv, Shape, DeleteHelmReleaseAgain
<1>4. RestInv'
    BY <1>1, <1>3, RestStep, Disturbs DEF DeleteHelmReleaseAgain, QueryFails
<1>. QED  BY <1>1, <1>2, <1>4, FinishStep DEF TypeInv
LEMMA SyncAskTyped ==
    ASSUME TypeInv, NEW c \in Clients, NEW p \in Projects, SyncHelmReleaseWithK8s(c, p)
    PROVE  TypeInv'
<1> DEFINE q == [NullRequest EXCEPT !.op = "sync", !.project = p, !.user = Owner[p]]
<1>1. Owner[p] \in Users /\ ResolveUserPrivilegeByID(Owner[p], p)
    BY HelmAssumption DEF ResolveUserPrivilegeByID
<1>2. q \in Request
    BY <1>1, NullTypes DEF Request
<1>3. /\ q.op = "sync" /\ q.user = Owner[p] /\ q.project = p /\ q.name = None /\ q.seen = 0
      /\ q.row = NoRow /\ q.todo = {} /\ q.names = {}
    BY NullTypes DEF NullRequest
<1>4. Ask(c, "list", q, {})
    BY DEF SyncHelmReleaseWithK8s
<1> HIDE DEF q
<1>5. Shape("list", q)
    BY <1>1, <1>3 DEF Shape
<1>6. Fits(q)
    <2>1. \A r \in rows : 0 < r.id
        BY Bounds DEF TypeInv, TableInv, ReleaseModel
    <2>. QED  BY <1>3, <2>1, NullRowKnown, Bounds DEF Fits, TypeInv, TableInv
<1>. QED  BY <1>2, <1>4, <1>5, <1>6, AskTyped DEF PCs

LEMMA SyncTyped ==
    ASSUME TypeInv, NEW c \in Clients, SyncList(c) \/ SyncModels(c) \/ SyncNext(c)
    PROVE  TypeInv'
<1>1. Shape(pc[c], req[c]) /\ Fits(req[c]) /\ req[c] \in Request
    BY DEF TypeInv, ProcInv
<1>2. UNCHANGED <<index, helm, rows, lastRow, serviceVars, asks>>
    BY DEF SyncList, SyncModels, SyncNext, releaseVars
<1>3. TableInv' /\ ServiceInv' /\ TillerInv' /\ RowsMove
    BY <1>2, RowsStay, ServicesStay, TillerStays
<1>4. /\ req[c].op = "sync" /\ req[c].project \in Projects /\ req[c].names \subseteq Names
      /\ ResolveUserPrivilegeByID(req[c].user, req[c].project) /\ req[c].todo = {}
    BY <1>1 DEF Shape, Request, SyncList, SyncModels, SyncNext
<1>5. CASE Return(c) /\ UNCHANGED disturbed
    <2>1. RestInv'
        BY <1>2, <1>5, RestStep, Disturbs DEF SyncList, SyncModels, SyncNext, HostFails, HelmFails, QueryFails, Works
    <2>. QED  BY <1>3, <1>5, <2>1, ReturnStep DEF TypeInv
<1>6. CASE SyncList(c) /\ ~(Return(c) /\ UNCHANGED disturbed)
    <2> DEFINE names == ListDeployedReleasesByNamespace(req[c].project)
               q == [req[c] EXCEPT !.names = names]
    <2>1. names \in SUBSET Names
        BY DEF ListDeployedReleasesByNamespace, HelmReleases, TypeInv, TillerInv
    <2>2. Continue(c, "models", q) /\ Disturb(c, names) /\ Works /\ pc[c] = "list"
        BY <1>6 DEF SyncList
    <2>3. q \in Request /\ q.op = "sync" /\ q.name = None /\ q.seen = 0 /\ q.todo = {} /\ q.row = req[c].row
          /\ q.user = req[c].user /\ q.project = req[c].project /\ q.name \notin q.names
        BY <1>1, <1>4, <2>1, <2>2, HelmAssumption DEF Request, Shape
    <2> HIDE DEF q, names
    <2>4. Shape("models", q)
        BY <1>4, <2>3 DEF Shape
    <2>5. Fits(q)
        <3>1. \A r \in rows : 0 < r.id
            BY Bounds DEF TypeInv, TableInv, ReleaseModel
        <3>2. 0 <= lastRow
            BY Bounds DEF TypeInv, TableInv
        <3>. QED  BY <1>1, <2>3, <3>1, <3>2 DEF Fits
    <2>6. ProcInv'
        BY <1>2, <2>2, <2>3, <2>4, <2>5, ContinueStep DEF PCs
    <2>7. RestInv'
        BY <1>2, <2>1, <2>2, RestStep, Disturbs
    <2>. QED  BY <1>3, <2>6, <2>7 DEF TypeInv
<1>7. CASE SyncModels(c)
    <2>1. CASE QueryFails /\ Goto(c, "next") /\ disturbed' = disturbed \cup req[c].names
        <3>1. Shape("next", req[c])
            BY <1>1, <1>4 DEF Shape
        <3>2. disturbed' \subseteq Names
            BY <1>4, <2>1 DEF TypeInv, RestInv
        <3>3. RestInv'
            BY <1>2, <2>1, <3>2, RestStep DEF QueryFails
        <3>. QED  BY <1>3, <2>1, <3>1, <3>3, GotoStep DEF TypeInv, PCs
    <2>2. CASE /\ Continue(c, "next", [req[c] EXCEPT !.names = @ \ {r.name : r \in rows}, !.seen = lastRow])
               /\ Works /\ UNCHANGED disturbed
        <3> DEFINE q == [req[c] EXCEPT !.names = @ \ {r.name : r \in rows}, !.seen = lastRow]
        <3>1. q \in Request
            BY <1>1 DEF Request, TypeInv, TableInv
        <3>2. /\ q.op = "sync" /\ q.todo = {} /\ q.row = req[c].row /\ q.user = req[c].user
              /\ q.project = req[c].project /\ q.seen = lastRow /\ q.name = None
              /\ (\A r \in rows : r.name \notin q.names) /\ q.name \notin q.names
            BY <1>1, <1>4, <1>7, HelmAssumption DEF Request, Shape, SyncModels
        <3>3. Continue(c, "next", q)
            BY <2>2
        <3> HIDE DEF q
        <3>4. Shape("next", q)
            BY <1>4, <3>2 DEF Shape
        <3>5. Fits(q)
            <4>1. \A r \in rows : r.name # None
                BY HelmAssumption DEF TypeInv, TableInv, ReleaseModel
            <4>2. lastRow <= lastRow
                BY Bounds DEF TypeInv, TableInv
            <4>. QED  BY <1>1, <3>2, <4>1, <4>2 DEF Fits
        <3>6. ProcInv'
            BY <1>2, <3>1, <3>3, <3>4, <3>5, ContinueStep DEF PCs
        <3>7. RestInv'
            BY <1>2, <2>2, RestStep, Disturbs
        <3>. QED  BY <1>3, <3>6, <3>7 DEF TypeInv
    <2>. QED  BY <1>7, <2>1, <2>2 DEF SyncModels
<1>8. ASSUME NEW n \in req[c].names, pc[c] = "next",
             Continue(c, "row", [req[c] EXCEPT !.name = n, !.names = @ \ {n}, !.row = NoRow, !.left = {}, !.adds = {}])
      PROVE  ProcInv'
    <2> DEFINE q == [req[c] EXCEPT !.name = n, !.names = @ \ {n}, !.row = NoRow, !.left = {}, !.adds = {}]
    <2>1. q \in Request
        <3>1. n \in Names /\ req[c].names \ {n} \subseteq Names
            BY <1>4, <1>8
        <3>. QED  BY <1>1, <3>1 DEF Request
    <2>2. /\ q.op = "sync" /\ q.todo = {} /\ q.row = NoRow /\ q.user = req[c].user /\ q.adds = {}
          /\ q.project = req[c].project /\ q.seen = req[c].seen /\ q.name = n /\ q.names = req[c].names \ {n}
        BY <1>1, <1>4 DEF Request
    <2>3. Continue(c, "row", q)
        BY <1>8
    <2> HIDE DEF q
    <2>4. Shape("row", q)
        BY <1>4, <1>8, <2>2 DEF Shape
    <2>5. Fits(q)
        BY <1>1, <1>8, <2>2, NullRowKnown DEF Fits
    <2>. QED  BY <1>2, <2>1, <2>3, <2>4, <2>5, ContinueStep DEF PCs
<1>9. CASE SyncNext(c)
    <2>1. RestInv'
        BY <1>2, <1>9, RestStep, Disturbs DEF SyncNext, Works
    <2>2. ProcInv'
        BY <1>3, <1>8, <1>9, ReturnStep DEF SyncNext
    <2>. QED  BY <1>3, <2>1, <2>2 DEF TypeInv
<1>. QED  BY <1>5, <1>6, <1>7, <1>9
LEMMA DeleteAskTyped ==
    ASSUME TypeInv, NEW c \in Clients, NEW u \in Users,
           (\E r \in rows : DeleteHelmReleaseAction(c, u, r))
               \/ \E p \in Projects : DeleteHelmReleaseByProjectAction(c, u, p)
    PROVE  TypeInv'
<1>1. ASSUME NEW models \in SUBSET rows, NEW names \in SUBSET Names,
             Ask(c, "next", [NullRequest EXCEPT !.op = "delete", !.user = u, !.todo = models], names)
      PROVE  TypeInv'
    <2> DEFINE q == [NullRequest EXCEPT !.op = "delete", !.user = u, !.todo = models]
    <2>1. q \in Request
        BY NullTypes DEF Request, TypeInv, TableInv
    <2>2. /\ q.op = "delete" /\ q.user = u /\ q.name = None /\ q.seen = 0
          /\ q.row = NoRow /\ q.todo = models /\ q.names = {}
        BY NullTypes DEF NullRequest
    <2>4. Ask(c, "next", q, names)
        BY <1>1
    <2> HIDE DEF q
    <2>5. Shape("next", q)
        BY <2>2 DEF Shape
    <2>6. Fits(q)
        <3>1. \A r \in rows : 0 < r.id /\ RowKnown(r)
            BY Bounds DEF TypeInv, TableInv, ReleaseModel
        <3>2. 0 <= lastRow
            BY Bounds DEF TypeInv, TableInv
        <3>. QED  BY <2>2, <3>1, <3>2, NullRowKnown DEF Fits
    <2>. QED  BY <2>1, <2>4, <2>5, <2>6, AskTyped DEF PCs
<1>2. ASSUME NEW r \in rows, DeleteHelmReleaseAction(c, u, r) PROVE TypeInv'
    <2>1. {r} \in SUBSET rows /\ {r.name} \in SUBSET Names
        BY DEF TypeInv, TableInv, ReleaseModel
    <2>. QED  BY <1>1, <1>2, <2>1 DEF DeleteHelmReleaseAction
<1>3. ASSUME NEW p \in Projects, DeleteHelmReleaseByProjectAction(c, u, p) PROVE TypeInv'
    <2> DEFINE models == IF u = Admin THEN GetAllHelmReleasesByProjectName(p)
                         ELSE GetHelmReleasesByUserIDAndProjectName(u, p)
    <2>1. models \in SUBSET rows
        BY DEF GetAllHelmReleasesByProjectName, GetHelmReleasesByUserIDAndProjectName
    <2>2. {r.name : r \in models} \in SUBSET Names
        BY <2>1 DEF TypeInv, TableInv, ReleaseModel
    <2>. QED  BY <1>1, <1>3, <2>1, <2>2 DEF DeleteHelmReleaseByProjectAction
<1>. QED  BY <1>2, <1>3

LEMMA DeleteTyped ==
    ASSUME TypeInv, NEW c \in Clients,
           DeleteNext(c) \/ DeleteRelease(c) \/ DeleteHelmRelease(c) \/ DeleteServiceByNames(c)
    PROVE  TypeInv'
<1>1. Shape(pc[c], req[c]) /\ Fits(req[c]) /\ req[c] \in Request
    BY DEF TypeInv, ProcInv
<1>2. req[c].op = "delete"
    BY <1>1 DEF Shape, DeleteNext, DeleteRelease, DeleteHelmRelease, DeleteServiceByNames
<1>3. UNCHANGED <<index, lastRow, lastService, asks>> /\ rows' \subseteq rows /\ services' \subseteq services
    BY DEF DeleteNext, DeleteRelease, DeleteHelmRelease, DeleteServiceByNames, releaseVars, serviceVars
<1>4. TableInv' /\ RowsMove
    BY <1>3, RowsGo
<1>5. ServiceInv'
    BY <1>3 DEF TypeInv, ServiceInv
<1>6. req[c].name \in Names \/ DeleteNext(c)
    BY <1>1 DEF Shape, DeleteRelease, DeleteHelmRelease, DeleteServiceByNames, ReleaseModel
<1>7. TillerInv'
    BY <1>6, TillerStays, TillerSteps
       DEF DeleteNext, DeleteRelease, DeleteHelmRelease, DeleteServiceByNames, releaseVars
<1>8. RestInv'
    <2>1. CASE DeleteNext(c)
        BY <1>3, <2>1, RestStep, Disturbs DEF DeleteNext, Works
    <2>2. CASE req[c].name \in Names /\ ~DeleteNext(c)
        BY <1>3, <2>2, RestStep, Disturbs
           DEF DeleteRelease, DeleteHelmRelease, DeleteServiceByNames, HostFails, HelmFails, QueryFails
    <2>. QED  BY <1>6, <2>1, <2>2
<1>9. CASE Return(c)
    BY <1>4, <1>5, <1>7, <1>8, <1>9, ReturnStep DEF TypeInv
<1>10. ASSUME NEW p \in {"deleteRow", "deleteServices", "next"}, Goto(c, p),
              pc[c] \in {"delete", "deleteRow", "deleteServices"}
       PROVE  ProcInv'
    <2>1. Shape(p, req[c])
        BY <1>1, <1>2, <1>10 DEF Shape
    <2>. QED  BY <1>4, <1>10, <2>1, GotoStep DEF PCs
<1>11. ASSUME NEW r \in req[c].todo, DeleteNext(c),
              Continue(c, "delete", [req[c] EXCEPT !.row = r, !.name = r.name, !.project = r.project,
                                                   !.todo = @ \ {r}])
       PROVE  ProcInv'
    <2> DEFINE q == [req[c] EXCEPT !.row = r, !.name = r.name, !.project = r.project, !.todo = @ \ {r}]
    <2>1. r \in ReleaseModel /\ RowKnown(r)
        BY <1>1 DEF Request, Fits
    <2>2. q \in Request
        BY <1>1, <2>1 DEF Request, ReleaseModel
    <2>3. /\ q.op = "delete" /\ q.seen = 0 /\ q.names = {} /\ q.row = r /\ q.name = r.name /\ q.project = r.project
          /\ q.todo \subseteq req[c].todo
        BY <1>1, <1>2 DEF Request, Shape
    <2>4. Continue(c, "delete", q)
        BY <1>11
    <2> HIDE DEF q
    <2>5. Shape("delete", q)
        BY <2>1, <2>3 DEF Shape
    <2>6. Fits(q)
        <3>1. \A s \in rows : 0 < s.id
            BY Bounds DEF TypeInv, TableInv, ReleaseModel
        <3>2. 0 <= lastRow
            BY Bounds DEF TypeInv, TableInv
        <3>. QED  BY <1>1, <2>1, <2>3, <3>1, <3>2 DEF Fits
    <2>7. UNCHANGED <<rows, lastRow>>
        BY <1>11 DEF DeleteNext, releaseVars
    <2>. QED  BY <2>2, <2>4, <2>5, <2>6, <2>7, ContinueStep DEF PCs
<1>12. ProcInv' \/ Return(c)
    BY <1>10, <1>11 DEF DeleteNext, DeleteRelease, DeleteHelmRelease, DeleteServiceByNames
<1>. QED  BY <1>4, <1>5, <1>7, <1>8, <1>9, <1>12 DEF TypeInv

\* Steps in which no request goes on.
LEMMA IdleTyped ==
    ASSUME TypeInv, IdleStep PROVE TypeInv'
<1>1. UNCHANGED <<helm, rows, lastRow, pc, req, faults, disturbed>> /\ asks < MaxAsks /\ asks' = asks + 1
    BY DEF IdleStep, UploadHelmChartAction, DeleteHelmChartAction, DeployService, DeleteService, releaseVars, procVars
<1>2. TableInv' /\ TillerInv' /\ RowsMove
    BY <1>1, RowsStay, TillerStays
<1>3. ProcInv'
    <2>1. ASSUME NEW c \in Clients PROVE Shape(pc[c], req[c])' /\ Fits(req[c])'
        <3>1. PICK q \in Request : q = req[c]
            BY DEF TypeInv, ProcInv
        <3>2. Fits(q)'
            BY <1>2, <3>1, FitsStays DEF TypeInv, ProcInv
        <3>. QED  BY <1>1, <3>1, <3>2 DEF TypeInv, ProcInv
    <2>. QED  BY <1>1, <2>1 DEF TypeInv, ProcInv
<1>4. index' \in [Repositories -> SUBSET Charts]
    BY DEF IdleStep, UploadHelmChartAction, DeleteHelmChartAction, DeployService, DeleteService, UploadChart,
           DeleteChart, TypeInv, RestInv
<1>5. RestInv'
    BY <1>1, <1>4, AskStep DEF TypeInv, RestInv
<1>6. ServiceInv'
    <2>1. CASE UNCHANGED serviceVars
        BY <2>1, ServicesStay
    <2>2. ASSUME NEW s \in services, DeleteService(s) PROVE ServiceInv'
        BY <2>2 DEF DeleteService, TypeInv, ServiceInv
    <2>3. ASSUME NEW p \in Projects, NEW name \in Services, DeployService(p, name) PROVE ServiceInv'
        <3> DEFINE new == [id |-> lastService + 1, project |-> p, name |-> name, source |-> "board", of |-> None]
        <3>1. lastService \in Nat /\ lastService + 1 \in 1..MaxIds /\ lastService' = lastService + 1
            BY <2>3, Bounds DEF TypeInv, ServiceInv, DeployService
        <3>2. new \in ServiceStatus /\ new.id = lastService + 1 /\ new.source # "helm"
            BY <3>1 DEF ServiceStatus
        <3>3. services' = services \cup {new}
            BY <2>3, <3>1 DEF DeployService
        <3> HIDE DEF new
        <3>4. \A s \in services : s.id \in Nat /\ s.id <= lastService
            BY Bounds DEF TypeInv, ServiceInv, ServiceStatus
        <3>5. \A r, s \in services' : r.id = s.id => r = s
            BY <3>1, <3>2, <3>3, <3>4 DEF TypeInv, ServiceInv
        <3>6. \A s \in services' : s.id <= lastService' /\ (s.source = "helm" => s.of \in Names)
            BY <3>1, <3>2, <3>3, <3>4 DEF TypeInv, ServiceInv
        <3>. QED  BY <3>1, <3>2, <3>3, <3>5, <3>6 DEF TypeInv, ServiceInv
    <2>. QED  BY <2>1, <2>2, <2>3 DEF IdleStep, UploadHelmChartAction, DeleteHelmChartAction
<1>. QED  BY <1>2, <1>3, <1>5, <1>6 DEF TypeInv
-----------------------------------------------------------------------------
LEMMA TypeInvInit == Init => TypeInv
<1> SUFFICES ASSUME Init PROVE TypeInv
    OBVIOUS
<1>1. TableInv
    BY Bounds DEF Init, TableInv
<1>2. ServiceInv
    <2>1. CASE services = {} /\ lastService = 0
        BY <2>1, Bounds DEF ServiceInv
    <2>2. ASSUME NEW p \in Projects, NEW s \in Services, lastService = 1,
                 services = {[id |-> 1, project |-> p, name |-> s, source |-> "board", of |-> None]}
          PROVE  ServiceInv
        BY <2>2, Bounds DEF ServiceInv, ServiceStatus
    <2>. QED  BY <2>1, <2>2 DEF Init
<1>3. TillerInv
    <2>1. CASE helm = <<>>
        BY <2>1 DEF TillerInv
    <2>2. ASSUME NEW n \in Names, NEW p \in Projects, NEW infos \in Manifest,
                 helm = [m \in {n} |-> [ns |-> p, infos |-> infos, deployed |-> TRUE, foreign |-> TRUE]]
          PROVE  TillerInv
        BY <2>2 DEF TillerInv, HelmRelease
    <2>. QED  BY <2>1, <2>2 DEF Init
<1>4. ProcInv
    <2>1. pc \in [Clients -> PCs] /\ req \in [Clients -> Request]
        BY NullTypes DEF Init, PCs
    <2>2. Shape("idle", NullRequest)
        BY NullTypes DEF Shape
    <2>3. Fits(NullRequest)
        <3>1. NoRow.id = 0
            BY DEF NoRow
        <3>. QED  BY <3>1, NullTypes, Bounds DEF Fits, RowKnown, Init
    <2>. QED  BY <2>1, <2>2, <2>3 DEF Init, ProcInv
<1>5. RestInv
    BY Bounds DEF Init, RestInv
<1>. QED  BY <1>1, <1>2, <1>3, <1>4, <1>5 DEF TypeInv

LEMMA TypeInvStutter == TypeInv /\ UNCHANGED vars => TypeInv'
BY DEF vars, releaseVars, serviceVars, procVars, TypeInv, TableInv, ServiceInv, TillerInv, ProcInv, RestInv,
       RowKnown, Fits

LEMMA TypeInvStep == TypeInv /\ [Next]_vars => TypeInv'
<1>1. ASSUME TypeInv, NEW c \in Clients, ClientStep(c) PROVE TypeInv'
    BY <1>1, InstallTyped, FetchTyped, TillerTyped, RowTyped, ServiceTyped, UnrowTyped,
       SyncAskTyped, SyncTyped, DeleteAskTyped, DeleteTyped DEF ClientStep
<1>. QED  BY <1>1, IdleTyped, TypeInvStutter, NextSteps

LEMMA HelmTyped == Spec => []TypeInv
BY TypeInvInit, TypeInvStep, PTL DEF Spec

\* The state always has its type: rows have distinct numbers no greater than the last one, and so
\* have the services.  (The tables' keys, and insertReleaseIntoDatabase.)
THEOREM HelmTypeCorrect == Spec => []TypeOK
BY HelmTyped, TypeInvTyped, PTL
-----------------------------------------------------------------------------
(* Two rows of one name. *)

LEMMA RowsUnique == TypeInv /\ ReleasesAreUnique /\ [Next]_vars => ReleasesAreUnique'
<1> SUFFICES ASSUME TypeInv, ReleasesAreUnique, [Next]_vars PROVE ReleasesAreUnique'
    OBVIOUS
<1>1. CASE rows' \subseteq rows
    BY <1>1 DEF ReleasesAreUnique
<1>2. ASSUME NEW c \in Clients, insertReleaseIntoDatabase(c) PROVE ReleasesAreUnique'
    <2>1. Fits(req[c])
        BY DEF TypeInv, ProcInv
    <2>2. CASE UNCHANGED rows
        BY <2>2 DEF ReleasesAreUnique
    <2>3. ASSUME NEW row, rows' = rows \cup {row}, row.id = lastRow + 1, row.name = req[c].name, row.seen = req[c].seen
          PROVE  ReleasesAreUnique'
        <3>1. lastRow \in Nat /\ \A r \in rows : r.id \in Nat /\ r.id <= lastRow
            BY Bounds DEF TypeInv, TableInv, ReleaseModel, RowKnown
        <3>2. \A r \in rows : r.name = row.name => row.seen < r.id
            BY <2>1, <2>3 DEF Fits
        <3>. QED  BY <2>3, <3>1, <3>2 DEF ReleasesAreUnique
    <2>. QED  BY <1>2, <2>2, <2>3 DEF insertReleaseIntoDatabase
<1>3. CASE ~\E c \in Clients : insertReleaseIntoDatabase(c)
    <2>1. CASE UNCHANGED vars
        BY <1>1, <2>1 DEF vars, releaseVars
    <2>2. CASE Next
        <3>1. rows' \subseteq rows
            <4>1. ASSUME NEW c \in Clients,
                         \/ \E u \in Users, p \in Projects, n \in Names, chart \in Chart :
                               InstallHelmChartAction(c, u, p, n, chart)
                         \/ CheckReleaseNames(c) \/ DownloadChart(c) \/ InstallChart(c) \/ PurgeFailed(c)
                         \/ DeleteReleaseAgain(c) \/ PrepareService(c) \/ AddService(c)
                  PROVE  UNCHANGED rows
                BY <4>1 DEF InstallHelmChartAction, Ask, CheckReleaseNames, DownloadChart, InstallChart,
                    PurgeFailed, DeleteReleaseAgain, PrepareService, AddService, releaseVars
            <4>2. ASSUME NEW c \in Clients,
                         \/ \E p \in Projects : SyncHelmReleaseWithK8s(c, p)
                         \/ SyncList(c) \/ SyncModels(c) \/ SyncNext(c)
                         \/ \E u \in Users, r \in rows : DeleteHelmReleaseAction(c, u, r)
                         \/ \E u \in Users, p \in Projects : DeleteHelmReleaseByProjectAction(c, u, p)
                  PROVE  UNCHANGED rows
                BY <4>2 DEF SyncHelmReleaseWithK8s, Ask, SyncList, SyncModels, SyncNext,
                    DeleteHelmReleaseAction, DeleteHelmReleaseByProjectAction, releaseVars
            <4>3. ASSUME NEW c \in Clients,
                         \/ DeleteNext(c) \/ DeleteRelease(c) \/ DeleteHelmRelease(c)
                         \/ DeleteServiceByNames(c) \/ DeleteHelmReleaseAgain(c)
                  PROVE  rows' \subseteq rows
                BY <4>3 DEF DeleteNext, DeleteRelease, DeleteHelmRelease, DeleteServiceByNames,
                    DeleteHelmReleaseAgain, releaseVars
            <4>4. CASE \E u \in Users, r \in Repositories, ch \in Charts :
                         UploadHelmChartAction(u, r, ch) \/ DeleteHelmChartAction(u, r, ch)
                BY <4>4 DEF UploadHelmChartAction, DeleteHelmChartAction, releaseVars
            <4>5. CASE \/ \E p \in Projects, s \in Services : DeployService(p, s)
                       \/ \E s \in services : DeleteService(s)
                BY <4>5 DEF DeployService, DeleteService, releaseVars
            <4>. QED  BY <1>3, <2>2, <4>1, <4>2, <4>3, <4>4, <4>5 DEF Next
        <3>. QED  BY <1>1, <3>1
    <2>. QED  BY <2>1, <2>2
<1>. QED  BY <1>2, <1>3

\* Two rows have one name only when the request of the later had looked before the other was there.
\* (CheckReleaseNames, SyncHelmReleaseWithK8s: nothing in the table keeps a name from being there twice.)
THEOREM ReleasesUnique == Spec => []ReleasesAreUnique
<1>1. Init => ReleasesAreUnique
    BY DEF Init, ReleasesAreUnique
<1>. QED  BY <1>1, HelmTyped, RowsUnique, PTL DEF Spec
-----------------------------------------------------------------------------
(* The rows and helm agree. *)

Models(n) == GetHelmReleaseByName(n)

\* The server has no row of the name, and helm none of its releases.
Unrecorded(n) == Models(n) = {} /\ (n \in DOMAIN helm => helm[n].foreign)

DeployedTo(n, p) == n \in DOMAIN helm /\ helm[n].deployed /\ helm[n].ns = p

\* The row is the only one of the name and says what helm has.
RecordedAs(n, r) ==
    /\ Models(n) = {r} /\ DeployedTo(n, r.project) /\ r.infos = helm[n].infos
    /\ ResolveUserPrivilegeByID(r.owner, r.project)

Agreed(n) == Unrecorded(n) \/ \E r \in Models(n) : RecordedAs(n, r)

\* The releases a request at step p with variables q is busy with.
Touches(p, q, n) == p # "idle" /\ (n = q.name \/ n \in q.names \/ \E r \in q.todo : r.name = n)

\* What there is of the release an installation is busy with, ...
Installing(p, q, n) ==
    q.op = "install" =>
        /\ p = "check" => Unrecorded(n)
        /\ p \in {"fetch", "install"} => Models(n) = {} /\ n \notin DOMAIN helm
        /\ p \in {"purge", "undo"} => Models(n) = {}
        /\ p = "row" => Models(n) = {} /\ DeployedTo(n, q.project)

\* ... of those a synchronisation has yet to insert, and the one it is at, ...
Synchronising(p, q, n) ==
    q.op = "sync" =>
        /\ p = "models" => Agreed(n) /\ DeployedTo(n, q.project)
        /\ p \notin {"list", "models"} /\ n \in q.names => Unrecorded(n) /\ DeployedTo(n, q.project)
        /\ p = "row" => Unrecorded(n) /\ DeployedTo(n, q.project)
        /\ p = "next" => Agreed(n)

\* ... and of those a deletion has yet to delete, and the one it is at.
Deleting(p, q, n) ==
    q.op = "delete" =>
        /\ \A r \in q.todo : r.name = n => RecordedAs(n, r) /\ n # q.name
        /\ n = q.name =>
            /\ p = "next" => Agreed(n)
            /\ p = "delete" => RecordedAs(n, q.row)
            /\ p = "deleteRow" => Models(n) = {q.row} /\ n \notin DOMAIN helm
            /\ p = "deleteServices" => Models(n) = {} /\ n \notin DOMAIN helm

Phase(p, q, n) ==
    /\ Installing(p, q, n) /\ Synchronising(p, q, n) /\ Deleting(p, q, n)
    /\ p \in {"prepare", "services"} /\ n = q.name => RecordedAs(n, q.row)

Good(c, n) == IF Concerns(c, n) THEN Phase(pc[c], req[c], n) ELSE Agreed(n)

\* One request at most is busy with a release that is not disturbed, and nothing but that request's
\* step keeps the row and helm apart.
RecordInv ==
    \A n \in Names \ disturbed :
        /\ \A c, d \in Clients : Concerns(c, n) /\ Concerns(d, n) => c = d
        /\ (\A c \in Clients : ~Concerns(c, n)) => Agreed(n)
        /\ \A c \in Clients : Concerns(c, n) => Phase(pc[c], req[c], n)

Covers(r, s) == r.project = s.project /\ \E w \in matchedServiceAndWorkload(r.infos) : w.name = s.name

\* A service of a release is in the manifest of a row, or of the row whose services are about to go.
CoveredInv ==
    \A s \in services : s.source = "helm" /\ s.of \notin disturbed =>
        \/ \E r \in rows : r.name = s.of /\ Covers(r, s)
        \/ \E c \in Clients : pc[c] = "deleteServices" /\ req[c].name = s.of /\ Covers(req[c].row, s)
\* A step that leaves the release alone.
Same(n) ==
    /\ Models(n)' = Models(n) /\ (n \in DOMAIN helm' <=> n \in DOMAIN helm)
    /\ n \in DOMAIN helm => helm'[n] = helm[n]

LEMMA SameKept ==
    ASSUME NEW n \in Names, Same(n)
    PROVE  /\ Unrecorded(n)' <=> Unrecorded(n)
           /\ \A p : DeployedTo(n, p)' <=> DeployedTo(n, p)
           /\ \A r : RecordedAs(n, r)' <=> RecordedAs(n, r)
           /\ Agreed(n)' <=> Agreed(n)
<1>1. Unrecorded(n)' <=> Unrecorded(n)
    BY DEF Same, Unrecorded
<1>2. \A p : DeployedTo(n, p)' <=> DeployedTo(n, p)
    BY DEF Same, DeployedTo
<1>3. \A r : RecordedAs(n, r)' <=> RecordedAs(n, r)
    BY <1>2 DEF Same, RecordedAs, DeployedTo
<1>4. Agreed(n)' <=> Agreed(n)
    BY <1>1, <1>3 DEF Same, Agreed
<1>. QED  BY <1>1, <1>2, <1>3, <1>4

LEMMA PhaseKept ==
    ASSUME NEW n \in Names, NEW p, NEW q, Same(n), Phase(p, q, n)
    PROVE  Phase(p, q, n)'
<1>1. Models(n)' = Models(n) /\ (n \in DOMAIN helm' <=> n \in DOMAIN helm)
    BY DEF Same
<1>2. Installing(p, q, n)'
    BY <1>1, SameKept DEF Phase, Installing
<1>3. Synchronising(p, q, n)'
    BY <1>1, SameKept DEF Phase, Synchronising
<1>4. Deleting(p, q, n)'
    BY <1>1, SameKept DEF Phase, Deleting
<1>. QED  BY <1>2, <1>3, <1>4, SameKept DEF Phase

LEMMA TouchesConcerns ==
    ASSUME NEW c \in Clients, NEW n PROVE Concerns(c, n) <=> Touches(pc[c], req[c], n)
BY DEF Concerns, Touches

\* No other request is busy with the release.
Alone(c, n) == \A d \in Clients \ {c} : ~Concerns(d, n)

\* What a step of one request has to show.
StepGood(c, p, q, n) ==
    /\ ~Concerns(c, n) => Same(n)
    /\ Touches(p, q, n) /\ ~Concerns(c, n) => Alone(c, n)
    /\ Good(c, n) /\ (Concerns(c, n) \/ Touches(p, q, n)) =>
          IF Touches(p, q, n) THEN Phase(p, q, n)' ELSE Agreed(n)'

LEMMA RecordStep ==
    ASSUME TypeInv, RecordInv, NEW c \in Clients, NEW p \in PCs, NEW q \in Request, Continue(c, p, q),
           disturbed \subseteq disturbed', \A n \in Names \ disturbed' : StepGood(c, p, q, n)
    PROVE  RecordInv'
<1> SUFFICES ASSUME NEW n \in Names \ disturbed'
             PROVE  /\ \A d, e \in Clients : Concerns(d, n)' /\ Concerns(e, n)' => d = e
                    /\ (\A d \in Clients : ~Concerns(d, n)') => Agreed(n)'
                    /\ \A d \in Clients : Concerns(d, n)' => Phase(pc[d], req[d], n)'
    BY DEF RecordInv
<1>1. n \in Names \ disturbed /\ StepGood(c, p, q, n)
    OBVIOUS
<1>2. /\ \A d, e \in Clients : Concerns(d, n) /\ Concerns(e, n) => d = e
      /\ (\A d \in Clients : ~Concerns(d, n)) => Agreed(n)
      /\ \A d \in Clients : Concerns(d, n) => Phase(pc[d], req[d], n)
    BY <1>1 DEF RecordInv
<1>3. /\ pc'[c] = p /\ req'[c] = q
      /\ \A d \in Clients \ {c} : pc'[d] = pc[d] /\ req'[d] = req[d]
    BY DEF Continue, TypeInv, ProcInv
<1>4. Concerns(c, n)' <=> Touches(p, q, n)
    BY <1>3 DEF Concerns, Touches
<1>5. \A d \in Clients \ {c} : Concerns(d, n)' <=> Concerns(d, n)
    BY <1>3 DEF Concerns
<1>6. ASSUME Concerns(c, n) \/ Touches(p, q, n)
      PROVE  /\ Alone(c, n)
             /\ IF Touches(p, q, n) THEN Phase(p, q, n)' ELSE Agreed(n)'
    <2>1. Alone(c, n)
        BY <1>1, <1>2, <1>6 DEF Alone, StepGood
    <2>2. Good(c, n)
        BY <1>2, <2>1 DEF Alone, Good
    <2>. QED  BY <1>1, <1>6, <2>1, <2>2 DEF StepGood
<1>7. CASE Concerns(c, n) \/ Touches(p, q, n)
    BY <1>3, <1>4, <1>5, <1>6, <1>7 DEF Alone
<1>8. CASE ~Concerns(c, n) /\ ~Touches(p, q, n)
    <2>1. Same(n)
        BY <1>1, <1>8 DEF StepGood
    <2>2. \A d \in Clients : Concerns(d, n)' <=> Concerns(d, n)
        BY <1>4, <1>5, <1>8
    <2>3. ASSUME NEW d \in Clients, Concerns(d, n)' PROVE Phase(pc[d], req[d], n)'
        <3>1. d # c /\ Concerns(d, n) /\ Phase(pc[d], req[d], n)
            BY <1>2, <1>8, <2>2, <2>3
        <3>2. PICK o, r : o = pc[d] /\ r = req[d]
            OBVIOUS
        <3>3. Phase(o, r, n)'
            BY <2>1, <3>1, <3>2, PhaseKept
        <3>. QED  BY <1>3, <3>1, <3>2, <3>3
    <2>. QED  BY <1>2, <2>1, <2>2, <2>3, SameKept
<1>. QED  BY <1>7, <1>8
\* A step of a request that leaves the rows and helm alone.
KeptGood(c, p, q, n) ==
    /\ Touches(p, q, n) /\ ~Concerns(c, n) => Alone(c, n)
    /\ Good(c, n) /\ (Concerns(c, n) \/ Touches(p, q, n)) =>
          IF Touches(p, q, n) THEN Phase(p, q, n) ELSE Agreed(n)

LEMMA KeptStep ==
    ASSUME TypeInv, RecordInv, NEW c \in Clients, NEW p \in PCs, NEW q \in Request, Continue(c, p, q),
           disturbed \subseteq disturbed', UNCHANGED <<rows, helm>>,
           \A n \in Names \ disturbed' : KeptGood(c, p, q, n)
    PROVE  RecordInv'
<1>1. ASSUME NEW n \in Names \ disturbed' PROVE StepGood(c, p, q, n)
    <2>1. Same(n)
        BY DEF Same, Models, GetHelmReleaseByName
    <2>2. KeptGood(c, p, q, n)
        OBVIOUS
    <2>. QED  BY <2>1, <2>2, PhaseKept, SameKept DEF StepGood, KeptGood
<1>. QED  BY <1>1, RecordStep

LEMMA ReturnKept ==
    ASSUME TypeInv, RecordInv, NEW c \in Clients, Return(c),
           disturbed \subseteq disturbed', UNCHANGED <<rows, helm>>,
           \A n \in Names \ disturbed' : Concerns(c, n) /\ Phase(pc[c], req[c], n) => Agreed(n)
    PROVE  RecordInv'
<1>1. ASSUME NEW n \in Names \ disturbed' PROVE KeptGood(c, "idle", NullRequest, n)
    BY DEF KeptGood, Touches, Good
<1>. QED  BY <1>1, KeptStep, NullTypes DEF Return, PCs

LEMMA GotoKept ==
    ASSUME TypeInv, RecordInv, NEW c \in Clients, NEW p \in PCs, p # "idle", Goto(c, p), pc[c] # "idle",
           disturbed \subseteq disturbed', UNCHANGED <<rows, helm>>,
           \A n \in Names \ disturbed' :
              Touches(p, req[c], n) /\ Phase(pc[c], req[c], n) => Phase(p, req[c], n)
    PROVE  RecordInv'
<1>1. PICK q \in Request : q = req[c]
    BY DEF TypeInv, ProcInv
<1>2. Continue(c, p, q)
    BY <1>1, GotoContinues DEF TypeInv
<1>3. ASSUME NEW n \in Names \ disturbed' PROVE KeptGood(c, p, q, n)
    BY <1>1, TouchesConcerns DEF KeptGood, Touches, Good
<1>. QED  BY <1>1, <1>2, <1>3, KeptStep

\* A request that turns to releases no other request is busy with.
LEMMA AskRecord ==
    ASSUME TypeInv, RecordInv, NEW c \in Clients, NEW p \in PCs, NEW q \in Request, NEW names \in SUBSET Names,
           Ask(c, p, q, names),
           \A n \in Names : Touches(p, q, n) => n \in names /\ (Agreed(n) => Phase(p, q, n))
    PROVE  RecordInv'
<1>1. ASSUME NEW n \in Names \ disturbed' PROVE KeptGood(c, p, q, n)
    <2>1. ~Concerns(c, n)
        BY DEF Ask, Concerns
    <2>2. n \in names => Alone(c, n)
        BY <1>1 DEF Ask, Disturb, Alone
    <2>. QED  BY <2>1, <2>2 DEF KeptGood, Good
<1>. QED  BY <1>1, KeptStep DEF Ask, Disturb, releaseVars

LEMMA InstallRecord ==
    ASSUME TypeInv, RecordInv, NEW c \in Clients, NEW u \in Users, NEW p \in Projects, NEW n \in Names,
           NEW chart \in Chart, InstallHelmChartAction(c, u, p, n, chart)
    PROVE  RecordInv'
<1> DEFINE q == [NullRequest EXCEPT !.op = "install", !.user = u, !.project = p, !.name = n,
                                    !.chart = chart, !.seen = lastRow]
<1>0. lastRow \in 0..MaxIds
    BY DEF TypeInv, TableInv
<1>1. q \in Request
    BY <1>0, InstallRequest
<1>2. q.op = "install" /\ q.name = n /\ q.names = {} /\ q.todo = {}
    BY NullTypes DEF NullRequest
<1>3. Ask(c, "check", q, {n}) /\ GetHelmReleaseByName(n) = {}
    BY DEF InstallHelmChartAction
<1> HIDE DEF q
<1>4. ASSUME NEW m \in Names, Touches("check", q, m) PROVE m = n /\ (Agreed(m) => Phase("check", q, m))
    <2>1. m = n
        BY <1>2, <1>4 DEF Touches
    <2>. QED  BY <1>2, <1>3, <2>1
              DEF Agreed, Models, Phase, Installing, Synchronising, Deleting
<1>. QED  BY <1>1, <1>3, <1>4, AskRecord DEF PCs

LEMMA SyncAskRecord ==
    ASSUME TypeInv, RecordInv, NEW c \in Clients, NEW p \in Projects, SyncHelmReleaseWithK8s(c, p)
    PROVE  RecordInv'
<1> DEFINE q == [NullRequest EXCEPT !.op = "sync", !.project = p, !.user = Owner[p]]
<1>1. Owner[p] \in Users
    BY HelmAssumption
<1>2. q \in Request /\ q.name = None /\ q.names = {} /\ q.todo = {}
    BY <1>1, NullTypes DEF Request, NullRequest
<1>3. Ask(c, "list", q, {})
    BY DEF SyncHelmReleaseWithK8s
<1> HIDE DEF q
<1>4. \A n \in Names : ~Touches("list", q, n)
    BY <1>2, HelmAssumption DEF Touches
<1>. QED  BY <1>2, <1>3, <1>4, AskRecord DEF PCs

\* Where the server and helm agree, a row is what helm has.
LEMMA AgreedRecorded ==
    ASSUME NEW n \in Names, Agreed(n), NEW r \in rows, r.name = n PROVE RecordedAs(n, r)
BY DEF Agreed, Unrecorded, Models, GetHelmReleaseByName, RecordedAs

LEMMA DeleteAskRecord ==
    ASSUME TypeInv, RecordInv, NEW c \in Clients, NEW u \in Users,
           (\E r \in rows : DeleteHelmReleaseAction(c, u, r))
               \/ \E p \in Projects : DeleteHelmReleaseByProjectAction(c, u, p)
    PROVE  RecordInv'
<1>1. ASSUME NEW models \in SUBSET rows, NEW names \in SUBSET Names, \A r \in models : r.name \in names,
             Ask(c, "next", [NullRequest EXCEPT !.op = "delete", !.user = u, !.todo = models], names)
      PROVE  RecordInv'
    <2> DEFINE q == [NullRequest EXCEPT !.op = "delete", !.user = u, !.todo = models]
    <2>1. q \in Request
        BY NullTypes DEF Request, TypeInv, TableInv
    <2>2. q.op = "delete" /\ q.name = None /\ q.todo = models /\ q.names = {}
        BY NullTypes DEF NullRequest
    <2>3. Ask(c, "next", q, names)
        BY <1>1
    <2> HIDE DEF q
    <2>4. ASSUME NEW n \in Names, Touches("next", q, n)
          PROVE  n \in names /\ (Agreed(n) => Phase("next", q, n))
        <3>1. n # None
            BY HelmAssumption
        <3>2. n \in names
            BY <1>1, <2>2, <2>4, <3>1 DEF Touches
        <3>3. Agreed(n) => Deleting("next", q, n)
            BY <2>2, <3>1, AgreedRecorded DEF Deleting
        <3>. QED  BY <2>2, <3>2, <3>3 DEF Phase, Installing, Synchronising
    <2>. QED  BY <2>1, <2>3, <2>4, AskRecord DEF PCs
<1>2. ASSUME NEW r \in rows, DeleteHelmReleaseAction(c, u, r) PROVE RecordInv'
    <2>1. {r} \in SUBSET rows /\ {r.name} \in SUBSET Names /\ \A s \in {r} : s.name \in {r.name}
        BY DEF TypeInv, TableInv, ReleaseModel
    <2>. QED  BY <1>1, <1>2, <2>1 DEF DeleteHelmReleaseAction
<1>3. ASSUME NEW p \in Projects, DeleteHelmReleaseByProjectAction(c, u, p) PROVE RecordInv'
    <2> DEFINE models == IF u = Admin THEN GetAllHelmReleasesByProjectName(p)
                         ELSE GetHelmReleasesByUserIDAndProjectName(u, p)
    <2>1. models \in SUBSET rows
        BY DEF GetAllHelmReleasesByProjectName, GetHelmReleasesByUserIDAndProjectName
    <2>2. {r.name : r \in models} \in SUBSET Names
        BY <2>1 DEF TypeInv, TableInv, ReleaseModel
    <2>3. \A r \in models : r.name \in {s.name : s \in models}
        OBVIOUS
    <2>. QED  BY <1>1, <1>3, <2>1, <2>2, <2>3 DEF DeleteHelmReleaseByProjectAction
<1>. QED  BY <1>2, <1>3
\* An installation is busy with its one release.
LEMMA InstallTouches ==
    ASSUME NEW p, NEW q, Shape(p, q), q.op = "install", NEW n, Touches(p, q, n) PROVE n = q.name
BY DEF Shape, Touches

LEMMA FetchRecord ==
    ASSUME TypeInv, RecordInv, NEW c \in Clients, CheckReleaseNames(c) \/ DownloadChart(c)
    PROVE  RecordInv'
<1>1. Shape(pc[c], req[c]) /\ req[c] \in Request
    BY DEF TypeInv, ProcInv
<1>2. req[c].op = "install" /\ pc[c] \in {"check", "fetch"} /\ UNCHANGED <<rows, helm, disturbed>>
    BY <1>1 DEF Shape, CheckReleaseNames, DownloadChart, releaseVars
<1>3. CASE Return(c)
    <2>1. \A n \in Names : Phase(pc[c], req[c], n) => Agreed(n)
        BY <1>2 DEF Phase, Installing, Agreed, Unrecorded
    <2>. QED  BY <1>2, <1>3, <2>1, ReturnKept
<1>4. CASE CheckReleaseNames(c) /\ Goto(c, "fetch") /\ req[c].name \notin HelmReleases
    <2>1. ASSUME NEW n \in Names, Touches("fetch", req[c], n), Phase(pc[c], req[c], n)
          PROVE  Phase("fetch", req[c], n)
        <3>1. n = req[c].name
            BY <1>1, <1>2, <2>1 DEF Shape, Touches
        <3>. QED  BY <1>2, <1>4, <2>1, <3>1
                  DEF Phase, Installing, Synchronising, Deleting, Unrecorded, HelmReleases, CheckReleaseNames
    <2>. QED  BY <1>2, <1>4, <2>1, GotoKept DEF PCs
<1>5. CASE DownloadChart(c) /\ ~Return(c)
    <2>1. PICK infos \in FetchChart(req[c].chart.repository, req[c].chart.name, req[c].chart.version) :
              Continue(c, "install", [req[c] EXCEPT !.chart = NoChart, !.infos = infos])
        BY <1>5 DEF DownloadChart
    <2> DEFINE q == [req[c] EXCEPT !.chart = NoChart, !.infos = infos]
    <2>2. infos \in Manifest
        BY <1>1, <1>5 DEF Shape, DownloadChart, Chart, FetchChart, Get, VersionsOf, Newest, NewChartRepository,
                          Manifest, TypeInv, RestInv
    <2>3. /\ q \in Request /\ q.op = "install" /\ q.name = req[c].name /\ q.names = req[c].names
          /\ q.todo = req[c].todo
        BY <1>1, <1>2, <2>2 DEF Request
    <2>4. Continue(c, "install", q) /\ pc[c] = "fetch"
        BY <2>1, <1>5 DEF DownloadChart
    <2> HIDE DEF q
    <2>5. ASSUME NEW n \in Names PROVE KeptGood(c, "install", q, n)
        <3>1. Touches("install", q, n) <=> Concerns(c, n)
            BY <2>3, <2>4 DEF Touches, Concerns
        <3>2. Phase(pc[c], req[c], n) => Phase("install", q, n)
            BY <1>2, <2>3, <2>4 DEF Phase, Installing, Synchronising, Deleting
        <3>. QED  BY <3>1, <3>2 DEF KeptGood, Good
    <2>. QED  BY <1>2, <2>3, <2>4, <2>5, KeptStep DEF PCs
<1>. QED  BY <1>3, <1>4, <1>5 DEF CheckReleaseNames

\* The variables of a request that its phase does not depend on.
LEMMA PhaseOf ==
    ASSUME NEW p, NEW q, NEW r, NEW n,
           /\ q.op = r.op /\ q.name = r.name /\ q.names = r.names /\ q.todo = r.todo
           /\ q.project = r.project /\ q.row = r.row
    PROVE  /\ Phase(p, q, n) <=> Phase(p, r, n)
           /\ Touches(p, q, n) <=> Touches(p, r, n)
<1>1. Touches(p, q, n) <=> Touches(p, r, n)
    BY DEF Touches
<1>2. Installing(p, q, n) <=> Installing(p, r, n)
    BY DEF Installing
<1>3. Synchronising(p, q, n) <=> Synchronising(p, r, n)
    BY DEF Synchronising
<1>4. Deleting(p, q, n) <=> Deleting(p, r, n)
    BY DEF Deleting
<1>. QED  BY <1>1, <1>2, <1>3, <1>4 DEF Phase

LEMMA ServiceRecord ==
    ASSUME TypeInv, RecordInv, NEW c \in Clients, PrepareService(c) \/ AddService(c)
    PROVE  RecordInv'
<1>1. Shape(pc[c], req[c]) /\ req[c] \in Request
    BY DEF TypeInv, ProcInv
<1>2. /\ req[c].op \in {"install", "sync"} /\ pc[c] \in {"prepare", "services"} /\ req[c].todo = {}
      /\ UNCHANGED <<rows, helm, disturbed>>
    BY <1>1 DEF Shape, PrepareService, AddService, releaseVars
<1>3. ASSUME NEW n \in Names, Phase(pc[c], req[c], n), n = req[c].name PROVE Agreed(n)
    BY <1>2, <1>3 DEF Phase, RecordedAs, Agreed
<1>4. CASE Return(c) /\ req[c].op = "install"
    <2>1. \A n \in Names : Concerns(c, n) => n = req[c].name
        BY <1>1, <1>2, <1>4 DEF Shape, Concerns
    <2>. QED  BY <1>2, <1>3, <1>4, <2>1, ReturnKept
<1>5. CASE Goto(c, "next") /\ req[c].op = "sync"
    <2>1. ASSUME NEW n \in Names, Touches("next", req[c], n), Phase(pc[c], req[c], n)
          PROVE  Phase("next", req[c], n)
        <3>1. Synchronising(pc[c], req[c], n)
            BY <2>1 DEF Phase
        <3>2. n \in req[c].names => Agreed(n)
            BY <1>2, <1>5, <3>1 DEF Synchronising, Agreed
        <3>3. Agreed(n)
            BY <1>2, <1>3, <2>1, <3>2 DEF Touches
        <3>. QED  BY <1>2, <1>5, <3>1, <3>3 DEF Phase, Installing, Synchronising, Deleting
    <2>. QED  BY <1>2, <1>5, <2>1, GotoKept DEF PCs
<1>6. ASSUME NEW p \in {"services", "unrow"}, Goto(c, p) PROVE RecordInv'
    <2>1. ASSUME NEW n \in Names, Touches(p, req[c], n), Phase(pc[c], req[c], n)
          PROVE  Phase(p, req[c], n)
        BY <1>2, <1>6, <2>1 DEF Phase, Installing, Synchronising, Deleting
    <2>. QED  BY <1>2, <1>6, <2>1, GotoKept DEF PCs
<1>7. ASSUME NEW left \in SUBSET K8sInfo, NEW adds \in SUBSET K8sInfo,
             Continue(c, pc[c], [req[c] EXCEPT !.left = left, !.adds = adds])
      PROVE  RecordInv'
    <2> DEFINE q == [req[c] EXCEPT !.left = left, !.adds = adds]
    <2>1. q \in Request
        BY <1>1 DEF Request
    <2>2. /\ q.op = req[c].op /\ q.name = req[c].name /\ q.names = req[c].names /\ q.todo = req[c].todo
          /\ q.project = req[c].project /\ q.row = req[c].row
        BY <1>1 DEF Request
    <2>3. Continue(c, pc[c], q)
        BY <1>7
    <2> HIDE DEF q
    <2>4. ASSUME NEW n \in Names PROVE KeptGood(c, pc[c], q, n)
        BY <2>2, PhaseOf, TouchesConcerns DEF KeptGood, Good
    <2>. QED  BY <1>2, <2>1, <2>3, <2>4, KeptStep DEF PCs
<1>8. CASE PrepareService(c)
    <2>1. ASSUME NEW w \in req[c].left, NEW adds \in {req[c].adds, req[c].adds \cup {w}},
                 Continue(c, pc[c], [req[c] EXCEPT !.left = @ \ {w}, !.adds = adds])
          PROVE  RecordInv'
        <3>1. req[c].left \ {w} \in SUBSET K8sInfo /\ adds \in SUBSET K8sInfo
            BY <1>1 DEF Request
        <3>. QED  BY <1>7, <2>1, <3>1
    <2>. QED  BY <1>6, <1>8, <2>1 DEF PrepareService
<1>9. CASE AddService(c)
    <2>1. ASSUME NEW w \in req[c].adds, Continue(c, pc[c], [req[c] EXCEPT !.adds = @ \ {w}]) PROVE RecordInv'
        <3>1. [req[c] EXCEPT !.adds = @ \ {w}]
                  = [req[c] EXCEPT !.left = req[c].left, !.adds = req[c].adds \ {w}]
            BY <1>1 DEF Request
        <3>2. req[c].left \in SUBSET K8sInfo /\ req[c].adds \ {w} \in SUBSET K8sInfo
            BY <1>1 DEF Request
        <3>. QED  BY <1>7, <2>1, <3>1, <3>2
    <2>2. Finish(c) => RecordInv'
        BY <1>2, <1>4, <1>5 DEF Finish
    <2>. QED  BY <1>6, <1>9, <2>1, <2>2 DEF AddService
<1>. QED  BY <1>8, <1>9
LEMMA SyncRecord ==
    ASSUME TypeInv, RecordInv, NEW c \in Clients, SyncList(c) \/ SyncModels(c) \/ SyncNext(c)
    PROVE  RecordInv'
<1>1. Shape(pc[c], req[c]) /\ req[c] \in Request
    BY DEF TypeInv, ProcInv
<1>2. /\ req[c].op = "sync" /\ req[c].todo = {} /\ req[c].names \in SUBSET Names
      /\ pc[c] \in {"list", "models", "next"} /\ UNCHANGED <<rows, helm>>
    BY <1>1 DEF Shape, Request, SyncList, SyncModels, SyncNext, releaseVars
<1>3. CASE SyncList(c)
    <2>1. req[c].name = None /\ pc[c] = "list"
        BY <1>1, <1>3 DEF Shape, SyncList
    <2>2. CASE Return(c) /\ UNCHANGED disturbed
        <3>1. ASSUME NEW n \in Names, Concerns(c, n), Phase(pc[c], req[c], n) PROVE Agreed(n)
            <4>1. n \in req[c].names
                BY <1>2, <2>1, <3>1, HelmAssumption DEF Concerns
            <4>. QED  BY <1>1, <1>2, <2>1, <4>1 DEF Shape
        <3>. QED  BY <1>2, <2>2, <3>1, ReturnKept
    <2>3. CASE ~(Return(c) /\ UNCHANGED disturbed)
        <3> DEFINE names == ListDeployedReleasesByNamespace(req[c].project)
                   q == [req[c] EXCEPT !.names = names]
        <3>1. names \in SUBSET Names /\ \A n \in names : DeployedTo(n, req[c].project)
            BY DEF ListDeployedReleasesByNamespace, HelmReleases, DeployedTo, TypeInv, TillerInv
        <3>2. Continue(c, "models", q) /\ Disturb(c, names)
            BY <1>3, <2>3 DEF SyncList
        <3>3. /\ q \in Request /\ q.op = "sync" /\ q.name = None /\ q.todo = {} /\ q.names = names
              /\ q.project = req[c].project
            BY <1>1, <1>2, <2>1, <3>1 DEF Request
        <3> HIDE DEF q, names
        <3>4. ASSUME NEW n \in Names \ disturbed' PROVE KeptGood(c, "models", q, n)
            <4>1. n # None
                BY HelmAssumption
            <4>2. ~Concerns(c, n)
                BY <1>1, <1>2, <2>1, <4>1 DEF Shape, Concerns
            <4>3. Touches("models", q, n) => n \in names
                BY <3>3, <4>1 DEF Touches
            <4>4. n \in names => Alone(c, n)
                BY <3>2 DEF Disturb, Alone
            <4>5. Agreed(n) /\ n \in names => Phase("models", q, n)
                BY <3>1, <3>3 DEF Phase, Installing, Synchronising, Deleting
            <4>. QED  BY <4>2, <4>3, <4>4, <4>5 DEF KeptGood, Good
        <3>. QED  BY <1>2, <3>2, <3>3, <3>4, KeptStep DEF PCs, Disturb
    <2>. QED  BY <2>2, <2>3
<1>4. CASE SyncModels(c)
    <2>1. req[c].name = None /\ pc[c] = "models"
        BY <1>1, <1>4 DEF Shape, SyncModels
    <2>2. CASE Goto(c, "next") /\ disturbed' = disturbed \cup req[c].names
        <3>1. ASSUME NEW n \in Names \ disturbed' PROVE ~Touches("next", req[c], n)
            BY <1>2, <2>1, <2>2, HelmAssumption DEF Touches
        <3>. QED  BY <1>2, <2>1, <2>2, <3>1, GotoKept DEF PCs
    <2>3. CASE /\ Continue(c, "next", [req[c] EXCEPT !.names = @ \ {r.name : r \in rows}, !.seen = lastRow])
               /\ UNCHANGED disturbed
        <3> DEFINE q == [req[c] EXCEPT !.names = @ \ {r.name : r \in rows}, !.seen = lastRow]
        <3>1. q \in Request
            BY <1>1 DEF Request, TypeInv, TableInv
        <3>2. /\ q.op = "sync" /\ q.todo = {} /\ q.name = None /\ q.project = req[c].project
              /\ q.names = req[c].names \ {r.name : r \in rows}
            BY <1>1, <1>2, <2>1 DEF Request
        <3>3. Continue(c, "next", q)
            BY <2>3
        <3> HIDE DEF q
        <3>4. ASSUME NEW n \in Names PROVE KeptGood(c, "next", q, n)
            <4>1. n # None
                BY HelmAssumption
            <4>2. Concerns(c, n) <=> n \in req[c].names
                BY <1>2, <2>1, <4>1 DEF Concerns
            <4>3. Touches("next", q, n) <=> n \in q.names
                BY <3>2, <4>1 DEF Touches
            <4>4. ASSUME Phase(pc[c], req[c], n)
                  PROVE  Agreed(n) /\ DeployedTo(n, q.project) /\ (n \in q.names => Unrecorded(n))
                <5>1. Agreed(n) /\ DeployedTo(n, q.project)
                    BY <1>2, <2>1, <3>2, <4>4 DEF Phase, Synchronising
                <5>2. n \in q.names => Models(n) = {}
                    BY <3>2 DEF Models, GetHelmReleaseByName
                <5>. QED  BY <5>1, <5>2 DEF Agreed
            <4>5. Phase(pc[c], req[c], n) /\ n \in q.names => Phase("next", q, n)
                BY <3>2, <4>4 DEF Phase, Installing, Synchronising, Deleting
            <4>. QED  BY <3>2, <4>2, <4>3, <4>4, <4>5 DEF KeptGood, Good
        <3>. QED  BY <1>2, <2>3, <3>1, <3>3, <3>4, KeptStep DEF PCs
    <2>. QED  BY <1>4, <2>2, <2>3 DEF SyncModels
<1>5. CASE SyncNext(c)
    <2>0. pc[c] = "next" /\ UNCHANGED disturbed
        BY <1>5 DEF SyncNext
    <2>1. CASE Return(c)
        <3>1. \A n \in Names : Phase(pc[c], req[c], n) => Agreed(n)
            BY <1>2, <2>0 DEF Phase, Synchronising
        <3>. QED  BY <1>2, <2>0, <2>1, <3>1, ReturnKept
    <2>2. ASSUME NEW n \in req[c].names,
                 Continue(c, "row", [req[c] EXCEPT !.name = n, !.names = @ \ {n}, !.row = NoRow, !.left = {}, !.adds = {}])
          PROVE  RecordInv'
        <3> DEFINE q == [req[c] EXCEPT !.name = n, !.names = @ \ {n}, !.row = NoRow, !.left = {}, !.adds = {}]
        <3>1. q \in Request
            <4>1. n \in Names /\ req[c].names \ {n} \subseteq Names
                BY <1>2
            <4>. QED  BY <1>1, <4>1 DEF Request
        <3>2. /\ q.op = "sync" /\ q.todo = {} /\ q.project = req[c].project /\ q.name = n
              /\ q.names = req[c].names \ {n}
            BY <1>1, <1>2 DEF Request
        <3>3. Continue(c, "row", q)
            BY <2>2
        <3> HIDE DEF q
        <3>4. ASSUME NEW m \in Names PROVE KeptGood(c, "row", q, m)
            <4>1. Touches("row", q, m) <=> m \in req[c].names
                BY <3>2 DEF Touches
            <4>2. m \in req[c].names => Concerns(c, m)
                BY <2>0 DEF Concerns
            <4>3. ASSUME Phase(pc[c], req[c], m)
                  PROVE  Agreed(m) /\ (m \in req[c].names => Unrecorded(m) /\ DeployedTo(m, q.project))
                BY <1>2, <2>0, <3>2, <4>3 DEF Phase, Synchronising
            <4>4. Phase(pc[c], req[c], m) /\ m \in req[c].names => Phase("row", q, m)
                BY <3>2, <4>3 DEF Phase, Installing, Synchronising, Deleting
            <4>. QED  BY <4>1, <4>2, <4>3, <4>4 DEF KeptGood, Good
        <3>. QED  BY <1>2, <2>0, <3>1, <3>3, <3>4, KeptStep DEF PCs
    <2>. QED  BY <1>5, <2>1, <2>2 DEF SyncNext
<1>. QED  BY <1>3, <1>4, <1>5

\* What a deletion does between its commands.
LEMMA DeleteNextRecord ==
    ASSUME TypeInv, RecordInv, NEW c \in Clients, DeleteNext(c) \/ DeleteServiceByNames(c)
    PROVE  RecordInv'
<1>1. Shape(pc[c], req[c]) /\ req[c] \in Request
    BY DEF TypeInv, ProcInv
<1>2. /\ req[c].op = "delete" /\ req[c].names = {} /\ pc[c] \in {"next", "deleteServices"}
      /\ UNCHANGED <<rows, helm>> /\ disturbed \subseteq disturbed'
    BY <1>1 DEF Shape, DeleteNext, DeleteServiceByNames, releaseVars, Unrecovered
<1>3. ASSUME NEW n \in Names, Concerns(c, n), Phase(pc[c], req[c], n) PROVE Agreed(n)
    <2>1. CASE \E r \in req[c].todo : r.name = n
        BY <1>2, <1>3, <2>1 DEF Phase, Deleting, RecordedAs, Agreed
    <2>2. CASE n = req[c].name
        BY <1>2, <1>3, <2>2 DEF Phase, Deleting, Agreed, Unrecorded
    <2>. QED  BY <1>2, <1>3, <2>1, <2>2 DEF Concerns
<1>4. CASE Return(c)
    BY <1>2, <1>3, <1>4, ReturnKept
<1>5. CASE Goto(c, "next")
    <2>1. ASSUME NEW n \in Names, Touches("next", req[c], n), Phase(pc[c], req[c], n)
          PROVE  Phase("next", req[c], n)
        <3>1. Concerns(c, n)
            BY <1>2, <2>1 DEF Touches, Concerns
        <3>. QED  BY <1>2, <1>3, <2>1, <3>1 DEF Phase, Installing, Synchronising, Deleting
    <2>. QED  BY <1>2, <1>5, <2>1, GotoKept DEF PCs
<1>6. ASSUME NEW r \in req[c].todo, pc[c] = "next",
             Continue(c, "delete", [req[c] EXCEPT !.row = r, !.name = r.name, !.project = r.project,
                                                  !.todo = @ \ {r}])
      PROVE  RecordInv'
    <2> DEFINE q == [req[c] EXCEPT !.row = r, !.name = r.name, !.project = r.project, !.todo = @ \ {r}]
    <2>1. r \in ReleaseModel
        BY <1>1 DEF Request
    <2>2. q \in Request
        BY <1>1, <2>1 DEF Request, ReleaseModel
    <2>3. /\ q.op = "delete" /\ q.names = {} /\ q.row = r /\ q.name = r.name /\ q.todo = req[c].todo \ {r}
        BY <1>1, <1>2 DEF Request
    <2>4. Continue(c, "delete", q)
        BY <1>6
    <2> HIDE DEF q
    <2>5. ASSUME NEW n \in Names PROVE KeptGood(c, "delete", q, n)
        <3>1. Touches("delete", q, n) <=> \E s \in req[c].todo : s.name = n
            BY <2>3 DEF Touches
        <3>2. (\E s \in req[c].todo : s.name = n) => Concerns(c, n)
            BY <1>6 DEF Concerns
        <3>3. ASSUME Phase(pc[c], req[c], n), Touches("delete", q, n) PROVE Phase("delete", q, n)
            <4>1. \A s \in req[c].todo : s.name = n => RecordedAs(n, s)
                BY <1>2, <3>3 DEF Phase, Deleting
            <4>2. \A s \in req[c].todo : s.name = n /\ n = r.name => s = r
                BY <4>1 DEF RecordedAs
            <4>3. Deleting("delete", q, n)
                BY <2>3, <4>1, <4>2 DEF Deleting
            <4>. QED  BY <2>3, <4>3 DEF Phase, Installing, Synchronising
        <3>. QED  BY <1>3, <3>1, <3>2, <3>3 DEF KeptGood, Good
    <2>. QED  BY <1>2, <2>2, <2>4, <2>5, KeptStep DEF PCs
<1>. QED  BY <1>4, <1>5, <1>6 DEF DeleteNext, DeleteServiceByNames
-----------------------------------------------------------------------------
\* The steps that change helm or the rows change one name only, the one the request is at.
LEMMA OthersSame ==
    ASSUME NEW n, NEW m, m # n
    PROVE  /\ rows' = rows /\ helm' = Purged(n) => Same(m)
           /\ \A p, infos, deployed : rows' = rows /\ helm' = Upgraded(n, p, infos, deployed) => Same(m)
           /\ \A row : row.name = n /\ rows' = rows \cup {row} /\ UNCHANGED helm => Same(m)
<1>1. rows' = rows => Models(m)' = Models(m)
    BY DEF Models, GetHelmReleaseByName
<1>2. rows' = rows /\ helm' = Purged(n) => Same(m)
    BY <1>1 DEF Same, Purged
<1>3. ASSUME NEW p, NEW infos, NEW deployed, rows' = rows, helm' = Upgraded(n, p, infos, deployed) PROVE Same(m)
    BY <1>1, <1>3 DEF Same, Upgraded
<1>4. ASSUME NEW row, row.name = n, rows' = rows \cup {row}, UNCHANGED helm PROVE Same(m)
    BY <1>4 DEF Same, Models, GetHelmReleaseByName
<1>. QED  BY <1>2, <1>3, <1>4

\* The statement that deletes a row by its number.
LEMMA RowRemoved ==
    ASSUME TypeInv, NEW r \in ReleaseModel, RowKnown(r), rows' = {s \in rows : s.id # r.id}, NEW n
    PROVE  /\ Models(n)' = Models(n) \ {r}
           /\ n # r.name /\ UNCHANGED helm => Same(n)
<1>1. \A s \in rows : s.id # r.id <=> s # r
    BY DEF RowKnown
<1>2. Models(n)' = Models(n) \ {r}
    BY <1>1 DEF Models, GetHelmReleaseByName
<1>3. n # r.name => r \notin Models(n)
    BY DEF Models, GetHelmReleaseByName
<1>. QED  BY <1>2, <1>3 DEF Same

LEMMA PurgeHelm ==
    ASSUME NEW n, helm' = Purged(n), rows' = rows
    PROVE  n \notin DOMAIN helm' /\ Models(n)' = Models(n)
BY DEF Purged, Models, GetHelmReleaseByName

LEMMA TillerRecord ==
    ASSUME TypeInv, RecordInv, NEW c \in Clients, InstallChart(c) \/ PurgeFailed(c) \/ DeleteReleaseAgain(c)
    PROVE  RecordInv'
<1>1. Shape(pc[c], req[c]) /\ req[c] \in Request
    BY DEF TypeInv, ProcInv
<1>2. /\ req[c].op = "install" /\ req[c].name \in Names /\ req[c].project \in Projects
      /\ pc[c] \in {"install", "purge", "undo"} /\ rows' = rows /\ disturbed \subseteq disturbed'
    BY <1>1 DEF Shape, InstallChart, PurgeFailed, DeleteReleaseAgain, Unrecovered
<1>3. \A n \in Names : Concerns(c, n) <=> n = req[c].name
    BY <1>1, <1>2 DEF Shape, Concerns
<1>4. CASE InstallChart(c)
    <2>1. ASSUME NEW p \in {"row", "purge"}, Goto(c, p),
                 \/ UNCHANGED helm /\ p = "purge"
                 \/ \E deployed \in BOOLEAN :
                       /\ helm' = Upgraded(req[c].name, req[c].project, req[c].infos, deployed)
                       /\ p = "row" => deployed
          PROVE  RecordInv'
        <3>1. PICK q \in Request : q = req[c]
            BY <1>1
        <3>2. Continue(c, p, q)
            BY <2>1, <3>1, GotoContinues DEF TypeInv
        <3>3. ASSUME NEW n \in Names PROVE StepGood(c, p, q, n)
            <4>1. Touches(p, q, n) <=> Concerns(c, n)
                BY <1>2, <2>1, <3>1 DEF Touches, Concerns
            <4>2. ~Concerns(c, n) => Same(n)
                <5>1. UNCHANGED helm => Same(n)
                    BY <1>2 DEF Same, Models, GetHelmReleaseByName
                <5>. QED  BY <1>2, <1>3, <2>1, <5>1, OthersSame
            <4>3. ASSUME Phase(pc[c], req[c], n), n = req[c].name PROVE Phase(p, q, n)'
                <5>1. Models(n) = {} /\ n \notin DOMAIN helm
                    BY <1>2, <1>4, <4>3 DEF Phase, Installing, InstallChart
                <5>2. Models(n)' = {}
                    BY <1>2, <5>1 DEF Models, GetHelmReleaseByName
                <5>3. p = "row" => DeployedTo(n, q.project)'
                    BY <2>1, <3>1, <4>3, <5>1 DEF Upgraded, DeployedTo
                <5>. QED  BY <1>2, <2>1, <3>1, <5>2, <5>3 DEF Phase, Installing, Synchronising, Deleting
            <4>. QED  BY <1>3, <3>1, <4>1, <4>2, <4>3 DEF StepGood, Good
        <3>. QED  BY <1>2, <2>1, <3>2, <3>3, RecordStep DEF PCs
    <2>. QED  BY <1>4, <2>1 DEF InstallChart
<1>5. CASE ~InstallChart(c)
    <2>1. Return(c) /\ pc[c] \in {"purge", "undo"}
        BY <1>5 DEF PurgeFailed, DeleteReleaseAgain
    <2>2. CASE helm' = Purged(req[c].name)
        <3>1. ASSUME NEW n \in Names PROVE StepGood(c, "idle", NullRequest, n)
            <4>1. ~Concerns(c, n) => Same(n)
                BY <1>2, <1>3, <2>2, OthersSame
            <4>2. ASSUME Phase(pc[c], req[c], n), n = req[c].name PROVE Agreed(n)'
                <5>1. Models(n) = {}
                    BY <1>2, <2>1, <4>2 DEF Phase, Installing
                <5>. QED  BY <1>2, <2>2, <4>2, <5>1, PurgeHelm DEF Agreed, Unrecorded
            <4>. QED  BY <1>3, <4>1, <4>2 DEF StepGood, Good, Touches
        <3>. QED  BY <1>2, <2>1, <3>1, RecordStep, NullTypes DEF Return, PCs
    <2>3. CASE UNCHANGED helm /\ Unrecovered(c)
        <3>1. req[c].name \in disturbed'
            BY <2>3 DEF Unrecovered
        <3>. QED  BY <1>2, <1>3, <2>1, <2>3, <3>1, ReturnKept
    <2>. QED  BY <1>5, <2>2, <2>3 DEF PurgeFailed, DeleteReleaseAgain
<1>. QED  BY <1>4, <1>5

LEMMA RowRecord ==
    ASSUME TypeInv, RecordInv, NEW c \in Clients, insertReleaseIntoDatabase(c)
    PROVE  RecordInv'
<1>1. Shape(pc[c], req[c]) /\ req[c] \in Request
    BY DEF TypeInv, ProcInv
<1>2. /\ req[c].op \in {"install", "sync"} /\ req[c].name \in Names /\ req[c].todo = {} /\ pc[c] = "row"
      /\ ResolveUserPrivilegeByID(req[c].user, req[c].project) /\ UNCHANGED <<helm, disturbed>>
    BY <1>1 DEF Shape, insertReleaseIntoDatabase
<1>3. ASSUME NEW n \in Names, Phase(pc[c], req[c], n)
      PROVE  Models(n) = {} /\ DeployedTo(n, req[c].project)
    BY <1>2, <1>3 DEF Phase, Installing, Synchronising, Unrecorded
<1>4. ASSUME NEW p \in {"undo", "next"}, p = "next" <=> req[c].op = "sync", Goto(c, p), UNCHANGED rows
      PROVE  RecordInv'
    <2>1. ASSUME NEW n \in Names, Touches(p, req[c], n), Phase(pc[c], req[c], n)
          PROVE  Phase(p, req[c], n)
        <3>1. Models(n) = {}
            BY <1>3, <2>1
        <3>2. p = "next" => Unrecorded(n)
            BY <1>2, <1>4, <2>1 DEF Phase, Synchronising
        <3>. QED  BY <1>2, <1>4, <2>1, <3>1, <3>2 DEF Phase, Installing, Synchronising, Deleting, Agreed
    <2>. QED  BY <1>2, <1>4, <2>1, GotoKept DEF PCs
<1>5. ASSUME req[c].name \in HelmReleases, lastRow < MaxIds, lastRow' = lastRow + 1,
             NEW row,
             row = [id |-> lastRow', name |-> req[c].name, project |-> req[c].project,
                    owner |-> req[c].user, infos |-> GetReleaseManifest(req[c].name), seen |-> req[c].seen],
             rows' = rows \cup {row},
             Continue(c, "prepare", [req[c] EXCEPT !.row = row, !.left = matchedServiceAndWorkload(row.infos)])
      PROVE  RecordInv'
    <2>1. /\ row.name = req[c].name /\ row.project = req[c].project /\ row.owner = req[c].user
          /\ row.infos = helm[req[c].name].infos
        BY <1>5 DEF GetReleaseManifest
    <2>2. row \in ReleaseModel
        <3>1. lastRow + 1 \in 1..MaxIds
            BY <1>5, Bounds DEF TypeInv, TableInv
        <3>2. row.infos \in Manifest
            BY <1>2, <1>5, <2>1 DEF HelmReleases, TypeInv, TillerInv, HelmRelease
        <3>3. req[c].project \in Projects /\ req[c].user \in Users /\ req[c].seen \in 0..MaxIds
            BY <1>1, <1>2 DEF Shape, Request
        <3>. QED  BY <1>2, <1>5, <2>1, <3>1, <3>2, <3>3 DEF ReleaseModel
    <2>3. row.infos \in Manifest /\ matchedServiceAndWorkload(row.infos) \in SUBSET K8sInfo
        BY <2>2, ManifestTypes DEF ReleaseModel
    <2> DEFINE g == [req[c] EXCEPT !.row = row, !.left = matchedServiceAndWorkload(row.infos)]
    <2>4. PICK q \in Request : q = g
        BY <1>1, <2>2, <2>3 DEF Request
    <2>5. /\ q.op = req[c].op /\ q.name = req[c].name /\ q.names = req[c].names /\ q.todo = req[c].todo
          /\ q.project = req[c].project /\ q.row = row
        BY <1>1, <2>4 DEF Request
    <2>6. Continue(c, "prepare", q)
        BY <1>5, <2>4
    <2> HIDE DEF g
    <2>7. ASSUME NEW n \in Names PROVE StepGood(c, "prepare", q, n)
        <3>1. Touches("prepare", q, n) <=> Concerns(c, n)
            BY <1>2, <2>5 DEF Touches, Concerns
        <3>2. n # req[c].name => Same(n)
            BY <1>2, <1>5, <2>1, OthersSame
        <3>3. Concerns(c, n) <=> n = req[c].name \/ n \in req[c].names
            BY <1>2 DEF Concerns
        <3>4. ASSUME Phase(pc[c], req[c], n), n = req[c].name PROVE Phase("prepare", q, n)'
            <4>1. Models(n)' = {row}
                BY <1>3, <1>5, <2>1, <3>4 DEF Models, GetHelmReleaseByName
            <4>2. DeployedTo(n, row.project)'
                BY <1>2, <1>3, <2>1, <3>4 DEF DeployedTo
            <4>3. RecordedAs(n, row)'
                BY <1>2, <2>1, <3>4, <4>1, <4>2 DEF RecordedAs, ResolveUserPrivilegeByID
            <4>4. n \notin q.names
                BY <1>1, <2>5, <3>4 DEF Shape
            <4>. QED  BY <1>2, <2>5, <4>3, <4>4 DEF Phase, Installing, Synchronising, Deleting
        <3>5. ASSUME Phase(pc[c], req[c], n), n # req[c].name, n \in req[c].names PROVE Phase("prepare", q, n)'
            <4>1. Unrecorded(n) /\ DeployedTo(n, q.project) /\ q.op = "sync"
                <5>1. q.op = "sync"
                    BY <1>1, <1>2, <2>5, <3>5 DEF Shape
                <5>. QED  BY <1>2, <2>5, <3>5, <5>1 DEF Phase, Synchronising
            <4>2. Unrecorded(n)' /\ DeployedTo(n, q.project)'
                BY <3>2, <3>5, <4>1, SameKept
            <4>. QED  BY <1>2, <2>5, <3>5, <4>1, <4>2 DEF Phase, Installing, Synchronising, Deleting
        <3>. QED  BY <3>1, <3>2, <3>3, <3>4, <3>5 DEF StepGood, Good
    <2>. QED  BY <1>2, <2>6, <2>7, RecordStep DEF PCs
<1>. QED  BY <1>4, <1>5 DEF insertReleaseIntoDatabase
LEMMA UnrowRecord ==
    ASSUME TypeInv, RecordInv, NEW c \in Clients, DeleteHelmReleaseAgain(c)
    PROVE  RecordInv'
<1>1. Shape(pc[c], req[c]) /\ req[c] \in Request /\ RowKnown(req[c].row)
    BY DEF TypeInv, ProcInv, Fits
<1>2. /\ pc[c] = "unrow" /\ req[c].op \in {"install", "sync"} /\ req[c].name \in Names /\ req[c].todo = {}
      /\ req[c].row \in ReleaseModel /\ req[c].row.name = req[c].name
      /\ UNCHANGED helm /\ disturbed' = disturbed \cup {req[c].name} /\ Finish(c)
    BY <1>1 DEF Shape, DeleteHelmReleaseAgain, Unrecovered
<1>3. ASSUME NEW n, n # req[c].name PROVE Same(n)
    <2>1. CASE UNCHANGED rows
        BY <1>2, <2>1 DEF Same, Models, GetHelmReleaseByName
    <2>2. CASE rows' = {r \in rows : r.id # req[c].row.id}
        BY <1>1, <1>2, <1>3, <2>2, RowRemoved
    <2>. QED  BY <2>1, <2>2 DEF DeleteHelmReleaseAgain
<1>4. CASE Return(c) /\ req[c].op = "install"
    <2>1. ASSUME NEW n \in Names \ disturbed' PROVE StepGood(c, "idle", NullRequest, n)
        BY <1>1, <1>2, <1>3, <1>4 DEF StepGood, Touches, Shape, Concerns
    <2>. QED  BY <1>2, <1>4, <2>1, RecordStep, NullTypes DEF Return, PCs
<1>5. CASE Goto(c, "next") /\ req[c].op = "sync"
    <2>1. PICK q \in Request : q = req[c]
        BY <1>1
    <2>2. Continue(c, "next", q)
        BY <1>5, <2>1, GotoContinues DEF TypeInv
    <2>3. ASSUME NEW n \in Names \ disturbed' PROVE StepGood(c, "next", q, n)
        <3>1. n # q.name /\ Same(n)
            BY <1>2, <1>3, <2>1
        <3>2. Touches("next", q, n) <=> Concerns(c, n)
            BY <1>2, <2>1 DEF Touches, Concerns
        <3>3. ASSUME Phase(pc[c], req[c], n), n \in q.names PROVE Phase("next", q, n)
            BY <1>2, <1>5, <2>1, <3>1, <3>3 DEF Phase, Installing, Synchronising, Deleting, Agreed
        <3>4. Concerns(c, n) => n \in q.names
            BY <1>2, <2>1, <3>1 DEF Concerns
        <3>. QED  BY <3>1, <3>2, <3>3, <3>4, PhaseKept DEF StepGood, Good
    <2>. QED  BY <1>2, <2>2, <2>3, RecordStep DEF PCs
<1>. QED  BY <1>2, <1>4, <1>5 DEF Finish

LEMMA DeleteRecord ==
    ASSUME TypeInv, RecordInv, NEW c \in Clients, DeleteRelease(c) \/ DeleteHelmRelease(c)
    PROVE  RecordInv'
<1>1. Shape(pc[c], req[c]) /\ req[c] \in Request /\ RowKnown(req[c].row)
    BY DEF TypeInv, ProcInv, Fits
<1>2. /\ pc[c] \in {"delete", "deleteRow"} /\ req[c].op = "delete" /\ req[c].names = {}
      /\ req[c].row \in ReleaseModel /\ req[c].row.name = req[c].name /\ req[c].name \in Names
      /\ disturbed \subseteq disturbed'
    BY <1>1 DEF Shape, DeleteRelease, DeleteHelmRelease, ReleaseModel, Unrecovered
<1>3. ASSUME NEW n \in Names, n # req[c].name PROVE Same(n)
    <2>1. UNCHANGED <<rows, helm>> => Same(n)
        BY DEF Same, Models, GetHelmReleaseByName
    <2>2. CASE DeleteRelease(c)
        BY <1>3, <2>1, <2>2, OthersSame DEF DeleteRelease
    <2>3. CASE DeleteHelmRelease(c)
        BY <1>1, <1>2, <1>3, <2>1, <2>3, RowRemoved DEF DeleteHelmRelease
    <2>. QED  BY <2>2, <2>3
<1>4. ASSUME NEW n \in Names, Phase(pc[c], req[c], n), Concerns(c, n), n # req[c].name
      PROVE  /\ \A r \in req[c].todo : r.name = n => RecordedAs(n, r)
             /\ Agreed(n)
    BY <1>2, <1>4 DEF Phase, Deleting, Concerns, RecordedAs, Agreed
<1>5. CASE Return(c)
    <2>1. CASE UNCHANGED <<rows, helm>> /\ pc[c] = "delete"
        <3>1. ASSUME NEW n \in Names, Concerns(c, n), Phase(pc[c], req[c], n) PROVE Agreed(n)
            <4>1. n = req[c].name => Agreed(n)
                BY <1>2, <2>1, <3>1 DEF Phase, Deleting, RecordedAs, Agreed
            <4>. QED  BY <1>4, <3>1, <4>1
        <3>. QED  BY <1>2, <1>5, <2>1, <3>1, ReturnKept
    <2>2. CASE req[c].name \in disturbed'
        <3>1. ASSUME NEW n \in Names \ disturbed' PROVE StepGood(c, "idle", NullRequest, n)
            <4>1. n # req[c].name /\ Same(n)
                BY <1>3, <2>2
            <4>. QED  BY <1>4, <4>1, SameKept DEF StepGood, Good, Touches
        <3>. QED  BY <1>2, <1>5, <3>1, RecordStep, NullTypes DEF Return, PCs
    <2>3. (pc[c] = "delete" /\ UNCHANGED <<rows, helm>>) \/ req[c].name \in disturbed' \/ ~Return(c)
        <3>1. ASSUME DeleteRelease(c), Goto(c, "deleteRow") PROVE ~Return(c)
            BY <1>2, <3>1 DEF Goto, Return, Continue, TypeInv, ProcInv
        <3>2. ASSUME DeleteHelmRelease(c), Goto(c, "deleteServices") PROVE ~Return(c)
            BY <1>2, <3>2 DEF Goto, Return, Continue, TypeInv, ProcInv
        <3>. QED  BY <3>1, <3>2 DEF DeleteRelease, DeleteHelmRelease, Unrecovered
    <2>. QED  BY <1>5, <2>1, <2>2, <2>3
<1>6. ASSUME NEW p \in {"deleteRow", "deleteServices"}, Goto(c, p),
             p = "deleteRow" => pc[c] = "delete" /\ helm' = Purged(req[c].name) /\ rows' = rows,
             p = "deleteServices" =>
                /\ pc[c] = "deleteRow" /\ rows' = {r \in rows : r.id # req[c].row.id} /\ UNCHANGED helm
      PROVE  RecordInv'
    <2>1. PICK q \in Request : q = req[c]
        BY <1>1
    <2>2. Continue(c, p, q)
        BY <1>6, <2>1, GotoContinues DEF TypeInv
    <2>3. ASSUME NEW n \in Names PROVE StepGood(c, p, q, n)
        <3>1. Touches(p, q, n) <=> Concerns(c, n)
            BY <1>2, <1>6, <2>1 DEF Touches, Concerns
        <3>2. ASSUME Phase(pc[c], req[c], n), Concerns(c, n), n # req[c].name PROVE Phase(p, q, n)'
            <4>1. \A r \in q.todo : r.name = n => RecordedAs(n, r)'
                BY <1>3, <1>4, <2>1, <3>2, SameKept
            <4>. QED  BY <1>2, <1>6, <2>1, <3>2, <4>1 DEF Phase, Installing, Synchronising, Deleting
        <3>3. ASSUME Phase(pc[c], req[c], n), n = req[c].name PROVE Phase(p, q, n)'
            <4>1. \A r \in q.todo : r.name # n
                BY <1>2, <2>1, <3>3 DEF Phase, Deleting
            <4>2. CASE p = "deleteRow"
                <5>1. Models(n) = {q.row}
                    BY <1>2, <1>6, <2>1, <3>3, <4>2 DEF Phase, Deleting, RecordedAs
                <5>2. Models(n)' = {q.row} /\ n \notin DOMAIN helm'
                    BY <1>6, <3>3, <4>2, <5>1, PurgeHelm
                <5>. QED  BY <1>2, <2>1, <4>1, <4>2, <5>2 DEF Phase, Installing, Synchronising, Deleting
            <4>3. CASE p = "deleteServices"
                <5>1. Models(n) = {q.row} /\ n \notin DOMAIN helm
                    BY <1>2, <1>6, <2>1, <3>3, <4>3 DEF Phase, Deleting
                <5>2. Models(n)' = Models(n) \ {req[c].row}
                    BY <1>1, <1>2, <1>6, <4>3, RowRemoved
                <5>3. Models(n)' = {} /\ n \notin DOMAIN helm'
                    BY <1>6, <2>1, <4>3, <5>1, <5>2
                <5>. QED  BY <1>2, <2>1, <4>1, <4>3, <5>3 DEF Phase, Installing, Synchronising, Deleting
            <4>. QED  BY <1>6, <4>2, <4>3
        <3>4. n = req[c].name => Concerns(c, n)
            BY <1>2 DEF Concerns
        <3>. QED  BY <1>3, <3>1, <3>2, <3>3, <3>4 DEF StepGood, Good
    <2>. QED  BY <1>2, <1>6, <2>2, <2>3, RecordStep DEF PCs
<1>. QED  BY <1>5, <1>6 DEF DeleteRelease, DeleteHelmRelease

LEMMA IdleRecord ==
    ASSUME TypeInv, RecordInv, UNCHANGED <<rows, helm, pc, req, disturbed>> PROVE RecordInv'
<1> SUFFICES ASSUME NEW n \in Names \ disturbed'
             PROVE  /\ \A d, e \in Clients : Concerns(d, n)' /\ Concerns(e, n)' => d = e
                    /\ (\A d \in Clients : ~Concerns(d, n)') => Agreed(n)'
                    /\ \A d \in Clients : Concerns(d, n)' => Phase(pc[d], req[d], n)'
    BY DEF RecordInv
<1>1. Same(n)
    BY DEF Same, Models, GetHelmReleaseByName
<1>2. \A d \in Clients : Concerns(d, n)' <=> Concerns(d, n)
    BY DEF Concerns
<1>3. ASSUME NEW d \in Clients, Phase(pc[d], req[d], n) PROVE Phase(pc[d], req[d], n)'
    <2>1. PICK o, r : o = pc[d] /\ r = req[d]
        OBVIOUS
    <2>2. Phase(o, r, n)'
        BY <1>1, <1>3, <2>1, PhaseKept
    <2>. QED  BY <2>1, <2>2
<1>. QED  BY <1>1, <1>2, <1>3, SameKept DEF RecordInv

LEMMA RecordInvInit == Init => RecordInv
<1> SUFFICES ASSUME Init, NEW n \in Names PROVE Agreed(n) /\ \A c \in Clients : ~Concerns(c, n)
    BY DEF RecordInv
<1>1. Models(n) = {}
    BY DEF Init, Models, GetHelmReleaseByName
<1>2. n \in DOMAIN helm => helm[n].foreign
    <2>1. CASE helm = <<>>
        BY <2>1
    <2>2. ASSUME NEW m \in Names, NEW p \in Projects, NEW infos \in Manifest,
                 helm = [k \in {m} |-> [ns |-> p, infos |-> infos, deployed |-> TRUE, foreign |-> TRUE]]
          PROVE  n \in DOMAIN helm => helm[n].foreign
        BY <2>2
    <2>. QED  BY <2>1, <2>2 DEF Init
<1>. QED  BY <1>1, <1>2 DEF Init, Agreed, Unrecorded, Concerns

LEMMA RecordInvStep == TypeInv /\ RecordInv /\ [Next]_vars => RecordInv'
<1> SUFFICES ASSUME TypeInv, RecordInv, [Next]_vars PROVE RecordInv'
    OBVIOUS
<1>1. CASE UNCHANGED vars
    BY <1>1, IdleRecord DEF vars, releaseVars, procVars
<1>2. ASSUME NEW c \in Clients, ClientStep(c) PROVE RecordInv'
    BY <1>2, InstallRecord, FetchRecord, TillerRecord, RowRecord, ServiceRecord, UnrowRecord,
       SyncAskRecord, SyncRecord, DeleteAskRecord, DeleteNextRecord, DeleteRecord DEF ClientStep
<1>3. CASE IdleStep
    BY <1>3, IdleRecord DEF IdleStep, UploadHelmChartAction, DeleteHelmChartAction, DeployService, DeleteService,
                            releaseVars, procVars
<1>. QED  BY <1>1, <1>2, <1>3, NextSteps

LEMMA HelmRecorded == Spec => []RecordInv
BY RecordInvInit, RecordInvStep, HelmTyped, PTL DEF Spec
\* What is recorded is found, by the owner and by the administrator.
LEMMA RecordedFound ==
    ASSUME TypeInv, NEW n \in Names, NEW r \in rows, RecordedAs(n, r), r.name = n, NEW u \in {r.owner, Admin}
    PROVE  /\ \A p \in {r.project, None} : r \in ListHelmReleaseAction(u, p)
           /\ \A d \in GetHelmReleaseAction(u, r) : d.deployed /\ d.workloads = r.infos
<1>1. /\ n \in HelmReleases /\ helm[n].deployed /\ r.infos = helm[n].infos /\ r.project \in Projects
      /\ r.owner = Admin \/ r.owner \in Members[r.project]
    BY DEF RecordedAs, DeployedTo, HelmReleases, ResolveUserPrivilegeByID, TypeInv, TableInv, ReleaseModel
<1>2. ASSUME NEW p \in {r.project, None} PROVE r \in ListHelmReleaseAction(u, p)
    <2>1. CASE u = Admin
        BY <1>1, <1>2, <2>1 DEF ListHelmReleaseAction, ListAllReleases, generateModelReleases, GetAllHelmReleases,
                                GetAllHelmReleasesByProjectName
    <2>2. CASE u # Admin /\ u = r.owner
        <3>1. r \in GetHelmReleasesByUserIDAndProjectName(u, r.project)
            BY <1>1, <2>2 DEF GetHelmReleasesByUserIDAndProjectName
        <3>. QED  BY <1>1, <1>2, <2>2, <3>1 DEF ListHelmReleaseAction, ListReleasesByUserID, generateModelReleases
    <2>. QED  BY <2>1, <2>2
<1>3. ASSUME NEW d \in GetHelmReleaseAction(u, r) PROVE d.deployed /\ d.workloads = r.infos
    <2>1. d = GetReleaseDetail(r)
        BY <1>3 DEF GetHelmReleaseAction
    <2>. QED  BY <1>1, <2>1 DEF GetReleaseDetail, GetReleaseStatus, GetReleaseManifest
<1>. QED  BY <1>2, <1>3

LEMMA RecordInvSettled == TypeInv /\ RecordInv => ReleasesAreRecorded
<1> SUFFICES ASSUME TypeInv, RecordInv, NEW n \in Names, Settled(n)
             PROVE  /\ Cardinality(Models(n)) <= 1
                    /\ n \in DOMAIN helm => helm[n].foreign \/ Models(n) # {}
                    /\ \A r \in Models(n) :
                          /\ n \in DOMAIN helm /\ r.project = helm[n].ns
                          /\ \A u \in {r.owner, Admin} :
                                /\ \A p \in {r.project, None} : r \in ListHelmReleaseAction(u, p)
                                /\ \A d \in GetHelmReleaseAction(u, r) : d.deployed /\ d.workloads = r.infos
    BY DEF ReleasesAreRecorded, Models
<1>1. Agreed(n)
    BY DEF Settled, RecordInv
<1>2. CASE Unrecorded(n)
    BY <1>2, FS_EmptySet DEF Unrecorded
<1>3. ASSUME NEW r \in Models(n), RecordedAs(n, r)
      PROVE  /\ Cardinality(Models(n)) <= 1 /\ Models(n) = {r} /\ n \in DOMAIN helm /\ r.project = helm[n].ns
             /\ r \in rows /\ r.name = n
    <2>1. Models(n) = {r} /\ n \in DOMAIN helm /\ r.project = helm[n].ns
        BY <1>3 DEF RecordedAs, DeployedTo
    <2>2. Cardinality({r}) = 1
        BY FS_Singleton
    <2>3. r \in rows /\ r.name = n
        BY DEF Models, GetHelmReleaseByName
    <2>. QED  BY <2>1, <2>2, <2>3
<1>4. CASE \E r \in Models(n) : RecordedAs(n, r)
    BY <1>3, <1>4, RecordedFound
<1>. QED  BY <1>1, <1>2, <1>4 DEF Agreed

\* Once no request is busy with a release, its row and helm agree, and its owner and the administrator
\* find it.  (InstallChart's order of commands, what each of its failures undoes, and DeleteRelease's.)
THEOREM ReleasesRecorded == Spec => []ReleasesAreRecorded
BY HelmTyped, HelmRecorded, RecordInvSettled, PTL

-----------------------------------------------------------------------------
(* The services of releases. *)

LEMMA CoveredInvInit == Init => CoveredInv
BY DEF Init, CoveredInv

\* A request's step is its own, and what the steps do not do to the tables.
LEMMA ClientMoves ==
    ASSUME TypeInv, NEW c \in Clients, ClientStep(c)
    PROVE  \A d \in Clients \ {c} : pc'[d] = pc[d] /\ req'[d] = req[d]
<1>1. \A p, q : Continue(c, p, q) => \A d \in Clients \ {c} : pc'[d] = pc[d] /\ req'[d] = req[d]
    BY DEF Continue, TypeInv, ProcInv
<1>2. \A p : Goto(c, p) => \A d \in Clients \ {c} : pc'[d] = pc[d] /\ req'[d] = req[d]
    BY DEF Goto, TypeInv, ProcInv
<1>3. \E p, q : Continue(c, p, q) \/ Goto(c, p)
    BY DEF ClientStep, InstallHelmChartAction, Ask, CheckReleaseNames, DownloadChart, InstallChart, PurgeFailed,
           insertReleaseIntoDatabase, DeleteReleaseAgain, PrepareService, AddService, DeleteHelmReleaseAgain,
           SyncHelmReleaseWithK8s, SyncList, SyncModels, SyncNext, DeleteHelmReleaseAction,
           DeleteHelmReleaseByProjectAction, DeleteNext, DeleteRelease, DeleteHelmRelease, DeleteServiceByNames,
           Return, Finish
<1>. QED  BY <1>1, <1>2, <1>3

LEMMA ClientTables ==
    ASSUME NEW c \in Clients, ClientStep(c)
    PROVE  /\ disturbed \subseteq disturbed'
           /\ DeleteHelmReleaseAgain(c) \/ DeleteHelmRelease(c) \/ rows \subseteq rows'
           /\ AddService(c) \/ services' \subseteq services
           /\ pc[c] = "deleteServices" => DeleteServiceByNames(c)
<1>1. disturbed \subseteq disturbed'
    BY DEF ClientStep, InstallHelmChartAction, Ask, CheckReleaseNames, DownloadChart, InstallChart, PurgeFailed,
           insertReleaseIntoDatabase, DeleteReleaseAgain, PrepareService, AddService, DeleteHelmReleaseAgain,
           SyncHelmReleaseWithK8s, SyncList, SyncModels, SyncNext, DeleteHelmReleaseAction,
           DeleteHelmReleaseByProjectAction, DeleteNext, DeleteRelease, DeleteHelmRelease, DeleteServiceByNames,
           Unrecovered, Disturb
<1>2. DeleteHelmReleaseAgain(c) \/ DeleteHelmRelease(c) \/ rows \subseteq rows'
    BY DEF ClientStep, InstallHelmChartAction, Ask, CheckReleaseNames, DownloadChart, InstallChart, PurgeFailed,
           insertReleaseIntoDatabase, DeleteReleaseAgain, PrepareService, AddService,
           SyncHelmReleaseWithK8s, SyncList, SyncModels, SyncNext, DeleteHelmReleaseAction,
           DeleteHelmReleaseByProjectAction, DeleteNext, DeleteRelease, DeleteServiceByNames, releaseVars
<1>3. AddService(c) \/ services' \subseteq services
    BY DEF ClientStep, InstallHelmChartAction, Ask, CheckReleaseNames, DownloadChart, InstallChart, PurgeFailed,
           insertReleaseIntoDatabase, DeleteReleaseAgain, PrepareService, DeleteHelmReleaseAgain,
           SyncHelmReleaseWithK8s, SyncList, SyncModels, SyncNext, DeleteHelmReleaseAction,
           DeleteHelmReleaseByProjectAction, DeleteNext, DeleteRelease, DeleteHelmRelease, DeleteServiceByNames,
           serviceVars
<1>4. pc[c] = "deleteServices" => DeleteServiceByNames(c)
    BY DEF ClientStep, InstallHelmChartAction, Ask, CheckReleaseNames, DownloadChart, InstallChart, PurgeFailed,
           insertReleaseIntoDatabase, DeleteReleaseAgain, PrepareService, AddService, DeleteHelmReleaseAgain,
           SyncHelmReleaseWithK8s, SyncList, SyncModels, SyncNext, DeleteHelmReleaseAction,
           DeleteHelmReleaseByProjectAction, DeleteNext, DeleteRelease, DeleteHelmRelease
<1>. QED  BY <1>1, <1>2, <1>3, <1>4

Covered(s) ==
    \/ \E r \in rows : r.name = s.of /\ Covers(r, s)
    \/ \E c \in Clients : pc[c] = "deleteServices" /\ req[c].name = s.of /\ Covers(req[c].row, s)

\* A service that is added is in the manifest of the row its request inserted.
LEMMA AddedCovered ==
    ASSUME TypeInv, RecordInv, NEW c \in Clients, AddService(c), NEW s \in services' \ services,
           s.of \notin disturbed
    PROVE  \E r \in rows' : r.name = s.of /\ Covers(r, s)
<1>1. Shape(pc[c], req[c]) /\ req[c] \in Request
    BY DEF TypeInv, ProcInv
<1>2. PICK w \in req[c].adds : s = [id |-> lastService', project |-> req[c].project, name |-> w.name,
                                    source |-> "helm", of |-> req[c].name]
    BY DEF AddService, serviceVars
<1>3. /\ pc[c] = "services" /\ req[c].name \in Names /\ req[c].row.project = req[c].project
      /\ w \in matchedServiceAndWorkload(req[c].row.infos)
    BY <1>1 DEF AddService, Shape
<1>4. Concerns(c, req[c].name) /\ req[c].name = s.of
    BY <1>2, <1>3 DEF Concerns
<1>5. RecordedAs(s.of, req[c].row)
    BY <1>3, <1>4 DEF RecordInv, Phase
<1>6. req[c].row \in rows /\ req[c].row.name = s.of
    BY <1>5 DEF RecordedAs, Models, GetHelmReleaseByName
<1>7. Covers(req[c].row, s) /\ rows' = rows
    BY <1>2, <1>3 DEF Covers, AddService, releaseVars
<1>. QED  BY <1>6, <1>7

\* A row stays, but for the two statements that delete rows: the one after a failure, and the one of a
\* deletion, which is about to delete the row's services.
LEMMA ClientCovers ==
    ASSUME TypeInv, NEW c \in Clients, ClientStep(c), NEW s \in services' \cap services, Covered(s),
           s.of \notin disturbed'
    PROVE  \/ \E r \in rows' : r.name = s.of /\ Covers(r, s)
           \/ \E d \in Clients : pc'[d] = "deleteServices" /\ req'[d].name = s.of /\ Covers(req'[d].row, s)
<1>1. Shape(pc[c], req[c]) /\ RowKnown(req[c].row)
    BY DEF TypeInv, ProcInv, Fits
<1>2. ASSUME NEW r \in rows \ rows', r.name = s.of, Covers(r, s)
      PROVE  pc'[c] = "deleteServices" /\ req'[c].name = s.of /\ Covers(req'[c].row, s)
    <2>1. (DeleteHelmReleaseAgain(c) \/ DeleteHelmRelease(c)) /\ r.id = req[c].row.id
        BY <1>2, ClientTables DEF DeleteHelmReleaseAgain, DeleteHelmRelease
    <2>2. r = req[c].row
        BY <1>1, <2>1 DEF RowKnown
    <2>3. req[c].row.name = req[c].name
        BY <1>1, <2>1 DEF Shape, DeleteHelmReleaseAgain, DeleteHelmRelease
    <2>4. Goto(c, "deleteServices")
        BY <1>2, <2>1, <2>2, <2>3 DEF DeleteHelmReleaseAgain, DeleteHelmRelease, Unrecovered
    <2>. QED  BY <1>2, <2>2, <2>3, <2>4 DEF Goto, TypeInv, ProcInv
<1>3. ASSUME NEW d \in Clients, pc[d] = "deleteServices", req[d].name = s.of, Covers(req[d].row, s)
      PROVE  pc'[d] = "deleteServices" /\ req'[d].name = s.of /\ Covers(req'[d].row, s)
    <2>1. CASE d # c
        BY <1>3, <2>1, ClientMoves
    <2>2. CASE d = c
        <3>1. DeleteServiceByNames(c)
            BY <1>3, <2>2, ClientTables
        <3>2. services' = {t \in services : ~(t.project = req[c].row.project /\ t.name \in
                              {w.name : w \in matchedServiceAndWorkload(req[c].row.infos)})}
            BY <1>3, <2>2, <3>1 DEF DeleteServiceByNames, Unrecovered
        <3>. QED  BY <1>3, <2>2, <3>2 DEF Covers
    <2>. QED  BY <2>1, <2>2
<1>. QED  BY <1>2, <1>3 DEF Covered

LEMMA CoveredInvStep == TypeInv /\ RecordInv /\ CoveredInv /\ [Next]_vars => CoveredInv'
<1> SUFFICES ASSUME TypeInv, RecordInv, CoveredInv, [Next]_vars,
                    NEW s \in services', s.source = "helm", s.of \notin disturbed'
             PROVE  \/ \E r \in rows' : r.name = s.of /\ Covers(r, s)
                    \/ \E c \in Clients : pc'[c] = "deleteServices" /\ req'[c].name = s.of /\ Covers(req'[c].row, s)
    BY DEF CoveredInv, Covers
<1>1. ASSUME s \in services, s.of \notin disturbed PROVE Covered(s)
    BY <1>1 DEF CoveredInv, Covered
<1>2. CASE UNCHANGED vars
    BY <1>1, <1>2 DEF Covered, vars, releaseVars, serviceVars, procVars
<1>3. CASE IdleStep
    <2>1. UNCHANGED <<rows, pc, req, disturbed>>
        BY <1>3 DEF IdleStep, UploadHelmChartAction, DeleteHelmChartAction, DeployService, DeleteService,
                    releaseVars, procVars
    <2>2. s \in services
        BY <1>3 DEF IdleStep, UploadHelmChartAction, DeleteHelmChartAction, DeployService, DeleteService, serviceVars
    <2>. QED  BY <1>1, <2>1, <2>2 DEF Covered
<1>4. ASSUME NEW c \in Clients, ClientStep(c)
      PROVE  \/ \E r \in rows' : r.name = s.of /\ Covers(r, s)
             \/ \E d \in Clients : pc'[d] = "deleteServices" /\ req'[d].name = s.of /\ Covers(req'[d].row, s)
    <2>1. s.of \notin disturbed
        BY <1>4, ClientTables
    <2>2. CASE s \in services
        BY <1>1, <1>4, <2>1, <2>2, ClientCovers
    <2>3. CASE s \notin services
        <3>1. AddService(c)
            BY <1>4, <2>3, ClientTables
        <3>. QED  BY <2>1, <2>3, <3>1, AddedCovered
    <2>. QED  BY <2>2, <2>3
<1>. QED  BY <1>2, <1>3, <1>4, NextSteps

\* There is a release, in the rows and in helm, with whose deletion a service that cannot be deleted
\* on its own page goes.
\* (CheckServiceDeletable, and the names of the row's manifest that DeleteReleaseByReleaseModel goes by.)
THEOREM HelmServicesDeletable == Spec => []HelmServicesAreDeletable
<1>1. TypeInv /\ RecordInv /\ CoveredInv => HelmServicesAreDeletable
    <2> SUFFICES ASSUME TypeInv, RecordInv, CoveredInv, NEW s \in services, s.source = "helm", Settled(s.of)
                 PROVE  \E r \in GetAllHelmReleasesByProjectName(s.project) :
                            /\ r.name = s.of /\ r.name \in HelmReleases
                            /\ \E w \in matchedServiceAndWorkload(r.infos) : w.name = s.name
        BY DEF HelmServicesAreDeletable
    <2>1. \A c \in Clients : pc[c] = "deleteServices" => req[c].name # s.of
        BY DEF Settled, Concerns
    <2>2. PICK r \in rows : r.name = s.of /\ Covers(r, s)
        BY <2>1 DEF CoveredInv, Settled
    <2>3. r.name \in Names
        BY <2>2, TypeInvTyped DEF TypeOK, ReleaseModel
    <2>4. Agreed(s.of)
        BY <2>2, <2>3 DEF RecordInv, Settled
    <2>5. r.name \in HelmReleases
        <3>1. r \in Models(s.of)
            BY <2>2 DEF Models, GetHelmReleaseByName
        <3>. QED  BY <2>2, <2>4, <3>1 DEF Agreed, Unrecorded, RecordedAs, DeployedTo, HelmReleases
    <2>. QED  BY <2>2, <2>5 DEF Covers, GetAllHelmReleasesByProjectName
<1>. QED  BY <1>1, HelmTyped, HelmRecorded, CoveredInvInit, CoveredInvStep, PTL DEF Spec

-----------------------------------------------------------------------------
(* Facts about numbers, finite sets and sequences.  Induction is by a least counterexample, which *)
(* a well-founded order has.                                                                      *)

\* A set of numbers that is not empty has a least one.
LEMMA LeastNumber ==
    ASSUME NEW T, T \subseteq Nat, T # {}
    PROVE  \E m \in T : \A k \in T : m <= k
<1>1. PICK m \in T : \A k \in T : <<k, m>> \notin OpToRel(<, Nat)
    BY NatLessThanWellFounded, WFMin
<1>2. OpToRel(<, Nat) = {ss \in Nat \X Nat : ss[1] < ss[2]}
    BY Zenon DEF OpToRel
<1>3. \A k \in Nat, n \in Nat : <<k, n>> \notin {ss \in Nat \X Nat : ss[1] < ss[2]} => n <= k
    OBVIOUS
<1>4. \A k \in Nat, n \in Nat : <<k, n>> \notin OpToRel(<, Nat) => n <= k
    BY <1>2, <1>3, Zenon
<1>. QED  BY <1>1, <1>4, Zenon

\* Of the subsets of a finite set that are bad, one has no bad subset but itself.
LEMMA LeastSubset ==
    ASSUME NEW S, IsFiniteSet(S), NEW Bad \in SUBSET SUBSET S
    PROVE  Bad = {} \/ \E A \in Bad : \A B \in Bad : B \subseteq A => B = A
<1> SUFFICES ASSUME Bad # {} PROVE \E A \in Bad : \A B \in Bad : B \subseteq A => B = A
    OBVIOUS
<1>1. Bad \subseteq FiniteSubsetsOf(S)
    BY FS_FiniteSubsetsOfFinite
<1>2. PICK A \in Bad : \A B \in Bad : <<B, A>> \notin StrictSubsetOrdering(S)
    BY <1>1, FS_StrictSubsetOrderingWellFounded, WFMin
<1>. QED  BY <1>2 DEF StrictSubsetOrdering

\* A finite set has an element of the greatest number.
LEMMA GreatestNumber ==
    ASSUME NEW S, IsFiniteSet(S), S # {}, NEW number \in [S -> Nat]
    PROVE  \E m \in S : \A x \in S : number[x] <= number[m]
<1> DEFINE Has(A) == \E m \in A : \A x \in A : number[x] <= number[m]
           Bad == {A \in SUBSET S : A # {} /\ ~Has(A)}
<1> SUFFICES ASSUME Bad # {} PROVE FALSE
    BY Zenon
<1>0. Bad \in SUBSET SUBSET S
    OBVIOUS
<1>1. PICK A \in Bad : \A B \in Bad : B \subseteq A => B = A
    <2>. HIDE DEF Bad
    <2>1. Bad = {} \/ \E A \in Bad : \A B \in Bad : B \subseteq A => B = A
        BY ONLY IsFiniteSet(S), <1>0, LeastSubset
    <2>. QED  BY <2>1, Zenon
<1>2. PICK y : y \in A
    BY <1>1
<1>3. CASE A = {y}
    BY <1>1, <1>3
<1>4. CASE A # {y}
    <2>1. A \ {y} \in SUBSET S /\ A \ {y} # {} /\ A \ {y} \subseteq A /\ A \ {y} # A
        BY <1>1, <1>2, <1>4
    <2>2. Has(A \ {y})
        BY <1>1, <2>1
    <2>3. PICK m \in A \ {y} : \A x \in A \ {y} : number[x] <= number[m]
        BY <2>2
    <2>4. \A x \in A : number[x] \in Nat
        BY <1>1
    <2>5. \A x \in A : number[x] <= number[y] \/ number[x] <= number[m]
        BY <2>3, <2>4
    <2>6. CASE number[m] <= number[y]
        <3>1. \A x \in A : number[x] <= number[y]
            BY <1>2, <2>3, <2>4, <2>5, <2>6
        <3>. QED  BY <1>1, <1>2, <3>1
    <2>7. CASE number[y] <= number[m]
        <3>1. \A x \in A : number[x] <= number[m]
            BY <1>2, <2>3, <2>4, <2>5, <2>7
        <3>. QED  BY <1>1, <2>3, <3>1
    <2>. QED  BY <1>2, <2>3, <2>4, <2>6, <2>7
<1>. QED  BY <1>3, <1>4

\* The numbers of a finite set can be listed in their order.
Ordered(list, n) == \A i, j \in 1..n : i < j => list[i] < list[j]

LEMMA OrderedList ==
    ASSUME NEW S, IsFiniteSet(S), S \subseteq Nat
    PROVE  \E list \in [1..Cardinality(S) -> S] : Ordered(list, Cardinality(S))
<1> DEFINE Has(A) == \E list \in [1..Cardinality(A) -> A] : Ordered(list, Cardinality(A))
           Bad == {A \in SUBSET S : ~Has(A)}
<1> SUFFICES ASSUME Bad # {} PROVE FALSE
    BY Zenon
<1>0. Bad \in SUBSET SUBSET S
    OBVIOUS
<1>1. PICK A \in Bad : \A B \in Bad : B \subseteq A => B = A
    <2>. HIDE DEF Bad
    <2>1. Bad = {} \/ \E A \in Bad : \A B \in Bad : B \subseteq A => B = A
        BY ONLY IsFiniteSet(S), <1>0, LeastSubset
    <2>. QED  BY <2>1, Zenon
<1>2. A \subseteq Nat /\ A \subseteq S /\ IsFiniteSet(A) /\ ~Has(A)
    BY <1>1, FS_Subset
<1>3. CASE A = {}
    <2>1. Cardinality(A) = 0
        BY <1>3, FS_EmptySet
    <2>2. [i \in 1..0 |-> i] \in [1..0 -> A] /\ Ordered([i \in 1..0 |-> i], 0)
        BY DEF Ordered
    <2>. QED  BY <1>2, <2>1, <2>2
<1>4. CASE A # {}
    <2>1. PICK m \in A : \A x \in A : x <= m
        <3>1. [x \in A |-> x] \in [A -> Nat]
            BY <1>2
        <3>2. \E m \in A : \A x \in A : [y \in A |-> y][x] <= [y \in A |-> y][m]
            BY <1>2, <1>4, <3>1, GreatestNumber
        <3>. QED  BY <3>2
    <2>. DEFINE B == A \ {m}
                n == Cardinality(B)
    <2>2. n \in Nat /\ Cardinality(A) = n + 1
        <3>1. IsFiniteSet(B) /\ Cardinality(B) = Cardinality(A) - 1
            BY <1>2, <2>1, FS_RemoveElement
        <3>2. Cardinality(A) \in Nat /\ Cardinality(B) \in Nat
            BY <1>2, <3>1, FS_CardinalityType
        <3>. QED  BY <3>1, <3>2
    <2>3. Has(B)
        <3>1. B \in SUBSET S /\ B \subseteq A /\ B # A
            BY <1>2, <2>1
        <3>2. B \notin Bad
            BY <1>1, <3>1
        <3>. QED  BY <3>1, <3>2
    <2>4. PICK before \in [1..n -> B] : Ordered(before, n)
        BY <2>3
    <2>. DEFINE list == [i \in 1..(n + 1) |-> IF i = n + 1 THEN m ELSE before[i]]
    <2>. HIDE DEF n
    <2>5. \A i \in 1..n : list[i] = before[i] /\ before[i] \in A /\ before[i] < m
        <3> SUFFICES ASSUME NEW i \in 1..n
                     PROVE  list[i] = before[i] /\ before[i] \in A /\ before[i] < m
            OBVIOUS
        <3>1. before[i] \in A \ {m}
            BY <2>4
        <3>2. i \in 1..(n + 1) /\ i # n + 1
            BY <2>2
        <3>3. before[i] \in Nat /\ m \in Nat /\ before[i] <= m /\ before[i] # m
            BY <1>2, <2>1, <3>1
        <3>4. before[i] < m
            BY <3>3
        <3>. QED  BY <3>1, <3>2, <3>4
    <2>6. list[n + 1] = m
        BY <2>2
    <2>7. list \in [1..(n + 1) -> A]
        BY <2>1, <2>2, <2>5, <2>6
    <2>. HIDE DEF list
    <2>8. Ordered(list, n + 1)
        <3>1. ASSUME NEW i \in 1..(n + 1), NEW j \in 1..(n + 1), i < j PROVE list[i] < list[j]
            <4>1. i \in 1..n
                BY <2>2, <3>1
            <4>2. CASE j = n + 1
                BY <2>5, <2>6, <4>1, <4>2
            <4>3. CASE j # n + 1
                <5>1. j \in 1..n
                    BY <2>2, <4>3
                <5>. QED  BY <2>4, <2>5, <3>1, <4>1, <5>1 DEF Ordered
            <4>. QED  BY <4>2, <4>3
        <3>. QED  BY <3>1 DEF Ordered
    <2>. QED  BY <1>2, <2>2, <2>7, <2>8
<1>. QED  BY <1>3, <1>4

-----------------------------------------------------------------------------
(* The pages of a list, one after the other, are the list. *)

\* What FlattenSeq gives is the last of the sequences joined so far.
Joins(f, seqs, n) == f = [i \in 1..n |-> IF i = 1 THEN seqs[i] ELSE f[i - 1] \o seqs[i]]

LEMMA FlattenIs ==
    ASSUME NEW seqs, NEW n \in Nat \ {0}, Len(seqs) = n,
           NEW f, Joins(f, seqs, n)
    PROVE  FlattenSeq(seqs) = f[n]
<1> DEFINE Joined(g) == g = [i \in 1..Len(seqs) |-> IF i = 1 THEN seqs[i] ELSE g[i - 1] \o seqs[i]]
           flat == CHOOSE g : Joined(g)
<1>1. FlattenSeq(seqs) = flat[Len(seqs)]
    BY Zenon DEF FlattenSeq
<1>2. Joined(f)
    BY DEF Joins
<1>3. Joined(flat)
    <2>. HIDE DEF Joined
    <2>. QED  BY <1>2
<1>. HIDE DEF flat
<1>4. \A i \in 1..n : flat[i] = IF i = 1 THEN seqs[i] ELSE flat[i - 1] \o seqs[i]
    BY <1>3
<1>5. \A i \in 1..n : f[i] = IF i = 1 THEN seqs[i] ELSE f[i - 1] \o seqs[i]
    BY <1>2
<1>. DEFINE Apart == {i \in 1..n : flat[i] # f[i]}
<1>6. Apart = {}
    <2>. SUFFICES ASSUME Apart # {} PROVE FALSE
        OBVIOUS
    <2>1. PICK i \in Apart : \A j \in Apart : i <= j
        <3>1. Apart \subseteq Nat
            OBVIOUS
        <3>. HIDE DEF Apart
        <3>. QED  BY <3>1, LeastNumber
    <2>2. i \in 1..n /\ flat[i] # f[i]
        BY <2>1
    <2>3. i # 1
        BY <1>4, <1>5, <2>2
    <2>4. i - 1 \in 1..n /\ ~(i <= i - 1)
        BY <2>2, <2>3
    <2>5. flat[i - 1] = f[i - 1]
        BY <2>1, <2>4
    <2>6. flat[i] = flat[i - 1] \o seqs[i] /\ f[i] = f[i - 1] \o seqs[i]
        BY <1>4, <1>5, <2>2, <2>3
    <2>. QED  BY <2>2, <2>5, <2>6
<1>7. n \in 1..n
    OBVIOUS
<1>. QED  BY <1>1, <1>6, <1>7

\* Which part of a list of n elements a page is: all before the last are full.
LEMMA PageEnds ==
    ASSUME NEW n \in Nat, NEW size \in 1..3, NEW i \in 1..(n + 1)
    PROVE  /\ GetPageCount(n, size) \in Nat
           /\ i < GetPageCount(n, size) => i * size < n
           /\ i = GetPageCount(n, size) => (i - 1) * size < n /\ n <= i * size
           /\ i > GetPageCount(n, size) => n <= (i - 1) * size
           /\ (i - 1) * size \in Nat /\ i * size \in Nat /\ (i - 1) * size <= i * size
           /\ n <= (n + 1) * size
<1>1. CASE size = 1
    BY <1>1 DEF GetPageCount
<1>2. CASE size = 2
    BY <1>2 DEF GetPageCount
<1>3. CASE size = 3
    BY <1>3 DEF GetPageCount
<1>. QED  BY <1>1, <1>2, <1>3

\* (paginateHelmRepositoryDetail, with a short last page and none after it.)
LEMMA PagesJoin ==
    ASSUME NEW X, NEW list \in Seq(X), NEW size \in 1..3
    PROVE  FlattenSeq([i \in 1..(Len(list) + 1) |-> paginateHelmRepositoryDetail(list, i, size)]) = list
<1> DEFINE n      == Len(list)
           End(i) == IF i * size < n THEN i * size ELSE n
           page   == [i \in 1..(n + 1) |-> paginateHelmRepositoryDetail(list, i, size)]
           joined == [i \in 1..(n + 1) |-> SubSeq(list, 1, End(i))]
<1>1. n \in Nat /\ Len(page) = n + 1
    OBVIOUS
<1>2. \A i \in 1..(n + 1) : page[i] = SubSeq(list, End(i - 1) + 1, End(i)) /\ End(i - 1) \in 0..n /\ End(i) \in End(i - 1)..n
    <2>. SUFFICES ASSUME NEW i \in 1..(n + 1)
                  PROVE  /\ page[i] = SubSeq(list, End(i - 1) + 1, End(i))
                         /\ End(i - 1) \in 0..n /\ End(i) \in End(i - 1)..n
        OBVIOUS
    <2>. DEFINE pages == GetPageCount(n, size)
                from  == (i - 1) * size
                to    == i * size
    <2>1. /\ pages \in Nat /\ from \in Nat /\ to \in Nat /\ from <= to
          /\ i < pages => to < n
          /\ i = pages => from < n /\ n <= to
          /\ i > pages => n <= from
        BY <1>1, PageEnds
    <2>2. page[i] = IF i < pages THEN SubSeq(list, from + 1, to)
                    ELSE IF i = pages THEN SubSeq(list, from + 1, n)
                    ELSE <<>>
        BY DEF paginateHelmRepositoryDetail
    <2>3. End(i - 1) = (IF from < n THEN from ELSE n) /\ End(i) = (IF to < n THEN to ELSE n)
        OBVIOUS
    <2>. HIDE DEF page, pages, from, to, n, End
    <2>4. End(i - 1) \in 0..n /\ End(i) \in End(i - 1)..n
        BY <1>1, <2>1, <2>3
    <2>5. CASE i < pages
        <3>1. End(i - 1) = from /\ End(i) = to
            BY <1>1, <2>1, <2>3, <2>5
        <3>. QED  BY <2>2, <2>4, <2>5, <3>1
    <2>6. CASE i = pages
        <3>1. End(i - 1) = from /\ End(i) = n
            BY <1>1, <2>1, <2>3, <2>6
        <3>. QED  BY <2>2, <2>4, <2>6, <3>1
    <2>7. CASE i > pages
        <3>1. End(i - 1) = n /\ End(i) = n
            BY <1>1, <2>1, <2>3, <2>7
        <3>2. SubSeq(list, n + 1, n) = <<>>
            BY <1>1, SubSeqEmpty
        <3>3. page[i] = <<>>
            BY <2>1, <2>2, <2>7
        <3>. QED  BY <2>4, <3>1, <3>2, <3>3
    <2>8. i \in Nat /\ pages \in Nat
        BY <1>1, <2>1
    <2>. QED  BY <2>5, <2>6, <2>7, <2>8
<1>3. End(0) = 0 /\ End(n + 1) = n
    <2>1. 0 * size = 0
        OBVIOUS
    <2>2. End(0) = IF 0 < n THEN 0 ELSE n
        BY <2>1
    <2>3. n + 1 \in 1..(n + 1)
        BY <1>1
    <2>4. n <= (n + 1) * size /\ (n + 1) * size \in Nat
        BY <1>1, <2>3, PageEnds
    <2>5. End(n + 1) = IF (n + 1) * size < n THEN (n + 1) * size ELSE n
        OBVIOUS
    <2>. HIDE DEF n, End
    <2>6. End(0) = 0
        BY <1>1, <2>2
    <2>7. \A m \in Nat : n <= m => ~(m < n)
        BY <1>1
    <2>8. End(n + 1) = n
        BY <2>4, <2>5, <2>7
    <2>. QED  BY <2>6, <2>8
<1>. HIDE DEF page, End
<1>4. \A i \in 1..(n + 1) : joined[i] = IF i = 1 THEN page[i] ELSE joined[i - 1] \o page[i]
    <2>. SUFFICES ASSUME NEW i \in 1..(n + 1)
                  PROVE  joined[i] = IF i = 1 THEN page[i] ELSE joined[i - 1] \o page[i]
        OBVIOUS
    <2>1. joined[i] = SubSeq(list, 1, End(i))
        OBVIOUS
    <2>2. CASE i = 1
        <3>1. i - 1 = 0 /\ 0 + 1 = 1
            BY <2>2
        <3>2. End(i - 1) + 1 = 1
            BY <1>3, <3>1
        <3>3. page[i] = SubSeq(list, End(i - 1) + 1, End(i))
            BY <1>2
        <3>. QED  BY <2>1, <2>2, <3>2, <3>3
    <2>3. CASE i # 1
        <3>1. i - 1 \in 1..(n + 1)
            BY <1>1, <2>3
        <3>2. joined[i - 1] = SubSeq(list, 1, End(i - 1))
            BY <3>1
        <3>3. /\ 1 \in 1..(n + 1) /\ End(i - 1) \in (1 - 1)..n /\ End(i) \in End(i - 1)..n
            BY <1>1, <1>2
        <3>4. SubSeq(list, 1, End(i - 1)) \o SubSeq(list, End(i - 1) + 1, End(i)) = SubSeq(list, 1, End(i))
            BY <3>3, ConcatAdjacentSubSeq
        <3>. QED  BY <1>2, <2>1, <2>3, <3>2, <3>4
    <2>. QED  BY <2>2, <2>3
<1>5. Joins(joined, page, n + 1)
    <2>1. joined = [i \in 1..(n + 1) |-> joined[i]]
        OBVIOUS
    <2>. HIDE DEF joined
    <2>2. joined = [i \in 1..(n + 1) |-> IF i = 1 THEN page[i] ELSE joined[i - 1] \o page[i]]
        BY <1>4, <2>1
    <2>. QED  BY <2>2 DEF Joins
<1>6. joined[n + 1] = SubSeq(list, 1, n)
    <2>1. n + 1 \in 1..(n + 1)
        BY <1>1
    <2>. QED  BY <1>3, <2>1
<1>. HIDE DEF joined
<1>7. FlattenSeq(page) = joined[n + 1]
    <2>1. n + 1 \in Nat \ {0}
        BY <1>1
    <2>2. Len(page) = n + 1
        BY <1>1
    <2>. HIDE DEF n
    <2>. QED  BY ONLY <1>5, <2>1, <2>2, FlattenIs
<1>8. SubSeq(list, 1, n) = list
    BY SubSeqFull
<1>. QED  BY <1>6, <1>7, <1>8 DEF page

\* The names of a repository's charts are a finite set of numbers.
LEMMA NamesFinite ==
    ASSUME TypeInv, NEW r \in Repositories
    PROVE  LET names == {c.name : c \in NewChartRepository(r)} IN IsFiniteSet(names) /\ names \subseteq Nat
<1> DEFINE names == {c.name : c \in index[r]}
           name  == [c \in index[r] |-> c.name]
<1>1. index[r] \subseteq Charts
    BY TypeInvTyped DEF TypeOK
<1>2. IsFiniteSet(index[r])
    BY <1>1, HelmAssumption, FS_Subset
<1>3. name \in Surjection(index[r], names)
    BY DEF Surjection
<1>4. IsFiniteSet(names)
    <2>. HIDE DEF name, names
    <2>. QED  BY <1>2, <1>3, FS_Surjection
<1>5. names \subseteq Nat
    BY <1>1, HelmAssumption
<1>. QED  BY <1>4, <1>5 DEF NewChartRepository

\* GetRepoDetail has a list to choose: of all the names, in their order.
LEMMA RepoDetailIsList ==
    ASSUME TypeInv, NEW r \in Repositories
    PROVE  LET names == {c.name : c \in NewChartRepository(r)} IN
           /\ GetRepoDetail(r) \in [1..Cardinality(names) -> names]
           /\ Cardinality(names) \in Nat
           /\ Range(GetRepoDetail(r)) = names
<1> DEFINE names   == {c.name : c \in NewChartRepository(r)}
           D       == 1..Cardinality(names)
           InOrder(l) == \A i, j \in D : i < j => l[i] < l[j]
<1>1. IsFiniteSet(names) /\ names \subseteq Nat
    BY NamesFinite
<1>2. GetRepoDetail(r) = CHOOSE list \in [D -> names] : InOrder(list)
    BY DEF GetRepoDetail
<1>. HIDE DEF names
<1>3. Cardinality(names) \in Nat
    BY <1>1, FS_CardinalityType
<1>4. \E list \in [D -> names] : InOrder(list)
    BY <1>1, OrderedList DEF Ordered
<1>5. GetRepoDetail(r) \in [D -> names] /\ InOrder(GetRepoDetail(r))
    <2>. HIDE DEF D, InOrder
    <2>. QED  BY <1>2, <1>4
<1>. DEFINE list == GetRepoDetail(r)
<1>. HIDE DEF list
<1>6. names \subseteq Range(list)
    <2>. SUFFICES ASSUME NEW n \in names, n \notin Range(list) PROVE FALSE
        OBVIOUS
    <2>1. list \in [D -> names] /\ DOMAIN list = D
        BY <1>5 DEF list
    <2>2. list \in [D -> names \ {n}]
        BY <2>1 DEF Range
    <2>3. IsFiniteSet(names \ {n}) /\ Cardinality(names \ {n}) = Cardinality(names) - 1
        BY <1>1, FS_RemoveElement
    <2>4. IsFiniteSet(D) /\ Cardinality(D) = Cardinality(names)
        <3>1. IsFiniteSet(1..Cardinality(names)) /\ Cardinality(1..Cardinality(names)) =
                  IF 1 > Cardinality(names) THEN 0 ELSE Cardinality(names) - 1 + 1
            BY <1>3, FS_Interval
        <3>. QED  BY <1>3, <3>1
    <2>5. Cardinality(names \ {n}) < Cardinality(D)
        BY <1>3, <2>3, <2>4
    <2>6. PICK i, j \in D : i # j /\ list[i] = list[j]
        <3>. HIDE DEF D
        <3>. QED  BY <2>2, <2>3, <2>4, <2>5, FS_PigeonHole
    <2>7. \A k, l \in D : k < l => list[k] < list[l]
        BY <1>5 DEF list
    <2>8. list[i] \in Nat /\ list[j] \in Nat /\ i \in Nat /\ j \in Nat
        <3>1. i \in Nat /\ j \in Nat
            BY <1>3, <2>6
        <3>2. list[i] \in names /\ list[j] \in names
            <4>. HIDE DEF D
            <4>. QED  BY <2>1, <2>6
        <3>. QED  BY <1>1, <3>1, <3>2
    <2>9. i < j \/ j < i
        BY <2>6, <2>8
    <2>10. list[i] < list[j] \/ list[j] < list[i]
        BY <2>6, <2>7, <2>9
    <2>. QED  BY <2>6, <2>8, <2>10
<1>7. Range(list) \subseteq names
    BY <1>5 DEF list, Range
<1>. QED  BY <1>3, <1>5, <1>6, <1>7 DEF list, names

\* Of a chart that has a release one version is fetched, of any other none.
LEMMA LatestIsOne ==
    ASSUME TypeInv, NEW r \in Repositories, NEW name
    PROVE  Cardinality(GetHelmChartDetailAction(r, name, 0)) =
               IF \E c \in VersionsOf(NewChartRepository(r), name) : c.form = "release" THEN 1 ELSE 0
<1> DEFINE versions == {c \in VersionsOf(NewChartRepository(r), name) : c.form = "release"}
           number   == [c \in versions |-> c.version]
<1>1. versions \subseteq Charts /\ \A c \in versions : c.name = name
    BY TypeInvTyped DEF TypeOK, NewChartRepository, VersionsOf
<1>2. IsFiniteSet(versions)
    BY <1>1, HelmAssumption, FS_Subset
<1>3. number \in [versions -> Nat] /\ \A c \in versions : number[c] = c.version
    BY <1>1, HelmAssumption
<1>4. GetHelmChartDetailAction(r, name, 0) = {c.infos : c \in Newest(versions)}
    BY DEF GetHelmChartDetailAction, FetchChart, Get
<1>5. (\E c \in VersionsOf(NewChartRepository(r), name) : c.form = "release") <=> versions # {}
    OBVIOUS
<1>. HIDE DEF versions, number
<1>6. CASE versions = {}
    <2>1. {c.infos : c \in Newest(versions)} = {}
        BY <1>6 DEF Newest
    <2>. QED  BY <1>4, <1>5, <1>6, <2>1, FS_EmptySet
<1>7. SUFFICES ASSUME versions # {} PROVE Cardinality({c.infos : c \in Newest(versions)}) = 1
    BY <1>4, <1>5, <1>6
<1>8. PICK c \in versions : \A d \in versions : number[d] <= number[c]
    BY <1>2, <1>3, <1>7, GreatestNumber
<1>9. c \in Newest(versions)
    BY <1>3, <1>8 DEF Newest
<1>10. \A d \in Newest(versions) : d = c
    <2>. SUFFICES ASSUME NEW d \in Newest(versions) PROVE d = c
        OBVIOUS
    <2>1. d \in versions /\ c.version <= d.version /\ d.version <= c.version
        BY <1>3, <1>8 DEF Newest
    <2>2. c.version \in Nat /\ d.version \in Nat
        BY <1>1, <2>1, HelmAssumption
    <2>3. c.version = d.version
        BY <2>1, <2>2
    <2>. QED  BY <1>1, <2>1, <2>3, HelmAssumption
<1>11. {d.infos : d \in Newest(versions)} = {c.infos}
    BY <1>9, <1>10
<1>. QED  BY <1>11, FS_Singleton

\* The pages of a repository's charts, one after the other, are the list of its charts, all of them,
\* and of a listed chart one is fetched when no version is asked for, if it has a release at all.
\* (paginateHelmRepositoryDetail, SortEntries, Get.)
THEOREM PagesCovered == Spec => []PagesCoverIndex
<1>1. TypeInv => PagesCoverIndex
    <2> SUFFICES ASSUME TypeInv, NEW r \in Repositories, NEW size \in 1..3
                 PROVE  LET list == GetHelmRepoDetailAction(r, 0, 0) IN
                        /\ FlattenSeq([i \in 1..(Len(list) + 1) |-> GetHelmRepoDetailAction(r, i, size)]) = list
                        /\ Range(list) = {c.name : c \in NewChartRepository(r)}
                        /\ \A i \in DOMAIN list :
                              Cardinality(GetHelmChartDetailAction(r, list[i], 0)) =
                                  IF \E c \in VersionsOf(NewChartRepository(r), list[i]) : c.form = "release"
                                  THEN 1 ELSE 0
        BY DEF PagesCoverIndex
    <2> DEFINE list  == GetRepoDetail(r)
               names == {c.name : c \in NewChartRepository(r)}
    <2>1. GetHelmRepoDetailAction(r, 0, 0) = list
        BY DEF GetHelmRepoDetailAction
    <2>2. \A i : GetHelmRepoDetailAction(r, i, size) = paginateHelmRepositoryDetail(list, i, size)
        <3>1. size # 0
            OBVIOUS
        <3>. QED  BY <3>1, Zenon DEF GetHelmRepoDetailAction
    <2>3. list \in [1..Cardinality(names) -> names] /\ Cardinality(names) \in Nat /\ Range(list) = names
        BY RepoDetailIsList
    <2>. HIDE DEF list, names
    <2>4. list \in Seq(names)
        BY <2>3
    <2>5. FlattenSeq([i \in 1..(Len(list) + 1) |-> paginateHelmRepositoryDetail(list, i, size)]) = list
        BY <2>4, PagesJoin
    <2>6. [i \in 1..(Len(list) + 1) |-> GetHelmRepoDetailAction(r, i, size)]
              = [i \in 1..(Len(list) + 1) |-> paginateHelmRepositoryDetail(list, i, size)]
        BY <2>2, Zenon
    <2>7. \A i \in DOMAIN list :
              Cardinality(GetHelmChartDetailAction(r, list[i], 0)) =
                  IF \E c \in VersionsOf(NewChartRepository(r), list[i]) : c.form = "release" THEN 1 ELSE 0
        BY LatestIsOne
    <2>. QED  BY <2>1, <2>3, <2>5, <2>6, <2>7 DEF names
<1>. QED  BY <1>1, HelmTyped, PTL
==============================================================================
