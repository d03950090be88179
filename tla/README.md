# A verification of Board

Board is a platform for services on Kubernetes: an API server (Go, beego) with a
MySQL database, a git server, an image registry and one Kubernetes cluster, and
an admin server that installs the platform and adds nodes to the cluster. The
TLA+ modules beside this file model the parts of it that change state in more
than one place; TLC checks them on small instances and TLAPS proves the most
important of their properties for every instance.

Paths are relative to `src/src/`. "SC" is `apiserver/v1/controller/service.go`.

## 1. What the system consists of

Every HTTP request runs in a goroutine of its own. Handlers take no lock and
open no transaction: each talks to the database, the cluster and the git server
one call at a time, and an error ends it by a panic (`CustomAbort`), with nothing
undone that it has not undone itself. So the hard behaviours are the same
nearly everywhere: *a request that fails between two calls*, *two requests whose
calls interleave*, *a value read by one call and used by a later one*, and *two
systems that must agree about the same name*.

| Component | State it keeps | Operations | What makes it correct |
|---|---|---|---|
| Services | `service_status`, `service_auto_scale`; Deployments, StatefulSets, Services, HPAs of the cluster | deploy, start, stop, delete, cancel, list (which synchronises), import, autoscale | what runs is known to the table; the table moves as its readers expect; listing converges |
| Service wizard | a `ConfigServiceStep` per user, behind a pointer in a memory cache | one handler per page; deploy, test, go back | what is deployed is what was entered; a name that was checked is free |
| Rolling update, scaling, session affinity, config maps | nothing but objects of the cluster, files on disk, repositories in GitLab | patch, put, scale, save, push, merge, start again | an edit changes what it is for, and is not lost on the way to the file and back |
| Kubernetes client | nothing; each object is copied into a structure of the program and back | one client per kind | what is copied of an object is enough for what is done with the copy |
| Projects and members | `project`, `project_member`; namespaces | create, delete, add and remove members; synchronisation at start | names unique; a project has its namespace; no namespace goes under a service; a removal removes one membership |
| Git repository jobs | repositories, hooks, files in GitLab; a goroutine and two channels per call | `CreateRepoAndJob` | a caller gets an answer, and the true one; the process survives |
| Nodes, node groups (API server) | labels and the switch of nodes; `node_group` | add, remove, label, suspend, resume, drain; groups | edits do not undo each other; rows and labels agree; a drained node stays empty |
| Node manager (admin server) | `node_log`, `node_log_detail_info`, `node_status` (SQLite); a cache entry per node as its lock | add, remove, callback, delete log | one action per node; locks are released; logs completed; `node_status` true |
| Jobs, volumes, claims | `job_status`, `persistent_volume` and its options, `persistent_volume_claim`; cluster objects | add, remove, list, take over at start | rows and objects agree |
| Helm | `repository`, `release`; rows of services with source "helm"; helm's own releases | install, delete, synchronise; read an index | a release has its row, its services can be deleted |
| Initialiser of the API server | four `config` rows; an error channel | chain of goroutines at boot | errors are received; statuses say what happened |
| Accounts, sessions | `user`; token cache | sign up, sign in and out | a token belongs to its user until sign-out |
| Images, dashboard, e-mail, shell, UI | little or nothing of their own | | |

Components interact through shared tables (the services handlers read
`project_member` through the caller's privileges; deleting a project asks for its
services), through the cluster (namespaces and objects by name), and through
three calls between processes: API server to GitLab, admin server to API server,
container to admin server (`/node/callback`).

The complete list, with the parts that are left out and why, is `components` in
`PROJECT.json`; the places where the code is exposed to what a test would hardly
reach are its `hazards`.

## 2. Modules

| Module | What it is | Run by |
|---|---|---|
| `ServiceLifecycle` | handlers of `SC` and `servicedeploy.go`, `serviceconfig.go` | `ServiceDeployRace`, `ServiceListing` |
| `ServiceRows` | abstract: what the table of services promises its readers | property `RowsImplemented` |
| `ServiceSerial` | the inductive invariant of requests that do not overlap | `ServiceSerial` |
| `Wizard` | the wizard's steps in the cache, and what is deployed of them | `Wizard` |
| `K8sConvert` | the structures of `model/k8scli.go` and the conversions of `convert.go` as sets of fields | `ClusterObjects` |
| `K8sClients` | extends it: the client of each kind, its methods and the conversions they use | `ClusterObjects` |
| `WizardObjects` | extends it: the objects the server builds of what users enter | `ClusterObjects` |
| `ClusterObjects` | extends it: one field of one object, edited, saved, stopped, merged and started again | `ClusterObjects` |
| `Projects` | handlers of projects and members, restart, synchronisation | `Projects`, `ProjectsMemberRemoval` |
| `RepoJob` | `CreateRepoAndJob` and its goroutine | `RepoJob` |
| `ClusterNodes` | nodes, edge nodes and node groups of the API server | `ClusterNodes` |
| `NodeManager` | the admin server's node controller and service | `NodeManager` |
| `StoredObjects` | jobs, persistent volumes, claims: one pattern, three orders of calls | `StoredObjects` |
| `Helm` | repositories, releases, their rows and services | `Helm` |
| `MC*` | model values, symmetry | |
| `*_proofs` | theorems and proofs; `ClusterObjects_proofs` also those of `RepoJob` | TLAPS |

In every component module a handler is a small process. `pc` holds the call it
makes next, `req` what it has in its local variables. The action that begins a
request is named after the controller's method; it takes the early returns and
reads what the method reads before its first remote call. Every later action is
one call to the database, the cluster, the git server or the cache, with its
failure as a disjunct. What happens in the code between two calls, and cannot be
observed by others, belongs to the action of the call before. Operators whose
comment begins with "Variant:" are mistakes one could make in the definition that
follows; the specification does not use them. They stand for plausible bugs, and
each property is violated when its definition is replaced by such a variant.

### Services

`live`, `row` and `nextId` are the table; `dep`, `sts`, `svc`, `hpaK8s` the
namespace of one project, `hpaDb` the autoscaling records (a service's id and the
rule's name), `strayed` the autoscalers whose record went in a request that looked for
them in another project, `step` the wizard's step at the page that deploys. `Cluster(n)` is the cluster's own progress: pods
start, fall short and get ready, deleted workloads go in time.

| Code | Actions |
|---|---|
| `DeployServiceAction`, `DeployStatefulSetAction`, `UploadYamlFileAction` | same names, then `CreateWorkload`, `CreateService`, `UndoWorkload`, `PushItemsToRepo`, `MarkDeployed` |
| `ToggleServiceAction` | `ToggleStart`, `ToggleStop`, `DeleteWorkload`, `DeleteService`, `MarkStopped`, `MarkRunning` |
| `DeleteServiceAction`, `DeleteStatefulSetAction`, `DeleteDeployAction` | the same calls, then `ListHpas`, `DeleteHpa` and `DeleteHpaDb` per rule, `HpasDeleted`, `DeleteRow`; `CancelRow`, `CancelStep` |
| `GetServiceListAction`, `syncK8sStatus` | a snapshot in `todo`, then `SyncWorkload`, `SyncService`, `SyncWrite` per row |
| `ImportServicesAction` | `ImportServicesAction`, `SyncServiceData` |
| `CreateAutoScaleAction`, `DeleteAutoScaleAction` | `CreateHpa`, `InsertHpa`; `DeleteHpa`, `DeleteHpaDb`. A rule is deleted through any service of the project; `DeleteAutoScaleAcross` is the same request with a service of one project and a rule of another |

The git server is GitLab (`make/board.cfg:23`). What a repository contains is
data, so whether a service's files are found when it is started is a free
choice; an Edge service has no `service.yaml`, so its start always fails at
that file. A yaml deploys under the name of its service. The database does not
fail. A user has one request at a time. Nameless rows of
`CreateServiceConfigAction` and publicity are left out; the test deployment is in
`Wizard`, scaling and rolling updates in `ClusterObjects`, services of a chart in
`Helm`; `DeleteServiceConfigAction` and `DeleteDeploymentAction` are not routed. A second API (`apiserver/controllers`)
has handlers refactored from these and is not modelled.

### Service wizard

A step is a cell of `heap`, and `cache` has for each user the number of a cell or
0: the code keeps a pointer in beego's memory cache and every request fetches it
and then works on what it points to, also after the step has expired or was
replaced. `Tabs` says whose requests run side by side: two of one user, or one of
each of two. Each phase is an action (`selectProject`, `configContainerList`,
`configInitContainerList`, `configExternalService`, `configEntireService`), the
name's check another before it (`checkServiceDuplicateName`), and a deployment
the sequence `CreateServiceConfig` (the row), `CreateWorkload`, `CreateService`,
`UpdateService`, `CleanStep`. `DeployServiceTestAction` puts "test" before the
name of the step in the cache, each time it is called. `DeleteDeployAction` is the
way back. What is entered is one name and one container per list: the checks of
forms and of uploaded files are text, and refuse before anything is stored.

### Kubernetes client, rolling updates, config maps

The program never holds an object of Kubernetes. `FromK8s...` copies it into a
structure of `model/k8scli.go`, `ToK8s...` makes an object of such a structure, and
`Generate...Config` the one that is written to a file. `K8sConvert` has, for each
structure, the set of fields it has room for, and for each conversion the set of
fields it copies; a field is a path. `K8sClients` says which methods the client of
a kind has and which conversions they go through, and which read before they
write (`laid`). `WizardObjects` says which fields the server itself gives a value.

`ClusterObjects` chooses one field of one kind and follows it: `Seen` is what a
caller sees of it, `Sent` what reaches the cluster of a caller's object. Requests
create, roll (a strategic merge patch of the containers), change the node group
(a put of the whole copy), set the session affinity, scale, stop, start and remove;
`GenerateFile`, `PushItemsToRepo` and `CollaborateWithPullRequest` save a service;
a start merges what is open (`MergeCollaborativePullRequest`) and deploys what
the repository has (`DeployServiceByYaml`). Owner and member of a project have a
repository each. Config maps, autoscalers, nodes, volumes and claims are read, laid
over and put with the version that was read.

### Nodes and node groups

`node[n]` is the object with its version; `Edit` is the change of a request to its
copy, and `UpdateGet`, `UpdatePut` are the two calls of the client's `nodes.Update`,
which reads again, lays labels, switch and taints over what it read, and puts that. An
accepted put counts, whether its answer arrives or not. A group is
a row and a label. `RemoveNodeGroup` lists the nodes, looks at each, and deletes
the row last. Edge nodes are asked for their host name over ssh first. A deleted pod is
`dying` until kubelet has ended it, and is listed so long. `Schedule`, `ForeignWrite`,
`TaintWrite` and `PodEnds` are the rest of the cluster; `crossed` remembers the nodes that others
tainted, or that were made anew, while an edit was between its two readings. Others write
neither labels nor the switch in the model: what the code does to the taints it would do to those.
Pods of the system's namespaces, which a drain passes over, are left out.

### Jobs, volumes, claims

`kind` is chosen in the initial state: the three share the steps and differ in
their order. A job's row comes before its object, a volume's and a claim's
after; a job's removal gives up when the cluster fails, the others do not.
`ListJobs`, `SyncJobK8sStatus`, `WriteStatus` are the list that writes statuses
(and hands the reason of one job on to the next), `Sync`, `ListK8sJobs`,
`SyncJobData` the take-over at a start of the server. `object[key]` numbers the
objects so that one made later under the same name is another object. A request for a
job has the id of a project, for the row (`key`), and the name of one, for the object
(`at`); they may be two.

### Helm

`helm` is what tiller has, `rows` the table of releases, `services` that of
services. An installation is `InstallHelmChartAction` (the name in the table),
`CheckReleaseNames` (in helm), `DownloadChart`, `InstallChart` ("upgrade
--install"), `insertReleaseIntoDatabase`, `PrepareService` and `AddService` for each
workload that has a Service of its name; `PurgeFailed`, `DeleteReleaseAgain` and
`DeleteHelmReleaseAgain` are what failures undo. `SyncHelmReleaseWithK8s` is the
take-over at a start. Charts, versions and manifests are values, a version being a
release, a pre-release or a string that does not parse; an index and its
pages are computed by the operators the code's functions are translated into.

### Projects

Two projects, two users, one of them the administrator. `project` and `members`
are the tables; a deleted project is a row whose name is changed (`%name%` in the
code). `service` is one service per project, either still preparing (lists leave
it out) or visible. `kept` is a history variable: the projects a client was told
were created and has not asked to delete; `contested` is another, the names that
were between look-up and insert of two creations at one time. `Restart` stops the
server between any two calls, and its initialiser then runs `SyncNamespaceByOwnerID` and
`SyncProjectsWithK8s`, as the process `Server`, beside the requests of users. Sign-in is
refused until it has finished (`auth.go:19-24`), but a token is a JWT that another
server checks (`base.go:178`), so who was signed in before the restart still is. The
namespaces found at first may be anybody's. The seeded project "library" is not in the
model, services are not public, and the git side of a deletion is left out.

### Git repository jobs

One action per call of the goroutine to GitLab (`CreateRepo`, `CreateHook`,
`CreateFile`), `Select` for its select statement, and `Send` for the meeting of
sender and receiver on the unbuffered channel. `ReceiveClosed` and `SendOnClosed`
are the two consequences of the channel that a failed creation closes; a panic in
a goroutine that nobody recovers ends the process, and `Restart` brings it up
without the calls that were under way. A call to GitLab fails, is refused (the
handlers do not look at the status code, so that is an answer with id 0) or
succeeds, and a call that fails may have had its effect; it has no time limit in the code, and the model lets it end.

### Node manager

`locked` are the nodes with an entry in `GlobalCache`. A request goes through
`AddRemoveNode` (is there an entry?), `Lock` (`Put`), `NewSecureShell`, `InsertLog`,
`LaunchAnsibleContainer`; `RemoveCacheData` is the controller's clean-up after an
error. From the launch on, `job[id]` says where the action of log `id` is: in
the container, or at one of the steps of `UpdateLog` (`GetNodeLog`,
`UpdateNodeLog`, `InsertLogDetail`, `NodeStatus`, `Unlock`) and, for a removal, at
`DeleteNode`. `UpdateLog` is called by the container's callback or by the request
itself when nothing could be launched. `ContainerEnds` is external: the
playbook succeeds or fails, and its callback arrives or does not (it is lost, or
its token has been replaced because another administrator has signed in: state
"unheard"). `UpdateLogFails` is every return of `UpdateLog` before it unlocks the node, and
a log that has been deleted meanwhile is another (state "cut"); an error of
`node_status` is logged only and kept in `unrecorded`. `RemoveNodeAction` is the API
server's own DELETE of a node, which the admin server does not hear of, and `gone`
the addresses that left the cluster with their row still there. `Expire` is the entry's
hour in the cache. `Overlap = FALSE` states what the code does not: requests for a node
do not overlap before their container runs. A read or write of the SQLite tables outside
`UpdateLog` does not fail and the admin server is not restarted in the model; docker's
answer is believed. The two tables of the logs are keyed by the second: the run has two
logs and three seconds, so that both cases occur.

## 3. Runs

| Run | Question | Instance | States |
|---|---|---|---|
| `ServiceSerial` | do rows, objects and rules agree at every call, and does the table implement `ServiceRows`? | 2 users, 1 name, 2 rows, all kinds of request that need no StatefulSet but "cancel", which leaves its service's rules behind; all faults but three, one request at a time | 2,090,000 |
| `ServiceDeployRace` | is a deployment all or nothing when two users deploy one name? | 2 users, 1 name, 3 rows | 209,000 |
| `ServiceListing` | do lists that overlap still converge? (liveness) | 2 users, 1 row | 43,000 |
| `Wizard` | is what was entered deployed, under a name that was free? | 2 requests at a time of one user or of two, 2 projects, 3 requests after an entered step and a service that may be there | 4,240,000 |
| `ClusterObjects` | does a field stay what the last request asked, in the cluster and in the repository? | 36 fields, one at a time; owner and member, 2 requests at a time, 4 in all, 1 write of others; failed calls, failed and refused pushes | 1,600,000 |
| `Projects` | names, namespaces, services and members, with restarts and the initialiser beside the requests | 2 users, one request at a time, 2 projects, 1 name, all kinds of request, all faults | 762,000 |
| `RepoJob` | does every call end, with the right answer? (liveness) | 2 calls, 2 names, all faults | 48,000 |
| `ClusterNodes` | do edits of nodes and groups undo each other or leave something behind? | 2 requests at a time, 3 in all, 2 nodes, one of them a master, 1 group, 1 pod, 1 write of others to the worker; all faults | 625,000 |
| `NodeManager` | locks, logs and `node_status` with every fault, running logs deleted, nodes removed by the API server | 2 clients, 1 node, 2 logs, 3 seconds | 2,080,000 |
| `StoredObjects` | do rows and objects agree, however additions and removals interleave and fail? | jobs, volumes or claims; 2 requests at a time, 3 in all, 2 projects, 1 name, 2 objects; others who make and delete | 1,700,000 |
| `Helm` | do helm, its rows and the services agree once nothing is under way? | 2 requests at a time, 3 in all, 2 projects, 1 release, 2 versions of a chart, 1 failure | 2,600,000 |

`ProjectsMemberRemoval` shows a statement of the documentation that the code does not
keep (`findings` in `PROJECT.json`): removing one membership removes another's. It is
the run with two names, since the two memberships are of two live projects.

**Why the bounds suffice.** Two requests at a time are enough for any interleaving of
two; a third and a fourth, which come before or after, make what the two race for
and find what they left. Two users are enough for any interleaving of two
requests, and nothing in the code counts users. Names matter only as equal or
different, so two suffice where names can be confused and one where the
question is about one name: what the properties of `Projects` say of a name depends
on the requests for that name alone, and section 5 proves them for any number of names. `MaxRows` lets a name be deployed, removed and
deployed again; with three rows two users' rows and a later one coexist.
Project ids 2 and 3 with users 1 and 2 are chosen because the key of a
membership is a sum and 1+3 = 2+2. Two logs let an addition follow a
removal or a removal an addition, the least that can confuse a late report with a
newer action; a node can be removed that was never added. A field is followed alone because no conversion of the
client looks at another field; the 36 have one of each class that differs in being
asked for, read, written or saved. Two versions of a chart tell the latest from the
one that was asked for; one failure at a time is what each compensation is written
for, and two would only show compensations that fail. The passing runs reach every action. Deadlock is not
checked where all bounded rows, logs or calls may be used up (`CHECK_DEADLOCK
FALSE`), and is checked in the others, whose requests can go on for ever.

**Fairness.** `ServiceLifecycle!FairSpec` is weak fairness of `Continue(u)`: a
handler that has begun takes its next step, which is what the Go scheduler and
clients with time limits give. No fairness is assumed of users or of the cluster;
`StatusConverges` therefore speaks of services whose workload stays ready and of
lists that come again and again. `RepoJob!FairSpec` is weak fairness of each
goroutine and of the receipt from a closed channel.

## 4. Properties worth knowing

- `ClusterObjectsAreOwned`: no workload and no k8s Service runs that the table
  does not admit to, whichever call fails. It needs the order of the calls in
  each handler (workload, then Service, then row) and the compensation of
  `DeployService`.
- `HpasAreOwned`: a rule's record and its autoscaler go before the row of the service,
  and through whichever service of the project a rule is deleted, both go; what is
  deleted through a service of another project (`strayed`) is excepted.
- `RowsImplemented`: the status of a row moves only as `ServiceRows` says: a list
  never reveals a preparing service, never revives a stopped one.
- `DeployAllOrNothing`, `PreparingIsPrivate`: under overlap, with the name of the
  workload in the cluster as the only lock.
- `StatusConverges`: lists write what older snapshots told them and still end
  with the truth.
- `EnteredIsDeployed`, `NamesAreUnique`, `UndoRemovesOwn`: the wizard's shared step
  does not mix services of a user who waits for answers; the check of the name
  holds as long as nothing is deployed between it and the row.
- `AskedIsKept`, `RepositoryHasObject`: through every conversion, patch, merge
  request, stop and start, a field is what the last request for it made of it.
- `LiveNamesUnique`: two projects have one name only if both had looked it up before
  either was inserted (`contested`), whether by two users or by a user and the
  initialiser. The run reaches the second, one request being under way at a time; that
  nothing else makes two of a name when requests of users overlap as well is proved
  (`NamesUnique`). `KeptProjectsHaveNamespace`,
  `ServicesKeepNamespace`: for names that are not contested, since either of two
  projects takes the namespace along.
- `ErrorMeansFailedCall`: an error comes of the call's own hook or file; the `defer
  cancel()` of a call never becomes its error, nor does a failed repository.
- `ForeignNeverReverts`, for requests that overlap and with what the code loses of the
  taints said in it; `AnsweredEditsStay`,
  `DrainedNodesStayEmpty`, `RemovedGroupsLeaveNoLabel`, for those that do not.
- `OneActionPerNode`, `LockHasOwner`, `StatusFollowsReports`, `LogsGetCompleted`:
  a lock that is taken by a request and released by a container's report, on
  every path of failure but two, which the properties name: a report that is lost and
  an `UpdateLog` that returns an error.
- `ObjectsAreOwned`, `RowsHaveTheirObject`: three orders of two calls, and which
  failures and overlaps each of them survives.
- `ReleasesAreRecorded`, `HelmServicesAreDeletable`, `ReleasesAreUnique`: helm, the
  rows and the services after any compensation that did not itself fail, of names
  that are not `disturbed`: no two requests were busy with one at a time, and no
  failure was left that nothing undoes (a deletion that timed out or stopped half-way,
  a service that could not be added, a synchronisation that could not read the rows).

### What the code does otherwise

Where the code plainly does something its authors cannot want, the model does it
too, and a property says what holds all the same. These are the places:

- `ToggleServiceAction` (`SC:477`) stops a service of any type by deleting a
  Deployment: a StatefulSet goes on running under a row that says "stopped".
- `syncK8sStatus` (`SC:202`) does not return for a StatefulSet short of replicas
  and takes its own unwritten "uncompleted" for a service restored (`SC:295`):
  the row becomes running.
- `DeployServiceTestAction` (`SC:151`) stores the name with "test" before it before the
  project is looked up, so that a refused test renames the step as well.
- `DeployServiceAction` (`SC:109`) means to delete the row of a failed deployment,
  but `ParseError` in the line before it panics out of the handler.
- A list that read a row before it was stopped writes over "stopped" afterwards.
- `DeleteAutoScaleAction` does not ask whether the rule belongs to the service it is
  given (`UpdateAutoScaleAction` does): with a service of another project the record goes
  and the autoscaler stays, which nothing deletes any more, or, seen from the other
  project, an autoscaler goes and its record stays, and listing the rules of that
  service then ends in an error (`service/autoscale.go:183`).
- `DeployServiceByYaml` leaves the deployment when `service.yaml` cannot be fetched.
- Entering the init containers drops the external services of the main
  containers (`serviceconfig.go`: both use `CheckServiceConfigPortMap` on one list);
  an entire step keeps a name that was not put in lower case; a project chosen
  after the name is not checked for that name.
- A change of the node group puts a copy in the place of the Deployment
  (`rollingupdate.go:227`), and what `FromK8sPodSpec` does not read is erased, the
  affinity the wizard itself wrote included. An image roll patches with the replica
  count it read, which may be older than a scaling.
- `base.go:444` compares with `ErrBranchCannotBeMerged`, but `MergePullRequest`
  wraps it: an owner's start never answers 406 and starts the older file. GitLab's
  handlers never look at a status code, so a refused commit is a success; and
  `generateCommitActionInfo` overwrites the action, so nothing is ever deleted from
  a repository.
- `CreateRepoAndJob` returns nil when the repository could not be created
  (`devopsgitlab.go:189` closes the channel where it should cancel), and the
  goroutine later panics on the closed channel, which ends the process.
- `CheckNodeLogInfoInUse` finds a log unused while its callback is between
  `UpdateNodeLog` and `InsertNodeStatus`, so that a log in use can be deleted. So can the
  log of an action that is still running: `UpdateLog` then does not find it and returns.
- `UpdateLog` returns at the first error (`nodeService.go:143-164`), before it writes
  `node_status` and unlocks the node: the success is untold, a removed node stays in
  the cluster, and the node is locked until its entry expires.
- `DELETE /nodes/:nodename` of the API server leaves the admin server's row.
- A group's name is looked up before blanks are cut off it, so two groups can have
  one name. `GetNodeList` has no error result: a group whose nodes could not be
  listed is removed and its labels stay.
- `UpdateK8sNode` lays the taints of the first of two readings over the second
  (`convert.go:1273`, `nodeassist.go:57`): a taint that others write in between is taken
  back, and the version, which is the second reading's, does not show it.
- A master can be drained and is never shown as removable (`service/node.go:647`);
  `RemoveNodeAction` does not ask.
- `DeployJobAction` takes the project of the row from `project_id` and that of the object
  from `project_name` of the body (`controller/job.go:52`, `service/job.go:164`): the row
  may be in one project and the job in another.
- A job's list carries the reason of one job on to the next, and a GET that failed
  counts as "not established". Jobs are taken over by name only, across projects.
  `RemovePVolume` and `RemovePVClaim` go on when the cluster refused, and of two rows
  of one name the removal of either deletes the object of both.
- An installation of a chart is answered as a success although its row could not be
  inserted and the release was removed again; when a service could not be inserted the
  row goes and the release stays. A failed read of the rows in
  `SyncHelmReleaseWithK8s` is overwritten by the next error value, and every release
  of the project gets a second row. The deletion of a release takes a stopped
  service of the same name along. A page of index 0 is a negative slice, and a panic.
- `DeleteRelease` means to accept that helm has no such release, but `execHelmCommand`
  returns no output with an error (`chartrepo.go:676`): once the release is gone from
  helm, after a deletion that timed out or was interrupted, say, its row and its services
  can never be deleted.
- A chart is fetched without a version only if it has one that is not a pre-release
  (the constraint `*` lets no pre-release fit, although the comment at
  `indexfile.go:47` promises "the chart with the highest version"), and never if its
  version does not parse.

## 5. Proofs

All proofs are for every value of the constants allowed by the named
assumptions of the modules (sets of users, names and ids of any size, any bound).

| Theorem | States | Restriction |
|---|---|---|
| `TypeCorrect` (of services, of nodes, of stored objects), `ProjectsTypeCorrect`, `NodeManagerTypeCorrect`, `HelmTypeCorrect`, `WizardTypeCorrect`, `ObjectsTypeCorrect`; `RepoJobTypeCorrect` | `TypeOK`; `JobTypeOK` | none |
| `PreparingStaysPrivate` | `PreparingIsPrivate` | none |
| `DeploysAllOrNothing` | `DeployAllOrNothing` | `DeployInstance` |
| `RulesOwned` | `HpasAreOwned` | `SerialInstance`, no `DeleteDeployAction`; the autoscalers that `strayed`, in the property |
| `SerialInvariant`, `ObjectsOwned`, `RowsRefinement` | `SerialInv`, `ClusterObjectsAreOwned`, the refinement of `ServiceRows` | `SerialInstance` |
| `NamesUnique` | `LiveNamesUnique` | none; what is `contested`, in the property |
| `ProjectsInvariant`, `NamespacesKept`, `NamespacesOutliveServices` | `ProjectsInv`, `KeptProjectsHaveNamespace`, `ServicesKeepNamespace` | `~Overlap` of users; the initialiser may be at work |
| `RepoJobInvariant`, `ErrorsAreEarned`, `ReturnsAfterWork`, `ServerEndsByFailure` | `RepoJobInv` and its parts | none |
| `OneActionAtATime`, `StatusIsTrue` | `OneActionPerNode`, `StatusInCluster` | `~Overlap` |
| `LogsAreCompleted`, `LockIsOwned`, `StatusIsReported` | `LogsGetCompleted`, `LockHasOwner`, `StatusFollowsReports` | `~Overlap` |
| `ForeignStays` | `ForeignNeverReverts` | for taints, nodes not in `crossed`, in the property |
| `EditsStay`, `DrainedStayEmpty`, `RemovedLeaveNoLabel` | the other properties of `ClusterNodes` | `~overlap`, in the properties |
| `CheckedNamesUnique`, `UndoKeepsSeen` | `NamesAreUnique`, `UndoRemovesOwn` | none |
| `EnteredDeployed` | `EnteredIsDeployed` | patient users, in the property |
| `ObjectsInvariant` | `TypeInv /\ ObjectInv` of the life of an object | none |
| `WhatWasAskedIsKept`, `RepositoriesHaveObjects` | `AskedIsKept`, `RepositoryHasObject` | `~overlap`, in the properties; none for autoscalers and config maps |
| `ReleasesUnique`, `PagesCovered` | `ReleasesAreUnique`, `PagesCoverIndex` | none |
| `ReleasesRecorded`, `HelmServicesDeletable` | `ReleasesAreRecorded`, `HelmServicesAreDeletable` | releases that are not `disturbed`, in the properties |
| `ObjectsStayOwned`, `RowsKeepTheirObject` | both properties of `StoredObjects` | as they say: `parted`, `races`, `broken` |

*Services.* `ClusterObjectsAreOwned` is not inductive: a handler between two of
its calls relies on what its earlier calls found and did. `SerialInv` adds one
conjunct per phase of a request (deploying, stopping, removing, synchronising)
that says what the request relies on. `SerialInstance` excludes
StatefulSet requests, since stopping one breaks the property, and three failures after which the code
gives up half-way: a compensating delete that fails, a `service.yaml` that cannot
be fetched, a push that fails after the service has started. With overlapping
requests the refinement does not hold: a list that started before a stop
writes over "stopped".

With overlapping requests two things are proved. `PreparingIsPrivate` follows from
`ListInv`: the snapshot of a list and the verdict it has still to write are about rows
that had left "preparing" (`Settled`), and no id is given out twice (`FreshIds`), so a
deleted row cannot come back under an id that some list remembers. `DeployAllOrNothing`
follows from `LockInv`: the workload's name is a lock, which one request holds
between making the workload and making the k8s Service or taking the workload back,
and a k8s Service is there exactly if a workload of its name runs that nobody holds.
`DeployInstance` leaves out the requests that stop or delete, edge services, which
have no k8s Service, and a failure of the compensating delete.

`HpasAreOwned` needs `SerialInv` and `HpaPhase`: the request that adds or deletes
rules still finds the row it has read, a record is deleted after its
HorizontalPodAutoscaler, and the row goes last.
A rule may be deleted through any service of its project, so the phase of such a
request speaks of the rule it names and not of the service's rules.
`DeleteDeployAction` is excluded: it deletes the row and leaves the rules. The theorems
on `SerialInv`, `ClusterObjectsAreOwned` and the refinement include it, and
`ServiceListing` has it among its requests.

*Projects.* `NamesClaimed` says that whoever has found a name free, user or initialiser,
finds it free when it inserts it and is the only one to do so, unless the name is
contested; it is inductive whatever overlaps. `CreatePhase` says that a creation goes
on with the project it has made and that nobody ends the namespace of its name, which
the initialiser may have made meanwhile; `DeletePhase`, that whoever touches a namespace
deletes a project that is no longer kept. A restart discards the request and leaves what
it has written, so the invariant must hold of every prefix of a request, and
`OtherStep` has that nothing the initialiser does takes a project or a namespace away.
`ServicesChecked` says that a deletion that is about to delete its namespace has no
deployed service that the owner sees: services come by requests, no other request is
underway, and the initialiser makes only the administrator a member.

*Service wizard.* `TypeInv` has more than types in it: `Valid` says of every check
that is remembered, in a step or in a row, that no row with a number the check could
have seen has its name and project. It is inductive because numbers of rows are never
used again (`RowsMove`), and `NamesAreUnique` and `UndoRemovesOwn` follow from it,
whatever overlaps. `EnteredIsDeployed` needs three more parts: users share no cell of the
heap and a cell nobody used is blank (`CellsInv`), so a step that expires or is
put back cannot become another user's; the cached step of a patient user and the one
the user's request works on are what was entered (`EnteredInv`); and the row of a
request is the one it inserted (`RowInv`). `WizardAssumption` asks for finitely many
clients, so that "one request of this user" can be counted.

*Life of an object.* The proof knows of the conversions only what
`ConversionsAssumption` says of the tables of `K8sConvert`, which contains no
parameter and which TLC looks up: what a request may set is sent (`Covers`), what is
sent has room in the structure, and what is laid over a node was read. From that,
`CoveredField` carries a field from one selection to the next, and the theorems hold of
any field, not only of the 36 that the run follows. `VersionInv` says that a copy with the
object's version has the object's value; with it `Update` sets nothing back even when
requests overlap. Without overlap `CopyInv` says that the copy a request is about to put is
what the client sees of the object, and that its file is the object's. `AskedIsKept` and
`RepositoryHasObject` need each other: a service is started from a repository, and a
push saves the object. `FileInv` is for the fields that files do not have.

*Helm.* `ReleasesAreUnique` is in the type invariant's `Fits`: of the names a request
has looked up there was no row up to the one it has seen. For `ReleasesAreRecorded`,
`RecordInv` says that one request at most is busy with a release that is not
disturbed, and `Phase` what there is of it, row and release, at each step of an
installation, a synchronisation or a deletion; a release that nobody is busy with is
`Agreed`. `CoveredInv` adds that a service of a release is in the manifest of its row,
or of the row whose services are about to be deleted.
`HelmAssumption` has that the owner of a project is a member of it or the
administrator, which is what `CreateProject` makes it, and `ChartsAssumption` that a
chart's manifest is a set of kinds and names. The charts of an index are finitely many,
as it is a file; names and versions are numbers for their order, and 0 is no version.
A service can be deleted only while helm has its release (`DeleteRelease`), which
`RecordInv` gives.

`PagesCoverIndex` is about every index and every length of a list, where the run has a
single name. It needs induction, which the library's induction theorems do not give (the
provers cannot instantiate the predicate they take). `LeastNumber` and `LeastSubset`
stand in for them: a set of counterexamples that is not empty has a least member, by the
library's facts about well-founded orders. `OrderedList` (the names of an index can be
listed in order), `GreatestNumber` (of its versions one is the latest) and `FlattenIs` (what the
recursive function in `FlattenSeq` gives) go by a least counterexample; `PagesJoin` shows
that the pages up to the i-th are the first `End(i)` names.

*Git repository jobs.* The invariant is local to a call: before the reply, what
cancelled the context is a failure the goroutine saw (`CancelledByFailure`), and a
goroutine that is about to send an error found the context cancelled. The reply is
sent at most once, so the deferred cancel comes too late.

*Node manager.* `Exclusive` says that a request has its node to itself until its
container is launched, `LockHeld` that whoever works on a node has an entry in the
cache, `LaunchIsFresh` that a new log is nobody else's, `ActionsInOrder` that an action
is the last of its node as long as it is underway. The four and `OneActionPerNode`
are inductive together. `ClusterFollows` adds that a removal has struck the node out of
`node_status` before it deletes it from the cluster, unless that failed or a later
action came first. `StatusReported` says that the row is there exactly if the last
action whose success got to `node_status` added the node; that reports come in the order
of the logs follows from `ActionsInOrder`.

*Nodes of the cluster.* `ForeignNeverReverts` needs only `VersionInv`: a copy of a
node with the current version has all that others wrote, and versions are not
reused; taints, which are of the first reading, have not changed since (`SeenOK`) unless
the node is in `crossed`. The other three need `SerialInv`: requests that are underway together are
about different nodes and groups (`AllSeparate`), what a request has read of its
node is still so (`EditKnown`, `DrainKnown`), a removal of a group has cleared all
nodes but those it has still to do (`RemovalKnown`), and between requests answered
edits are there and drained nodes empty (`Kept`).

*Stored objects.* `Numbered`: ids and object numbers are given out in order, and the
row of a request has its name. `Sent`: a request that is about to make a job in another
project than its row's has both names in `parted`. `JobsInv`: the row of a job that is being made is
there and nobody removes it, and a job that is made has a row that nobody is about
to delete; it needs nothing of what overlaps or fails, since the row goes in first
and out last. `KeysInv`, for removals that overlap with nothing and names that no
request left half-way: every row is complete or some request explains what it lacks
(`Accounted`), an object has a row or the request that just made it (`HasOwner`),
and a removal finds exactly its own row (`OneRemover`). That a take-over at the
start of the server inserts no second row follows from `HasOwner`.

Two of the attempts corrected `ClusterObjects`. `Laid` had sent what a request lays
over a node through `ToK8sNode`, which `UpdateK8sNode` does not use; no field of the
run could tell, but `status.allocatable` can. And `Copy` and `Laid` were a `CASE` with
guards that overlap, of which TLC takes the first and the logic any.

The theorems about `RepoJob` are in `ClusterObjects_proofs`, with those about the other
component that works with GitLab; those about `ServiceSerial` are in
`ServiceLifecycle_proofs`.

**Only model-checked.** `EveryCallEnds` and `StatusConverges`, which are about liveness:
fairness and `ENABLED` are outside the reach of the prover. So are `RECURSIVE`
operators, of which the modules have none: sets, functions and quantifiers were
enough. Every other property that a passing run checks is stated by a theorem.

## 6. Not modelled, and what could come next

- *Initialiser.* The goroutines of `main.go` run once, one after the other. They
  send their errors over one unbuffered channel whose receiver receives once, so
  that a second error would leave its sender waiting; what the steps do to tables
  and cluster is in the components they belong to.
- *Accounts, sessions and sign-in.* Storing and checking credentials and tokens:
  the other components depend on who is signed in and who is a member, and have that
  as parameters.
- *Images and registry* are templates of Dockerfiles and tables that mirror a
  registry; *dashboard, search, prometheus, audit, e-mail* are queries and messages;
  *shells, uploads, server time* are input and output; the *token server* keeps a
  secret and nothing else; *ci jobs* pass requests on to GitLab and Jenkins; the
  *admin server's* other half runs docker-compose on a host over ssh.
- *The second API* (`apiserver/controllers`) calls the same services.
- In the Kubernetes client: pod exec and copy, the proxy, the server's version, the
  extension clients. Deletions with foreground propagation are immediate in
  `ClusterObjects` and `StoredObjects`; `ServiceLifecycle` has them take time.
- In helm: `AddHelmRepository`, `UpdateHelmRepository`, `DeleteHelmRepository` and the
  icons have no callers; removals with helm's own command line are left out.

Next would come a composition of
`ClusterNodes` with `NodeManager` through the admin server's `DeleteNode`, and one of
`Wizard` with `ServiceLifecycle`, whose `step` abstracts `heap` and `cache`.
