---------------------------- MODULE ClusterObjects ----------------------------
(***************************************************************************)
(* The life of an object of the cluster that the API server makes, edits,  *)
(* writes to a file and makes again from the file: v1/controller/          *)
(* service.go, rollingupdate.go, autoscale.go and configmap.go, the        *)
(* clients in k8sassist/corev1/cgv5/apps, and the repositories the files   *)
(* are pushed to.                                                          *)
(*                                                                         *)
(* The module follows one field of one object, whichever is chosen in the  *)
(* initial state: what K8sConvert and WizardObjects lose of an object is   *)
(* lost of that field.  Values are the numbers of the requests that set    *)
(* them; 0 is a field that is not set.                                     *)
(*                                                                         *)
(* The files of a service are on the disk of the API server, one directory *)
(* for each user, and in the user's repository: the project's for its      *)
(* owner, a fork of it for a member.  A service is started from the        *)
(* repository of whoever starts it; merge requests bring a fork's files to *)
(* the project's repository.  Requests run side by side, one call of       *)
(* Kubernetes or GitLab at a time, and no lock is held.                    *)
(***************************************************************************)
EXTENDS WizardObjects, Integers

CONSTANTS
    Owner,      \* the owner of the project
    Member,     \* a member, with a fork of the project's repository
    Clients,    \* requests that can be underway at a time
    Probes,     \* the fields that are followed: pairs of a kind and a path
    Ops,        \* what users ask for
    Shared,     \* kinds whose requests may overlap
    Faults,     \* what may fail: "call", "file", "push", "refused"
    MaxAsks,    \* bound: requests ever made
    MaxOthers   \* bound: writes of others to the object

ASSUME ClusterObjectsAssumption ==
    /\ Owner # Member
    /\ Probes \subseteq Kinds \X Seq(STRING)
    /\ Shared \subseteq Kinds
    /\ Ops # {}
    /\ MaxAsks \in Nat /\ MaxOthers \in Nat

VARIABLES
    kind, field, \* what is followed
    object,      \* the object: is it there, the field's value, its version
    clock,       \* the last version given to an object
    status,      \* of the row of the service
    creator,     \* the name the row has for the owner of the service
    local,       \* user -> the field in the file on disk
    repo,        \* user -> the field in the file in the user's repository
    base,        \* ... and in the last commit both repositories have
    merging,     \* is a merge request of the fork open?
    pc,          \* client -> the next step of its request
    req,         \* client -> the local variables of its request
    asks, others, \* requests and writes of others so far
    overlap,     \* may requests and the writes of others overlap?  Chosen once
    wanted,      \* history: what the field should be
    replaced,    \* history: the object has been replaced by a copy
    savers       \* history: whose repositories have the object as it should be

files    == <<local, repo, base, merging>>
row      == <<status, creator>>
procVars == <<pc, req>>
counters == <<asks, others, overlap>>
chosen   == <<kind, field>>
history  == <<wanted, replaced, savers>>
vars     == <<chosen, object, clock, row, files, procVars, counters, history>>

-----------------------------------------------------------------------------
Users == {Owner, Member}

\* A value that no earlier request used; a file may also be missing.
Fresh  == asks + others + 1
NoFile == -1
Values == 0..(MaxAsks + MaxOthers)
File   == Values \cup {NoFile}

K8sObject == [there : BOOLEAN, val : Values, version : Nat]

Request == [op : Ops, u : Users, v : Values, held : K8sObject, file : Values]

PCs == {"idle", "create", "find", "get", "put", "scale", "reread", "file", "push", "pull", "uncompleted",
        "running", "merge", "deploy", "delete", "stopped"}

Null == [there |-> FALSE, val |-> 0, version |-> 0]

NullRequest == [op |-> CHOOSE o \in Ops : TRUE, u |-> Owner, v |-> 0, held |-> Null, file |-> 0]

TypeOK ==
    /\ kind \in Kinds /\ <<kind, field>> \in Probes
    /\ object \in K8sObject /\ clock \in Nat
    /\ status \in {"none", "preparing", "uncompleted", "running", "stopped"}
    /\ creator \in Users
    /\ local \in [Users -> File] /\ repo \in [Users -> File] /\ base \in File
    /\ merging \in BOOLEAN
    /\ pc \in [Clients -> PCs] /\ req \in [Clients -> Request]
    /\ asks \in 0..MaxAsks /\ others \in 0..MaxOthers /\ overlap \in BOOLEAN
    /\ wanted \in Values /\ replaced \in BOOLEAN /\ savers \subseteq Users

Init ==
    /\ \E probe \in Probes : kind = probe[1] /\ field = probe[2]
    /\ object = Null /\ clock = 0
    /\ status = "none" /\ creator = Owner
    /\ local = [u \in Users |-> NoFile] /\ repo = local /\ base = NoFile /\ merging = FALSE
    /\ pc = [c \in Clients |-> "idle"] /\ req = [c \in Clients |-> NullRequest]
    /\ asks = 0 /\ others = 0 /\ overlap \in (IF kind \in Shared THEN BOOLEAN ELSE {FALSE})
    /\ wanted = 0 /\ replaced = FALSE /\ savers = {}

-----------------------------------------------------------------------------
(* What an operation is for. *)

OfService == kind \in {"Deployment", "Service"}

ThisClient == AppV1Client[kind]

\* The server edits deployments, services and objects that are laid over; of the others it, or
\* another caller of the client, may put a copy in the place of what it read, with this field
\* changed ("put") or another ("touch"), or send a patch.
OpsOf(k) == {"create", "remove"} \cup
    CASE k = "Deployment" -> {"roll", "nodeGroup", "scale", "start"}
      [] k = "Service"    -> {"session", "start"}
      [] OTHER -> (IF "Update" \in AppV1Client[k].whole THEN {"put", "touch"} ELSE {"update"})
                  \cup (IF "PatchToK8s" \in AppV1Client[k].methods THEN {"patch"} ELSE {})

Edits == {"roll", "nodeGroup", "session", "put", "touch", "patch"}

\* The fields an operation is to change.
Sets(k, op) ==
    CASE op = "roll"      -> {<<"spec", "template", "spec", "containers", "image">>}
      [] op = "nodeGroup" -> {<<"spec", "template", "spec", "nodeSelector">>}
      [] op = "scale"     -> {<<"spec", "replicas">>}
      [] op = "session"   -> {<<"spec", "sessionAffinity">>, <<"spec", "sessionAffinityConfig">>}
      [] op = "update"    -> IF k = "Node" THEN MarshalNode ELSE AppV1Client[k].laid
      [] op \in {"put", "patch"} -> AppV1Client[k].to
      [] op = "create"    -> Asked[k]
      [] OTHER            -> {}

Asking(op) == Within(field, Sets(kind, op))

\* Every field of the selection A is one of B.
Covers(A, B) == A \cup B \subseteq Seq(STRING) /\ \A p \in A : Within(p, B)

\* Of the tables of K8sConvert, which TLC looks up: what requests set is sent, what is sent has
\* room in the structure, and what is laid over a node was read and has room.
ASSUME ConversionsAssumption ==
    \A k \in Kinds :
        /\ \A op \in OpsOf(k) \cap (Edits \cup {"create"}) : Covers(Sets(k, op), AppV1Client[k].to)
        /\ Covers(AppV1Client[k].to, AppV1Client[k].room)
        /\ k = "Node" => /\ Covers(AppV1Client[k].laid, AppV1Client[k].from)
                         /\ Covers(AppV1Client[k].laid, AppV1Client[k].room)

Written(v, selection) == IF Within(field, selection) THEN v ELSE 0

\* What a caller of the client has of an object, and what the cluster has of a caller's.
Seen(o) ==
    Written(IF Within(<<"items">> \o field, ThisClient.list) THEN o.val
            ELSE Written(o.val, ThisClient.from), ThisClient.room)
Sent(v) == Written(Written(v, ThisClient.room), ThisClient.to)

-----------------------------------------------------------------------------
(* Requests. *)

Goto(c, p) == pc' = [pc EXCEPT ![c] = p]

Return(c) == Goto(c, "idle") /\ req' = [req EXCEPT ![c] = NullRequest]

Ready(c) ==
    /\ pc[c] = "idle" /\ asks < MaxAsks
    /\ overlap \/ \A d \in Clients : pc[d] = "idle"

Begin(c, op, u, v, p) ==
    /\ op \in Ops \cap OpsOf(kind)
    /\ asks' = asks + 1
    /\ Goto(c, p)
    /\ req' = [req EXCEPT ![c] = [NullRequest EXCEPT !.op = op, !.u = u, !.v = v]]
    /\ UNCHANGED <<chosen, object, clock, files, others, overlap, history>>

\* A call of Kubernetes fails, or the server stops.
CallFails(c) ==
    /\ "call" \in Faults
    /\ pc[c] \notin {"idle", "merge"}
    /\ Return(c)
    /\ UNCHANGED <<chosen, object, clock, row, files, counters, history>>

\* The object as the API server stores it: a version of its own, and the field.
Store(v) ==
    /\ clock' = clock + 1
    /\ object' = [there |-> TRUE, val |-> v, version |-> clock + 1]

\* What the answered request makes of the field, and of the files.
Answered(op, v) ==
    /\ wanted' = IF Asking(op) THEN v ELSE wanted
    /\ savers' = {}

\* The file of the object that the call returned.
ConfigOf(v) == IF OfService THEN Written(v, ThisClient.file) ELSE 0

ThenFile(c, v, p) ==
    IF OfService THEN /\ Goto(c, p)
                      /\ req' = [req EXCEPT ![c].file = ConfigOf(v)]
                 ELSE Return(c)

-----------------------------------------------------------------------------
(* Making an object: DeployServiceAction, and the Create of the other      *)
(* kinds.  The row of a service is inserted first.                         *)

Ask(c, u) ==
    /\ status = "none" \/ ~OfService
    /\ kind # "ConfigMap"
    /\ Begin(c, "create", u, Fresh, "create")
    /\ IF OfService THEN status' = "preparing" /\ creator' = u ELSE UNCHANGED row

Create(c) ==
    LET v == IF Asking("create") THEN Sent(req[c].v) ELSE 0 IN
    /\ pc[c] = "create"
    /\ \/ /\ ~object.there
          /\ Store(v)
          /\ wanted' = (IF Asking("create") THEN req[c].v ELSE 0)
          /\ replaced' = FALSE /\ savers' = {}
          /\ ThenFile(c, v, "file")
       \/ object.there /\ Return(c) /\ UNCHANGED <<object, clock, history>>
    /\ UNCHANGED <<chosen, row, files, counters>>

-----------------------------------------------------------------------------
(* Editing an object.  What FromK8s reads is changed and given to ToK8s.   *)

Edit(c, op, u, v) ==
    /\ op = "roll" => status # "uncompleted"
    /\ OfService => status # "none"
    /\ Begin(c, op, u, v, "get")
    /\ UNCHANGED row

Get(c) ==
    LET r == req[c] IN
    /\ pc[c] = "get"
    /\ \/ /\ object.there
          \* "Nothing to be updated"
          /\ ~(r.op = "roll" /\ Asking("roll") /\ r.v = object.val)
          /\ Goto(c, "put")
          /\ req' = [req EXCEPT ![c].held = IF r.op = "update" THEN object
                                            ELSE [object EXCEPT !.val = Seen(object)]]
       \/ ~object.there /\ r.op = "update" /\ kind = "HorizontalPodAutoscaler"
          /\ Goto(c, "create") /\ UNCHANGED req
       \/ ~object.there /\ ~(r.op = "update" /\ kind = "HorizontalPodAutoscaler") /\ Return(c)
       \/ object.there /\ r.op = "roll" /\ Asking("roll") /\ r.v = object.val /\ Return(c)
    /\ UNCHANGED <<chosen, object, clock, row, files, counters, history>>

\* Of the pods a roll of images sends the containers whose image changes, by name.
PodFields == At("spec", At("template", {<<"spec">>}))

Copy(r) ==
    IF Asking(r.op) THEN r.v
    ELSE IF r.op = "patch" \/ (r.op = "roll" /\ Within(field, PodFields)) THEN 0
    ELSE r.held.val

\* Variant: the file is made of what was sent.
PatchAndSaveSent(c) ==
    LET sent == Sent(Copy(req[c]))
        v    == IF sent # 0 THEN sent ELSE object.val IN
    /\ pc[c] = "put" /\ req[c].op \in {"roll", "session", "patch"}
    /\ object.there
    /\ Store(v) /\ Answered(req[c].op, req[c].v) /\ UNCHANGED replaced
    /\ ThenFile(c, sent, "file")
    /\ UNCHANGED <<chosen, row, files, counters>>

\* A strategic merge: what is not set in the patch stays.
PatchToK8s(c) ==
    LET sent == Sent(Copy(req[c]))
        v    == IF sent # 0 THEN sent ELSE object.val IN
    /\ pc[c] = "put" /\ req[c].op \in {"roll", "session", "patch"}
    /\ \/ /\ object.there
          /\ Store(v) /\ Answered(req[c].op, req[c].v) /\ UNCHANGED replaced
          /\ ThenFile(c, v, "file")
       \/ ~object.there /\ Return(c) /\ UNCHANGED <<object, clock, history>>
    /\ UNCHANGED <<chosen, row, files, counters>>

\* The copy is put in the place of the object, whatever version that has.
PutWhole(c) ==
    LET v == Sent(Copy(req[c])) IN
    /\ pc[c] = "put" /\ req[c].op \in {"nodeGroup", "put", "touch"}
    /\ \/ /\ object.there
          /\ Store(v) /\ Answered(req[c].op, req[c].v) /\ replaced' = TRUE
          /\ ThenFile(c, v, "file")
       \/ ~object.there /\ Return(c) /\ UNCHANGED <<object, clock, history>>
    /\ UNCHANGED <<chosen, row, files, counters>>

\* What a request lays over the object: the field it changes, and the rest of its copy (a node
\* is read twice, see ClusterNodes).
Laid(r) ==
    IF Asking("update") THEN r.v
    ELSE IF kind = "Node" /\ Within(field, ThisClient.laid) THEN Seen(r.held)
    ELSE r.held.val

\* Variant: the object is put without the version that was read.
UpdateUnversioned(c) ==
    LET v == Laid(req[c]) IN
    /\ pc[c] = "put" /\ req[c].op = "update"
    /\ \/ object.there /\ Store(v) /\ Answered("update", req[c].v)
       \/ ~object.there /\ UNCHANGED <<object, clock, wanted, savers>>
    /\ Return(c)
    /\ UNCHANGED <<chosen, row, files, counters, replaced>>

\* Autoscalers, config maps, nodes, volumes and claims: the new fields are laid over what was
\* read, and put with the version of that.
Update(c) ==
    LET v == Laid(req[c]) IN
    /\ pc[c] = "put" /\ req[c].op = "update"
    /\ \/ /\ object.there /\ object.version = req[c].held.version
          /\ Store(v) /\ Answered("update", req[c].v)
       \/ /\ ~(object.there /\ object.version = req[c].held.version)
          /\ UNCHANGED <<object, clock, wanted, savers>>
    /\ Return(c)
    /\ UNCHANGED <<chosen, row, files, counters, replaced>>

UpdateAsked(c, u) ==
    kind # "ConfigMap" /\ Begin(c, "update", u, Fresh, "get") /\ UNCHANGED row

-----------------------------------------------------------------------------
(* Config maps: nothing is kept of them but the object. *)

OnConfigMap(c, op, u, v, p) == kind = "ConfigMap" /\ Begin(c, op, u, v, p) /\ UNCHANGED row

AddConfigMapAction(c, u) == OnConfigMap(c, "create", u, Fresh, "create")

UpdateConfigMapAction(c, u) == OnConfigMap(c, "update", u, Fresh, "get")

\* By its name a config map is looked up before it is updated, which reads it once more.
UpdateConfigMapByName(c, u) == OnConfigMap(c, "update", u, Fresh, "find")

GetConfigMapK8s(c) ==
    /\ pc[c] = "find"
    /\ IF object.there THEN Goto(c, "get") /\ UNCHANGED req ELSE Return(c)
    /\ UNCHANGED <<chosen, object, clock, row, files, counters, history>>

\* "TODO check ConfigMap existing": one that is not there is removed as well.
RemoveConfigMapAction(c, u) == OnConfigMap(c, "remove", u, 0, "delete")

-----------------------------------------------------------------------------
(* ScaleServiceAction: the scale of a deployment, then its file. *)

ScaleService(c, u, v) ==
    status # "none" /\ Begin(c, "scale", u, v, "scale") /\ UNCHANGED row

ScaleReplica(c) ==
    LET v == IF Asking("scale") THEN req[c].v ELSE object.val IN
    /\ pc[c] = "scale"
    /\ IF object.there
       THEN Store(v) /\ Answered("scale", req[c].v) /\ Goto(c, "reread") /\ UNCHANGED req
       ELSE Return(c) /\ UNCHANGED <<object, clock, wanted, savers>>
    /\ UNCHANGED <<chosen, row, files, counters, replaced>>

GetDeployment(c) ==
    /\ pc[c] = "reread"
    /\ IF object.there THEN ThenFile(c, object.val, "file") ELSE Return(c)
    /\ UNCHANGED <<chosen, object, clock, row, files, counters, history>>

-----------------------------------------------------------------------------
(* The file of the object, and the user's repository. *)

GenerateFile(c) ==
    /\ pc[c] = "file"
    /\ \/ local' = [local EXCEPT ![req[c].u] = req[c].file] /\ Goto(c, "push") /\ UNCHANGED req
       \/ "file" \in Faults /\ Return(c) /\ UNCHANGED local
    /\ UNCHANGED <<chosen, object, clock, row, repo, base, merging, counters, history>>

AfterPush(op) == IF op \in {"create", "start"} THEN "pull" ELSE "idle"

\* The file on disk is committed.  GitLab may refuse it: the answer is unmarshalled and its
\* code not looked at, so that the request goes on.
PushItemsToRepo(c) ==
    LET u == req[c].u IN
    /\ pc[c] = "push"
    /\ \/ /\ repo' = [repo EXCEPT ![u] = local[u]]
          /\ savers' = IF req[c].op # "start" THEN {u}
                       ELSE IF repo[u] = local[u] THEN savers ELSE savers \ {u}
          /\ IF AfterPush(req[c].op) = "pull" THEN Goto(c, "pull") /\ UNCHANGED req ELSE Return(c)
       \/ /\ "refused" \in Faults
          /\ IF AfterPush(req[c].op) = "pull" THEN Goto(c, "pull") /\ UNCHANGED req ELSE Return(c)
          /\ UNCHANGED <<repo, savers>>
       \/ "push" \in Faults /\ Return(c) /\ UNCHANGED <<repo, savers>>
    /\ UNCHANGED <<chosen, object, clock, row, local, base, merging, counters, wanted, replaced>>

\* The owner of the project needs no merge request.
CollaborateWithPullRequest(c) ==
    /\ pc[c] = "pull"
    /\ merging' = (merging \/ req[c].u = Member)
    /\ Goto(c, IF req[c].op = "create" THEN "uncompleted" ELSE "running")
    /\ UNCHANGED <<chosen, object, clock, row, local, repo, base, req, counters, history>>

UpdateStatus(c) ==
    /\ pc[c] \in {"uncompleted", "running", "stopped"}
    /\ status' = pc[c]
    /\ Return(c)
    /\ UNCHANGED <<chosen, object, clock, creator, files, counters, history>>

\* Variant: a service without its object is put down as a status that services do not have.
ListActionUnknown ==
    /\ OfService /\ status \notin {"none", "stopped"}
    /\ status' = IF ~object.there THEN "unknown"
                 ELSE IF status = "uncompleted" THEN "running" ELSE status
    /\ UNCHANGED <<chosen, object, clock, creator, files, procVars, counters, history>>

\* The list of services settles the status of one that is not stopped.
GetServiceListAction ==
    /\ OfService /\ status \notin {"none", "stopped"}
    /\ status' = IF ~object.there THEN "uncompleted"
                 ELSE IF status = "uncompleted" THEN "running" ELSE status
    /\ UNCHANGED <<chosen, object, clock, creator, files, procVars, counters, history>>

-----------------------------------------------------------------------------
(* ToggleServiceAction, and the removal of the other kinds. *)

Remove(c, u) ==
    /\ OfService => status \notin {"none", "stopped"}
    /\ kind # "ConfigMap"
    /\ Begin(c, "remove", u, 0, "delete")
    /\ UNCHANGED row

\* An object that is not found is taken for deleted.
Delete(c) ==
    /\ pc[c] = "delete"
    /\ object' = Null
    /\ IF OfService THEN Goto(c, "stopped") /\ UNCHANGED req ELSE Return(c)
    /\ UNCHANGED <<chosen, clock, row, files, counters, history>>

Start(c, u) ==
    /\ status \notin {"none", "running"}
    /\ Begin(c, "start", u, 0, IF u = Owner THEN "merge" ELSE "deploy")
    /\ UNCHANGED row

\* GitLab merges by the last common commit: what only one side has changed is that side's.
Conflict == base \notin {repo[Owner], repo[Member]} /\ repo[Owner] # repo[Member]

Merged == IF repo[Member] = base THEN repo[Owner] ELSE repo[Member]

\* The owner's start first accepts the merge requests that are open.  That one cannot be
\* merged is a warning: the error is wrapped on its way and never equals
\* ErrBranchCannotBeMerged.
MergeCollaborativePullRequest(c) ==
    /\ pc[c] = "merge"
    /\ \/ /\ merging /\ ~Conflict
          /\ repo' = [repo EXCEPT ![Owner] = Merged]
          /\ base' = repo[Member]
          /\ merging' = FALSE
          /\ savers' = IF Merged = repo[Owner] THEN savers
                       ELSE (savers \ {Owner}) \cup (IF Member \in savers THEN {Owner} ELSE {})
       \/ /\ ~merging \/ Conflict \/ "push" \in Faults
          /\ UNCHANGED <<repo, base, merging, savers>>
    /\ Goto(c, "deploy")
    /\ UNCHANGED <<chosen, object, clock, row, local, req, counters, wanted, replaced>>

\* Whoever saved last starts the service as it was; another user starts an own one.
Restarted(u, v) ==
    /\ wanted' = IF u \in savers /\ Within(field, ThisClient.file) THEN wanted ELSE v
    /\ savers' = IF u \in savers THEN savers ELSE {u}
    /\ UNCHANGED replaced

\* The owner of the service commits the files on disk, which may be older.
DeployServiceByYaml(c) ==
    LET u == req[c].u v == repo[u] IN
    /\ pc[c] = "deploy"
    /\ \/ /\ v # NoFile /\ ~object.there
          /\ Store(v)
          /\ Restarted(u, v)
          /\ Goto(c, IF creator = u THEN "push" ELSE "running")
          /\ UNCHANGED req
       \/ /\ v = NoFile \/ object.there
          /\ Return(c) /\ UNCHANGED <<object, clock, history>>
    /\ UNCHANGED <<chosen, row, files, counters>>

-----------------------------------------------------------------------------
\* kubectl, controllers and others write the field.
OthersWrite ==
    /\ object.there /\ others < MaxOthers
    /\ overlap \/ \A c \in Clients : pc[c] = "idle"
    /\ others' = others + 1
    /\ Store(Fresh)
    /\ wanted' = Fresh /\ replaced' = FALSE /\ savers' = {}
    /\ UNCHANGED <<chosen, row, files, procVars, asks, overlap>>

\* A request asks for a new value, or for the first there was; what it asks for another
\* field does not matter.
Choices(op) == IF Asking(op) THEN {1, Fresh} ELSE {0}

Asks(c, u) ==
    /\ Ready(c)
    /\ \/ Ask(c, u) \/ UpdateAsked(c, u) \/ Remove(c, u) \/ Start(c, u)
       \/ AddConfigMapAction(c, u) \/ UpdateConfigMapAction(c, u) \/ UpdateConfigMapByName(c, u)
       \/ RemoveConfigMapAction(c, u)
       \/ \E op \in Edits \cap OpsOf(kind) : \E v \in Choices(op) : Edit(c, op, u, v)
       \/ \E v \in Choices("scale") : ScaleService(c, u, v)

Step(c) ==
    \/ Create(c) \/ Get(c) \/ PatchToK8s(c) \/ PutWhole(c) \/ Update(c)
    \/ ScaleReplica(c) \/ GetDeployment(c) \/ GetConfigMapK8s(c)
    \/ GenerateFile(c) \/ PushItemsToRepo(c) \/ CollaborateWithPullRequest(c) \/ UpdateStatus(c)
    \/ Delete(c) \/ MergeCollaborativePullRequest(c) \/ DeployServiceByYaml(c)

Next ==
    \/ \E c \in Clients : (\E u \in Users : Asks(c, u)) \/ Step(c) \/ CallFails(c)
    \/ GetServiceListAction \/ OthersWrite

Spec == Init /\ [][Next]_vars

-----------------------------------------------------------------------------
(* Properties. *)

RoundTrip == ThisClient.to \cap ThisClient.from

\* The field is what the last one who set it made of it: no request changes another field
\* than its own, a service started again is the one its last user saved, and an autoscaler
\* or a config map is not set back even by requests that overlap.  Excepted is what a change
\* of the node group makes of a field that the copy has no room for (Create, PatchToK8s,
\* Update, ScaleReplica, DeployServiceByYaml and the conversions).
AskedIsKept ==
    object.there /\ (~overlap \/ kind \in {"HorizontalPodAutoscaler", "ConfigMap"}) =>
        object.val = wanted \/ (replaced /\ ~Within(field, RoundTrip))

\* The repository of whoever saved last has the object as it is, or as it was when it was
\* stopped (GenerateFile, PushItemsToRepo, MergeCollaborativePullRequest).
RepositoryHasObject ==
    ~overlap => \A u \in savers :
        repo[u] = Written(wanted, ThisClient.file) \/ (replaced /\ ~Within(field, RoundTrip))
=============================================================================
