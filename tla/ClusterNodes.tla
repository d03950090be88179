----------------------------- MODULE ClusterNodes -----------------------------
(***************************************************************************)
(* Nodes and node groups of the API server: v1/controller/node.go and      *)
(* nodegroup.go, service/node.go, service/k8scmd.go, dao/node.go and the   *)
(* client's nodes.Update.  A node group is a row of node_group and a label *)
(* on each of its nodes; the switch "schedulable" and the labels of a node *)
(* are edited by reading the node, changing the copy, and writing it back. *)
(*                                                                         *)
(* nodes.Update reads the node a second time, lays the edited copy over it *)
(* and puts the result with the version of that second reading.  The copy  *)
(* has labels, switch and taints.  Handlers run side by side without a     *)
(* lock; a step here is one call of the API server or one query.  Others   *)
(* use the cluster as well: the scheduler, and who writes the taints of a  *)
(* node and what of it the program does not know ("foreign").              *)
(***************************************************************************)
EXTENDS Integers

CONSTANTS
    Nodes,       \* names of nodes
    Groups,      \* names of groups, and so of labels
    RawNames,    \* names that clients write, blanks around them included
    Trim,        \* strings.TrimSpace on RawNames
    Reserved,    \* groups whose name contains "kubernetes.io"
    MasterLabels, \* and which of them is the label of masters
    Masters,     \* nodes that have it from the start
    EdgeLabels,  \* groups whose name is a label that edge nodes get
    Pods,        \* pods outside the system's namespaces, each of them scheduled once
    Clients,     \* requests that can be underway at a time
    Ops,         \* what clients ask for
    Faults,      \* what may fail: "call", "list", "podDelete"
    MaxRows,     \* bound: rows ever inserted into node_group
    MaxStarts,   \* bound: requests ever made
    MaxForeign   \* bound: node -> writes of others to it

ASSUME ClusterNodesAssumption ==
    /\ Nodes # {} /\ Groups # {} /\ Ops # {}
    /\ Trim \in [RawNames -> Groups] /\ \A g \in Groups \cap RawNames : Trim[g] = g
    /\ Masters \subseteq Nodes
    /\ MasterLabels \subseteq Reserved /\ Reserved \subseteq Groups /\ EdgeLabels \subseteq Groups
    /\ MaxRows \in Nat /\ MaxStarts \in Nat /\ MaxForeign \in [Nodes -> Nat]
    /\ {"unborn", "gone"} \cap Nodes = {}

VARIABLES
    alive,    \* names of the nodes of the cluster
    node,     \* name -> the object
    clock,    \* the last version given to an object
    rows,     \* ids of the rows of node_group
    row,      \* id -> name of the group
    nextRow,  \* the auto-increment counter
    placed,   \* pod -> its node, or "unborn", or "gone"
    dying,    \* pods that have been deleted, which stay until kubelet has ended them
    pc,       \* client -> the next step of its request
    req,      \* client -> the local variables of its request
    starts,   \* requests made so far
    overlap,  \* may requests for the same nodes or group overlap?  Chosen once
    wanted,   \* history: node -> what the puts that were accepted made of it
    emptied,  \* history: nodes drained without a failure, and not schedulable since
    cleared,  \* history: groups removed with all nodes listed, and not used since
    crossed   \* history: nodes that were made, or whose taints others wrote, between the two
              \* readings of an edit

cluster  == <<alive, node, clock, placed, dying>>
table    == <<rows, row, nextRow>>
procVars == <<pc, req>>
history  == <<wanted, emptied, cleared, crossed>>
vars     == <<cluster, table, procVars, starts, overlap, history>>

-----------------------------------------------------------------------------
RowIds == 1..MaxRows

\* Taints and what is foreign are known by the number of their last write.
K8sNode == [labels : SUBSET Groups, cordoned : BOOLEAN, taints : Nat, foreign : Nat,
            version : Nat]

\* The copy of a node that is edited; its taints are in the request, next to it.
Node == [labels : SUBSET Groups, cordoned : BOOLEAN]

Request == [op : Ops, n : Nodes, g : Groups, labels : SUBSET Groups,
            seen : Node, taints : Nat, held : K8sNode, nodes : SUBSET Nodes, pods : SUBSET Pods,
            id : RowIds \cup {0}, whole : BOOLEAN]

PCs == {"idle", "get", "update", "put", "insertRow", "findGroup", "listNodes", "nextNode",
        "labelsOf", "isGroup", "deleteRow", "nodeExists", "create", "deleteNode",
        "getDrain", "listPods", "deletePods", "hostname"}

TypeOK ==
    /\ alive \subseteq Nodes
    /\ node \in [Nodes -> K8sNode]
    /\ clock \in Nat
    /\ rows \subseteq RowIds
    /\ row \in [RowIds -> Groups]
    /\ nextRow \in 1..(MaxRows + 1)
    /\ placed \in [Pods -> Nodes \cup {"unborn", "gone"}] /\ dying \subseteq Pods
    /\ pc \in [Clients -> PCs]
    /\ req \in [Clients -> Request]
    /\ starts \in 0..MaxStarts
    /\ overlap \in BOOLEAN
    /\ wanted \in [Nodes -> Node]
    /\ emptied \subseteq Nodes
    /\ cleared \subseteq Groups
    /\ crossed \subseteq Nodes

NullGroup == CHOOSE g \in Groups : TRUE

NullNode == [labels |-> {}, cordoned |-> FALSE]

NullObject == [labels |-> {}, cordoned |-> FALSE, taints |-> 0, foreign |-> 0, version |-> 0]

NullRequest ==
    [op |-> CHOOSE o \in Ops : TRUE, n |-> CHOOSE n \in Nodes : TRUE, g |-> NullGroup,
     labels |-> {}, seen |-> NullNode, taints |-> 0, held |-> NullObject,
     nodes |-> {}, pods |-> {}, id |-> 0, whole |-> TRUE]

FirstLabels(n) == IF n \in Masters THEN MasterLabels ELSE {}

Init ==
    /\ alive \in SUBSET Nodes
    /\ node = [n \in Nodes |-> [NullObject EXCEPT !.labels = FirstLabels(n)]]
    /\ wanted = [n \in Nodes |-> [NullNode EXCEPT !.labels = FirstLabels(n)]]
    /\ clock = 0
    /\ rows = {} /\ nextRow = 1
    /\ row = [id \in RowIds |-> NullGroup]
    /\ placed = [p \in Pods |-> "unborn"] /\ dying = {}
    /\ pc = [c \in Clients |-> "idle"]
    /\ req = [c \in Clients |-> NullRequest]
    /\ starts = 0
    /\ overlap \in BOOLEAN
    /\ emptied = {} /\ cleared = {} /\ crossed = {}

-----------------------------------------------------------------------------
(* Requests. *)

Goto(c, p) == pc' = [pc EXCEPT ![c] = p]

Return(c) == Goto(c, "idle") /\ req' = [req EXCEPT ![c] = NullRequest]

NodeOps == {"addLabel", "delLabel", "suspend", "resume", "addNode", "addEdge", "removeNode", "drain"}

\* The nodes and the groups that a request is about.
NodesOf(op, n) == IF op \in NodeOps THEN {n} ELSE IF op = "removeGroup" THEN Nodes ELSE {}

GroupsOf(op, g) == IF op \in {"addGroup", "removeGroup"} THEN {g} ELSE {}

Apart(op, n, g) ==
    overlap \/ \A c \in Clients : pc[c] # "idle" =>
                  /\ NodesOf(req[c].op, req[c].n) \cap NodesOf(op, n) = {}
                  /\ GroupsOf(req[c].op, req[c].g) \cap GroupsOf(op, g) = {}

Begin(c, r, p) ==
    /\ pc[c] = "idle" /\ r.op \in Ops /\ starts < MaxStarts
    /\ Apart(r.op, r.n, r.g)
    /\ starts' = starts + 1
    /\ Goto(c, p)
    /\ req' = [req EXCEPT ![c] = r]
    /\ UNCHANGED <<cluster, table, overlap, history>>

\* Any call of the API server may fail; the handler answers 500.
CallFails(c) ==
    /\ "call" \in Faults
    /\ pc[c] \in {"get", "update", "put", "labelsOf", "nodeExists", "create", "deleteNode",
                  "getDrain", "listPods"}
    /\ Return(c)
    /\ UNCHANGED <<cluster, table, starts, overlap, history>>

-----------------------------------------------------------------------------
(* Editing a node: AddNodeToGroup, RemoveNodeFromGroup, Suspend, Resume. *)

EditOps == {"addLabel", "delLabel", "suspend", "resume"}

NodeEdit(c, op, n, g) ==
    op \in EditOps /\ Begin(c, [NullRequest EXCEPT !.op = op, !.n = n, !.g = g], "get")

\* The change that a request makes to its copy of the node.
Edit(op, g, m) ==
    CASE op = "addLabel" -> [m EXCEPT !.labels = @ \cup {g}]
      [] op \in {"delLabel", "removeGroup"} -> [m EXCEPT !.labels = @ \ {g}]
      [] op = "suspend" -> [m EXCEPT !.cordoned = TRUE]
      [] op = "resume" -> [m EXCEPT !.cordoned = FALSE]
      [] OTHER -> m

FromK8sNode(k) == [labels |-> k.labels, cordoned |-> k.cordoned]

GetNode(c) ==
    LET n == req[c].n IN
    /\ pc[c] = "get"
    /\ IF n \in alive
       THEN /\ Goto(c, "update")
            /\ req' = [req EXCEPT ![c].seen = Edit(req[c].op, req[c].g, FromK8sNode(node[n])),
                                  ![c].taints = node[n].taints]
       ELSE Return(c)
    /\ UNCHANGED <<cluster, table, starts, overlap, history>>

\* Variant: the schedulable switch is not copied.
UpdateLabelsOnly(k8sNode, m, taints) == [k8sNode EXCEPT !.labels = m.labels, !.taints = taints]

UpdateK8sNode(k8sNode, m, taints) ==
    [k8sNode EXCEPT !.labels = m.labels, !.cordoned = m.cordoned, !.taints = taints]

UpdateGet(c) ==
    LET n == req[c].n IN
    /\ pc[c] = "update"
    /\ IF n \in alive
       THEN /\ Goto(c, "put")
            /\ req' = [req EXCEPT ![c].held = UpdateK8sNode(node[n], req[c].seen, req[c].taints)]
       ELSE Return(c)
    /\ UNCHANGED <<cluster, table, starts, overlap, history>>

\* Variant: the object is put without the version that was read.
Unconditional(n, held) == n \in alive

\* The API server refuses an object whose version is not the current one.
UpToDate(n, held) == n \in alive /\ held.version = node[n].version

Uses(op, labels) == IF op \in {"addLabel", "addNode", "addEdge"} THEN labels ELSE {}

UpdatePut(c) ==
    LET r == req[c] n == r.n IN
    /\ pc[c] = "put"
    /\ IF UpToDate(n, r.held)
       THEN /\ clock' = clock + 1
            /\ node' = [node EXCEPT ![n] = [r.held EXCEPT !.version = clock + 1]]
            /\ wanted' = [wanted EXCEPT ![n] = Edit(r.op, r.g, @)]
            /\ emptied' = IF r.op = "resume" THEN emptied \ {n} ELSE emptied
            /\ cleared' = cleared \ Uses(r.op, {r.g})
            /\ UNCHANGED crossed
            /\ IF r.op = "removeGroup" THEN Goto(c, "nextNode") /\ UNCHANGED req ELSE Return(c)
       ELSE Return(c) /\ UNCHANGED <<node, clock, history>>
    /\ UNCHANGED <<alive, placed, dying, table, starts, overlap>>

-----------------------------------------------------------------------------
(* Node groups: AddNodeGroupAction and DeleteNodeGroupAction. *)

NodeGroupExists(name) == \E id \in rows : row[id] = name

\* The name is looked up as the client wrote it.
AddNodeGroup(c, written) ==
    /\ ~NodeGroupExists(written)
    /\ Begin(c, [NullRequest EXCEPT !.op = "addGroup", !.g = Trim[written]], "insertRow")

\* Variant: the id is taken after the counter has moved on.
CreateNodeGroupOffByOne(c) ==
    /\ pc[c] = "insertRow" /\ nextRow <= MaxRows
    /\ rows' = rows \cup {nextRow + 1}
    /\ nextRow' = nextRow + 1
    /\ Return(c)
    /\ UNCHANGED <<cluster, row, starts, overlap, history>>

\* ... and inserted without the blanks around it.
CreateNodeGroup(c) ==
    /\ pc[c] = "insertRow" /\ nextRow <= MaxRows
    /\ rows' = rows \cup {nextRow}
    /\ row' = [row EXCEPT ![nextRow] = req[c].g]
    /\ nextRow' = nextRow + 1
    /\ Return(c)
    /\ UNCHANGED <<cluster, starts, overlap, history>>

DeleteNodeGroup(c, g) ==
    /\ NodeGroupExists(g)
    /\ Begin(c, [NullRequest EXCEPT !.op = "removeGroup", !.g = g], "findGroup")

\* Variant: the row is deleted first, and the label is no group any more.
GetAndDeleteNodeGroup(c) ==
    /\ pc[c] = "findGroup"
    /\ \/ \E id \in rows :
             /\ row[id] = req[c].g
             /\ req' = [req EXCEPT ![c].id = id]
             /\ rows' = rows \ {id}
             /\ Goto(c, "listNodes")
       \/ ~NodeGroupExists(req[c].g) /\ Return(c) /\ UNCHANGED rows
    /\ UNCHANGED <<cluster, row, nextRow, starts, overlap, history>>

\* A group that is gone by now is a success.
GetNodeGroup(c) ==
    /\ pc[c] = "findGroup"
    /\ \/ \E id \in rows :
             /\ row[id] = req[c].g
             /\ req' = [req EXCEPT ![c].id = id]
             /\ Goto(c, "listNodes")
       \/ /\ ~NodeGroupExists(req[c].g)
          /\ Return(c)
    /\ UNCHANGED <<cluster, table, starts, overlap, history>>

\* GetNodeList has no error result: a failure is a list without nodes.
GetNodeList(c) ==
    /\ pc[c] = "listNodes"
    /\ \/ req' = [req EXCEPT ![c].nodes = alive]
       \/ "list" \in Faults /\ req' = [req EXCEPT ![c].nodes = {}, ![c].whole = FALSE]
    /\ Goto(c, "nextNode")
    /\ UNCHANGED <<cluster, table, starts, overlap, history>>

NextNode(c) ==
    /\ pc[c] = "nextNode"
    /\ \/ \E n \in req[c].nodes :
             /\ req' = [req EXCEPT ![c].n = n, ![c].nodes = @ \ {n}]
             /\ Goto(c, "labelsOf")
       \/ req[c].nodes = {} /\ Goto(c, "deleteRow") /\ UNCHANGED req
    /\ UNCHANGED <<cluster, table, starts, overlap, history>>

\* Labels with "kubernetes.io" in them are not taken for groups.
GetGroupOfNode(c) ==
    LET n == req[c].n IN
    /\ pc[c] = "labelsOf"
    /\ \/ n \notin alive /\ Return(c)
       \/ /\ n \in alive /\ UNCHANGED req
          /\ Goto(c, IF req[c].g \in node[n].labels \ Reserved THEN "isGroup" ELSE "nextNode")
    /\ UNCHANGED <<cluster, table, starts, overlap, history>>

LabelIsGroup(c) ==
    /\ pc[c] = "isGroup"
    /\ Goto(c, IF NodeGroupExists(req[c].g) THEN "get" ELSE "nextNode")
    /\ UNCHANGED <<cluster, table, req, starts, overlap, history>>

DeleteRow(c) ==
    /\ pc[c] = "deleteRow"
    /\ rows' = rows \ {req[c].id}
    /\ cleared' = IF req[c].whole THEN cleared \cup {req[c].g} ELSE cleared
    /\ Return(c)
    /\ UNCHANGED <<cluster, row, nextRow, starts, overlap, wanted, emptied, crossed>>

-----------------------------------------------------------------------------
(* Nodes come and go: AddNodeAction and RemoveNodeAction. *)

AddNode(c, n, labels) ==
    /\ n \notin alive
    /\ Begin(c, [NullRequest EXCEPT !.op = "addNode", !.n = n, !.labels = labels], "nodeExists")

\* CreateNode looks again; a node that exists now is a nil result, and a panic of the handler.
NodeExists(c) ==
    /\ pc[c] = "nodeExists"
    /\ IF req[c].n \in alive THEN Return(c) ELSE Goto(c, "create") /\ UNCHANGED req
    /\ UNCHANGED <<cluster, table, starts, overlap, history>>

\* A write that an edit which has read the node once will not have seen.
Cross(n) ==
    crossed' = IF \E c \in Clients : pc[c] = "update" /\ req[c].n = n
               THEN crossed \cup {n} ELSE crossed

CreateNode(c) ==
    LET n == req[c].n IN
    /\ pc[c] = "create"
    /\ \/ /\ n \notin alive
          /\ alive' = alive \cup {n}
          /\ clock' = clock + 1
          /\ node' = [node EXCEPT ![n] = [NullObject EXCEPT !.labels = req[c].labels,
                                                            !.version = clock + 1]]
          /\ wanted' = [wanted EXCEPT ![n] = [NullNode EXCEPT !.labels = req[c].labels]]
          /\ cleared' = cleared \ Uses("addNode", req[c].labels)
          /\ Cross(n)
       \/ n \in alive /\ UNCHANGED <<alive, node, clock, wanted, cleared, crossed>>
    /\ Return(c)
    /\ UNCHANGED <<placed, dying, table, starts, overlap, emptied>>

\* An edge node gets the labels of its kind ...
CreateEdgeNode(n) == [NullRequest EXCEPT !.op = "addEdge", !.n = n, !.labels = EdgeLabels]

\* ... and is asked for its host name first.
AddEdgeNode(c, n) ==
    /\ n \notin alive
    /\ Begin(c, CreateEdgeNode(n), "hostname")

\* The machine cannot be reached, or has another name.
GetEdgeHostname(c) == "ssh" \in Faults /\ Return(c)

CheckEdgeHostname(c) ==
    /\ pc[c] = "hostname"
    /\ \/ GetEdgeHostname(c)
       \/ Goto(c, "nodeExists") /\ UNCHANGED req
    /\ UNCHANGED <<cluster, table, starts, overlap, history>>

\* RemoveNodeAction finds the node; whether pods run on it is not asked.
RemoveNode(c, n) ==
    /\ n \in alive
    /\ Begin(c, [NullRequest EXCEPT !.op = "removeNode", !.n = n], "deleteNode")

\* RemoveEdgeNodeAction leaves the look-up to DeleteNode.
RemoveEdgeNode(c, n) == Begin(c, [NullRequest EXCEPT !.op = "removeNode", !.n = n], "deleteNode")

DeleteNode(c) ==
    /\ pc[c] = "deleteNode"
    /\ alive' = alive \ {req[c].n}
    /\ emptied' = emptied \ {req[c].n}
    /\ Return(c)
    /\ UNCHANGED <<node, clock, placed, dying, table, starts, overlap, wanted, cleared, crossed>>

-----------------------------------------------------------------------------
(* NodeDrainAction. *)

Drain(c, n) == Begin(c, [NullRequest EXCEPT !.op = "drain", !.n = n], "getDrain")

\* Variant: a schedulable node is drained as well.
DrainAnyNode(c) ==
    /\ pc[c] = "getDrain"
    /\ IF req[c].n \in alive THEN Goto(c, "listPods") /\ UNCHANGED req ELSE Return(c)
    /\ UNCHANGED <<cluster, table, starts, overlap, history>>

\* "Cannot drain a schedulable node."
GetNodebyName(c) ==
    LET n == req[c].n IN
    /\ pc[c] = "getDrain"
    /\ IF n \in alive /\ node[n].cordoned THEN Goto(c, "listPods") /\ UNCHANGED req ELSE Return(c)
    /\ UNCHANGED <<cluster, table, starts, overlap, history>>

ListPods(c) ==
    /\ pc[c] = "listPods"
    /\ req' = [req EXCEPT ![c].pods = {p \in Pods : placed[p] = req[c].n}]
    /\ Goto(c, "deletePods")
    /\ UNCHANGED <<cluster, table, starts, overlap, history>>

\* A pod that cannot be deleted is logged, and the drain goes on.
DeletePod(c, p) ==
    /\ pc[c] = "deletePods" /\ p \in req[c].pods
    /\ \/ /\ dying' = dying \cup {p}
          /\ req' = [req EXCEPT ![c].pods = @ \ {p}]
       \/ /\ "podDelete" \in Faults
          /\ req' = [req EXCEPT ![c].pods = @ \ {p}, ![c].whole = FALSE]
          /\ UNCHANGED dying
    /\ UNCHANGED <<alive, node, clock, placed, table, pc, starts, overlap, history>>

Drained(c) ==
    /\ pc[c] = "deletePods" /\ req[c].pods = {}
    /\ emptied' = IF req[c].whole /\ req[c].n \in alive THEN emptied \cup {req[c].n} ELSE emptied
    /\ Return(c)
    /\ UNCHANGED <<cluster, table, starts, overlap, wanted, cleared, crossed>>

PodsOn(n) == {p \in Pods : placed[p] = n}

IsMaster(n) == node[n].labels \cap MasterLabels # {}

\* The status a node is shown with: a master is never to be removed, another node when no pod
\* is on it, pods that are ending included.
NodeDeletable(n) == ~IsMaster(n) /\ PodsOn(n) = {}

-----------------------------------------------------------------------------
(* The others that use the cluster. *)

\* kubelet, kubectl and controllers write to fields that the program does not know.
ForeignWrite(n) ==
    /\ n \in alive /\ node[n].foreign + node[n].taints < MaxForeign[n]
    /\ clock' = clock + 1
    /\ node' = [node EXCEPT ![n].foreign = @ + 1, ![n].version = clock + 1]
    /\ UNCHANGED <<alive, placed, dying, table, procVars, starts, overlap, history>>

\* kubectl and the node controller taint nodes, and take taints away.
TaintWrite(n) ==
    /\ n \in alive /\ node[n].foreign + node[n].taints < MaxForeign[n]
    /\ clock' = clock + 1
    /\ node' = [node EXCEPT ![n].taints = @ + 1, ![n].version = clock + 1]
    /\ Cross(n)
    /\ UNCHANGED <<alive, placed, dying, table, procVars, starts, overlap, wanted, emptied, cleared>>

Schedule(p, n) ==
    /\ placed[p] = "unborn" /\ n \in alive /\ ~node[n].cordoned
    /\ placed' = [placed EXCEPT ![p] = n]
    /\ UNCHANGED <<alive, node, clock, dying, table, procVars, starts, overlap, history>>

\* A pod that was deleted ends, and a pod whose node is no more is collected.
PodEnds(p) ==
    /\ placed[p] \in Nodes
    /\ p \in dying \/ placed[p] \notin alive
    /\ placed' = [placed EXCEPT ![p] = "gone"]
    /\ UNCHANGED <<alive, node, clock, dying, table, procVars, starts, overlap, history>>

-----------------------------------------------------------------------------
Step(c) ==
    \/ GetNode(c) \/ UpdateGet(c) \/ UpdatePut(c)
    \/ CreateNodeGroup(c) \/ GetNodeGroup(c) \/ GetNodeList(c) \/ NextNode(c)
    \/ GetGroupOfNode(c) \/ LabelIsGroup(c) \/ DeleteRow(c)
    \/ CheckEdgeHostname(c) \/ NodeExists(c) \/ CreateNode(c) \/ DeleteNode(c)
    \/ GetNodebyName(c) \/ ListPods(c) \/ (\E p \in Pods : DeletePod(c, p)) \/ Drained(c)

\* The groups that clients name.
Named == {Trim[written] : written \in RawNames}

Ask(c) ==
    \/ \E op \in EditOps, n \in Nodes, g \in Named : NodeEdit(c, op, n, g)
    \/ \E written \in RawNames : AddNodeGroup(c, written)
    \/ \E g \in Named : DeleteNodeGroup(c, g)
    \/ \E n \in Nodes, labels \in SUBSET Named : AddNode(c, n, labels)
    \/ \E n \in Nodes : AddEdgeNode(c, n)
    \/ \E n \in Nodes : RemoveNode(c, n) \/ RemoveEdgeNode(c, n)
    \/ \E n \in Nodes : Drain(c, n)

Others ==
    \/ \E n \in Nodes : ForeignWrite(n) \/ TaintWrite(n)
    \/ \E p \in Pods, n \in Nodes : Schedule(p, n)
    \/ \E p \in Pods : PodEnds(p)

Next == (\E c \in Clients : Ask(c) \/ Step(c) \/ CallFails(c)) \/ Others

Spec == Init /\ [][Next]_vars

-----------------------------------------------------------------------------
(* Properties. *)

\* What others have written to a node is never taken back: a put that has not seen the
\* last foreign write is refused, and what UpdateK8sNode does not set stays as it was read.
\* That includes the taints, which it does set, unless others wrote them between the two
\* readings of an edit: those are lost without a conflict (nodes.Update, UpdateK8sNode).
ForeignNeverReverts ==
    [][\A n \in alive \cap alive' :
        /\ node'[n].foreign >= node[n].foreign
        /\ n \notin crossed => node'[n].taints >= node[n].taints]_vars

\* Labels and the schedulable switch of every node are what the answered requests made of
\* them, as long as requests for one node do not overlap: no edit undoes another one
\* (AddNodeToGroup, RemoveNodeFromGroup, RemoveNodeGroup, Suspend, Resume).
AnsweredEditsStay ==
    ~overlap => \A n \in alive : FromK8sNode(node[n]) = wanted[n]

\* Until it is made schedulable again a node that was drained without a failure has no pod but those
\* that are ending, and once they have it is shown as one that can be removed, unless it is a
\* master (NodeDrainAction: the node must not be schedulable, and the pods are listed after that;
\* GetNodeControlStatus).
DrainedNodesStayEmpty ==
    ~overlap => \A n \in emptied :
        /\ PodsOn(n) \subseteq dying
        /\ NodeDeletable(n) \/ IsMaster(n) \/ PodsOn(n) # {}

\* When a group was removed no node bears its label, unless the nodes could not be listed or
\* the name has "kubernetes.io" in it (RemoveNodeGroup).
RemovedGroupsLeaveNoLabel ==
    ~overlap => \A n \in alive : node[n].labels \cap (cleared \ Reserved) = {}
=============================================================================
