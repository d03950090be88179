-------------------------- MODULE ClusterNodes_proofs --------------------------
(* What the proof system checks about ClusterNodes: its safety properties, for *)
(* any number of nodes, groups, pods and requests side by side.                *)
EXTENDS ClusterNodes, TLAPS

-----------------------------------------------------------------------------
(* Types. *)

LEMMA NullTypes ==
    /\ NullGroup \in Groups
    /\ NullNode \in Node
    /\ NullObject \in K8sNode
    /\ NullRequest \in Request
<1>1. NullGroup \in Groups
    BY ClusterNodesAssumption DEF NullGroup
<1>2. NullNode \in Node /\ NullObject \in K8sNode
    BY DEF NullNode, NullObject, Node, K8sNode
<1>3. (CHOOSE o \in Ops : TRUE) \in Ops /\ (CHOOSE n \in Nodes : TRUE) \in Nodes
    BY ClusterNodesAssumption
<1>. QED  BY <1>1, <1>2, <1>3 DEF NullRequest, Request

\* What the requests that clients can begin have in common.
Fresh(r) ==
    /\ r.op \in Ops => r \in Request
    /\ r.whole = TRUE /\ r.nodes = {} /\ r.pods = {} /\ r.id = 0

LEMMA FreshRequests ==
    ASSUME NEW op
    PROVE  /\ \A n \in Nodes, g \in Groups :
                 LET r == [NullRequest EXCEPT !.op = op, !.n = n, !.g = g]
                 IN  Fresh(r) /\ r.op = op
           /\ \A n \in Nodes : LET r == [NullRequest EXCEPT !.op = op, !.n = n]
                               IN  Fresh(r) /\ r.op = op
           /\ \A g \in Groups : LET r == [NullRequest EXCEPT !.op = op, !.g = g]
                                IN  Fresh(r) /\ r.op = op
<1>1. NullRequest \in Request /\ Fresh(NullRequest)
    BY NullTypes DEF Fresh, NullRequest
<1>. QED  BY <1>1 DEF Fresh, Request

LEMMA FreshNodes ==
    ASSUME NEW op, NEW n \in Nodes, NEW labels \in SUBSET Groups
    PROVE  LET r == [NullRequest EXCEPT !.op = op, !.n = n, !.labels = labels]
           IN  Fresh(r) /\ r.op = op
<1>1. NullRequest \in Request /\ Fresh(NullRequest)
    BY NullTypes DEF Fresh, NullRequest
<1>. QED  BY <1>1 DEF Fresh, Request

\* How a client moves on: it does p next, with the local variables r.
Moves(c, p, r) == pc' = [pc EXCEPT ![c] = p] /\ req' = [req EXCEPT ![c] = r]

LEMMA Moved ==
    ASSUME TypeOK, NEW c \in Clients, NEW p, NEW r, Moves(c, p, r)
    PROVE  /\ pc'[c] = p /\ req'[c] = r
           /\ \A d \in Clients \ {c} : pc'[d] = pc[d] /\ req'[d] = req[d]
           /\ p \in PCs => pc' \in [Clients -> PCs]
           /\ r \in Request => req' \in [Clients -> Request]
BY DEF TypeOK, Moves

LEMMA MovesBy ==
    ASSUME TypeOK, NEW c \in Clients
    PROVE  /\ Return(c) => Moves(c, "idle", NullRequest)
           /\ \A p : Goto(c, p) /\ UNCHANGED req => Moves(c, p, req[c])
           /\ \A r, p : Begin(c, r, p) => Moves(c, p, r)
BY DEF TypeOK, Return, Goto, Moves, Begin


-----------------------------------------------------------------------------
(* How requests begin. *)

\* The operations whose requests have p as their next step.
Shape(p, op) ==
    /\ p = "insertRow" => op = "addGroup"
    /\ p \in {"findGroup", "listNodes", "nextNode", "labelsOf", "isGroup", "deleteRow"} =>
           op = "removeGroup"
    /\ p \in {"get", "update", "put"} => op \in EditOps \cup {"removeGroup"}
    /\ p \in {"nodeExists", "create", "hostname"} => op \in {"addNode", "addEdge"}
    /\ p = "deleteNode" => op = "removeNode"
    /\ p \in {"getDrain", "listPods", "deletePods"} => op = "drain"

\* The first steps of requests: groups are removed from "findGroup" on.
First(p, op) ==
    /\ p \in {"get", "insertRow", "findGroup", "nodeExists", "hostname", "deleteNode", "getDrain"}
    /\ p = "get" => op \in EditOps
    /\ Shape(p, op)

LEMMA AskBegins ==
    ASSUME NEW c \in Clients, Ask(c)
    PROVE  \E r \in Request, p \in PCs : Begin(c, r, p) /\ Fresh(r) /\ First(p, r.op)
<1>. DEFINE Begins == \E r \in Request, p \in PCs : Begin(c, r, p) /\ Fresh(r) /\ First(p, r.op)
<1>0. ASSUME NEW r, NEW p \in PCs, Begin(c, r, p), Fresh(r), First(p, r.op)
      PROVE  Begins
    <2>1. r \in Request
        BY <1>0 DEF Begin, Fresh
    <2>. QED  BY <2>1, <1>0
<1>. HIDE DEF Begins
<1>. USE DEF First, Shape, PCs
<1>1. ASSUME NEW op \in EditOps, NEW n \in Nodes, NEW g \in Groups, NodeEdit(c, op, n, g)
      PROVE  Begins
    <2>. DEFINE r == [NullRequest EXCEPT !.op = op, !.n = n, !.g = g]
    <2>1. Begin(c, r, "get") /\ Fresh(r) /\ r.op = op
        BY <1>1, FreshRequests DEF NodeEdit
    <2>. HIDE DEF r
    <2>. QED  BY <2>1, <1>0
<1>2. ASSUME NEW written \in RawNames, AddNodeGroup(c, written) PROVE Begins
    <2>. DEFINE r == [NullRequest EXCEPT !.op = "addGroup", !.g = Trim[written]]
    <2>1. Trim[written] \in Groups
        BY ClusterNodesAssumption
    <2>2. Begin(c, r, "insertRow") /\ Fresh(r) /\ r.op = "addGroup"
        BY <1>2, <2>1, FreshRequests, ClusterNodesAssumption DEF AddNodeGroup
    <2>. HIDE DEF r
    <2>. QED  BY <2>2, <1>0
<1>3. ASSUME NEW g \in Groups, DeleteNodeGroup(c, g) PROVE Begins
    <2>. DEFINE r == [NullRequest EXCEPT !.op = "removeGroup", !.g = g]
    <2>1. Begin(c, r, "findGroup") /\ Fresh(r) /\ r.op = "removeGroup"
        BY <1>3, FreshRequests, ClusterNodesAssumption DEF DeleteNodeGroup
    <2>. HIDE DEF r
    <2>. QED  BY <2>1, <1>0
<1>4. ASSUME NEW n \in Nodes, NEW labels \in SUBSET Groups, AddNode(c, n, labels) PROVE Begins
    <2>. DEFINE r == [NullRequest EXCEPT !.op = "addNode", !.n = n, !.labels = labels]
    <2>1. Fresh(r) /\ r.op = "addNode"
        BY FreshNodes
    <2>2. Begin(c, r, "nodeExists")
        BY <1>4 DEF AddNode
    <2>. HIDE DEF r
    <2>. QED  BY <2>1, <2>2, <1>0
<1>5. ASSUME NEW n \in Nodes, AddEdgeNode(c, n) PROVE Begins
    <2>. DEFINE r == [NullRequest EXCEPT !.op = "addEdge", !.n = n, !.labels = EdgeLabels]
    <2>0. EdgeLabels \in SUBSET Groups
        BY ClusterNodesAssumption
    <2>1. Fresh(r) /\ r.op = "addEdge"
        BY <2>0, FreshNodes
    <2>2. Begin(c, r, "hostname")
        BY <1>5 DEF AddEdgeNode, CreateEdgeNode
    <2>. HIDE DEF r
    <2>. QED  BY <2>1, <2>2, <1>0
<1>6. ASSUME NEW n \in Nodes, RemoveNode(c, n) \/ RemoveEdgeNode(c, n) PROVE Begins
    <2>. DEFINE r == [NullRequest EXCEPT !.op = "removeNode", !.n = n]
    <2>1. Begin(c, r, "deleteNode") /\ Fresh(r) /\ r.op = "removeNode"
        BY <1>6, FreshRequests, ClusterNodesAssumption DEF RemoveNode, RemoveEdgeNode
    <2>. HIDE DEF r
    <2>. QED  BY <2>1, <1>0
<1>7. ASSUME NEW n \in Nodes, Drain(c, n) PROVE Begins
    <2>. DEFINE r == [NullRequest EXCEPT !.op = "drain", !.n = n]
    <2>1. Begin(c, r, "getDrain") /\ Fresh(r) /\ r.op = "drain"
        BY <1>7, FreshRequests, ClusterNodesAssumption DEF Drain
    <2>. HIDE DEF r
    <2>. QED  BY <2>1, <1>0
<1>8. Named \subseteq Groups
    BY ClusterNodesAssumption DEF Named
<1>9. Begins
    BY <1>1, <1>2, <1>3, <1>4, <1>5, <1>6, <1>7, <1>8 DEF Ask
<1>. QED  BY <1>9 DEF Begins

-----------------------------------------------------------------------------
(* Type correctness. *)

\* The types of what is not a request's own.
WorldOK ==
    /\ alive \subseteq Nodes
    /\ node \in [Nodes -> K8sNode]
    /\ clock \in Nat
    /\ rows \subseteq RowIds
    /\ row \in [RowIds -> Groups]
    /\ nextRow \in 1..(MaxRows + 1)
    /\ placed \in [Pods -> Nodes \cup {"unborn", "gone"}] /\ dying \subseteq Pods
    /\ starts \in 0..MaxStarts
    /\ overlap \in BOOLEAN
    /\ wanted \in [Nodes -> Node]
    /\ emptied \subseteq Nodes
    /\ cleared \subseteq Groups
    /\ crossed \subseteq Nodes

LEMMA TypeMove ==
    ASSUME TypeOK, NEW c \in Clients, NEW p \in PCs, NEW r \in Request, Moves(c, p, r), WorldOK'
    PROVE  TypeOK'
BY Moved DEF TypeOK, WorldOK

LEMMA TypeMoves ==
    ASSUME TypeOK, NEW c \in Clients, WorldOK'
    PROVE  /\ Return(c) => TypeOK'
           /\ \A p \in PCs : Goto(c, p) /\ UNCHANGED req => TypeOK'
           /\ \A p \in PCs, r \in Request : Moves(c, p, r) => TypeOK'
<1>1. NullRequest \in Request /\ req[c] \in Request /\ "idle" \in PCs
    BY NullTypes DEF TypeOK, PCs
<1>. QED  BY <1>1, MovesBy, TypeMove

LEMMA WorldStays ==
    ASSUME TypeOK, UNCHANGED <<cluster, table, starts, overlap, history>>
    PROVE  WorldOK'
BY DEF TypeOK, WorldOK, cluster, table, history

\* What an edit makes of the labels and the switch of a node.
LEMMA EditType ==
    ASSUME NEW op, NEW g \in Groups, NEW m \in Node
    PROVE  Edit(op, g, m) \in Node
BY DEF Edit, Node

LEMMA FromK8sNodeType ==
    ASSUME NEW k \in K8sNode
    PROVE  FromK8sNode(k) \in Node
BY DEF FromK8sNode, K8sNode, Node

LEMMA RequestOf ==
    ASSUME TypeOK, NEW c \in Clients
    PROVE  /\ req[c] \in Request /\ req[c].n \in Nodes /\ req[c].g \in Groups
           /\ req[c].seen \in Node /\ req[c].taints \in Nat /\ req[c].held \in K8sNode
           /\ req[c].labels \subseteq Groups
           /\ node[req[c].n] \in K8sNode /\ pc[c] \in PCs
BY DEF TypeOK, Request

LEMMA AskTypes ==
    ASSUME TypeOK, NEW c \in Clients, Ask(c)
    PROVE  TypeOK'
<1>1. PICK r \in Request, p \in PCs : Begin(c, r, p)
    BY AskBegins
<1>2. WorldOK'
    BY <1>1, ClusterNodesAssumption DEF Begin, TypeOK, WorldOK, cluster, table, history
<1>. QED  BY <1>1, <1>2, MovesBy, TypeMove

\* Steps of the requests that edit a node.
LEMMA EditTypes ==
    ASSUME TypeOK, NEW c \in Clients, GetNode(c) \/ UpdateGet(c) \/ UpdatePut(c)
    PROVE  TypeOK'
<1>1. CASE GetNode(c)
    <2>. DEFINE m == Edit(req[c].op, req[c].g, FromK8sNode(node[req[c].n]))
                t == node[req[c].n].taints
                r == [req[c] EXCEPT !.seen = m, !.taints = t]
    <2>0. m \in Node /\ t \in Nat /\ req[c] \in Request
        BY RequestOf, EditType, FromK8sNodeType DEF K8sNode
    <2>. HIDE DEF m, t
    <2>1. r \in Request
        BY <2>0 DEF Request
    <2>2. Moves(c, "update", r) \/ Return(c)
        BY <1>1 DEF GetNode, Goto, Moves, m, t
    <2>3. WorldOK'
        BY <1>1, WorldStays DEF GetNode
    <2>. HIDE DEF r
    <2>. QED  BY <2>1, <2>2, <2>3, TypeMoves DEF PCs
<1>2. CASE UpdateGet(c)
    <2>. DEFINE r == [req[c] EXCEPT !.held = UpdateK8sNode(node[req[c].n], req[c].seen, req[c].taints)]
    <2>0. UpdateK8sNode(node[req[c].n], req[c].seen, req[c].taints) \in K8sNode
        BY RequestOf DEF UpdateK8sNode, K8sNode, Node
    <2>1. r \in Request
        BY <2>0, RequestOf DEF Request
    <2>2. Moves(c, "put", r) \/ Return(c)
        BY <1>2 DEF UpdateGet, Goto, Moves
    <2>3. WorldOK'
        BY <1>2, WorldStays DEF UpdateGet
    <2>. HIDE DEF r
    <2>. QED  BY <2>1, <2>2, <2>3, TypeMoves DEF PCs
<1>3. CASE UpdatePut(c)
    <2>1. Return(c) \/ (Goto(c, "nextNode") /\ UNCHANGED req)
        BY <1>3 DEF UpdatePut
    <2>2. wanted' \in [Nodes -> Node]
        BY <1>3, RequestOf, EditType DEF UpdatePut, TypeOK, history
    <2>. DEFINE put == [req[c].held EXCEPT !.version = clock + 1]
    <2>3. clock' \in Nat /\ node' \in [Nodes -> K8sNode]
        <3>1. put \in K8sNode
            <4>1. req[c].held \in K8sNode
                BY RequestOf
            <4>2. clock + 1 \in Nat
                BY DEF TypeOK
            <4>. QED  BY <4>1, <4>2 DEF K8sNode
        <3>2. \/ node' = [node EXCEPT ![req[c].n] = put] /\ clock' = clock + 1
              \/ node' = node /\ clock' = clock
            BY <1>3 DEF UpdatePut
        <3>. HIDE DEF put
        <3>. QED  BY <3>1, <3>2, RequestOf DEF TypeOK
    <2>4. emptied' \subseteq Nodes /\ cleared' \subseteq Groups /\ crossed' = crossed
        BY <1>3 DEF UpdatePut, TypeOK, history
    <2>5. WorldOK'
        BY <1>3, <2>2, <2>3, <2>4 DEF UpdatePut, TypeOK, WorldOK, table
    <2>. QED  BY <2>1, <2>5, TypeMoves DEF PCs
<1>. QED  BY <1>1, <1>2, <1>3

\* Steps of the requests about node groups.
LEMMA GroupTypes ==
    ASSUME TypeOK, NEW c \in Clients,
           \/ CreateNodeGroup(c) \/ GetNodeGroup(c) \/ GetNodeList(c) \/ NextNode(c)
           \/ GetGroupOfNode(c) \/ LabelIsGroup(c) \/ DeleteRow(c)
    PROVE  TypeOK'
<1>1. CASE CreateNodeGroup(c)
    <2>1. WorldOK'
        <3>1. MaxRows \in Nat /\ req[c].g \in Groups
            BY RequestOf, ClusterNodesAssumption DEF Request
        <3>. QED  BY <1>1, <3>1 DEF CreateNodeGroup, TypeOK, WorldOK, cluster, history, RowIds
    <2>. QED  BY <1>1, <2>1, TypeMoves DEF CreateNodeGroup
<1>2. CASE GetNodeGroup(c)
    <2>1. Return(c) \/ \E id \in rows : Moves(c, "listNodes", [req[c] EXCEPT !.id = id])
        BY <1>2 DEF GetNodeGroup, Goto, Moves
    <2>2. \A id \in rows : [req[c] EXCEPT !.id = id] \in Request
        <3>1. req[c] \in Request /\ rows \subseteq RowIds
            BY RequestOf DEF TypeOK
        <3>. QED  BY <3>1 DEF Request
    <2>3. WorldOK'
        BY <1>2, WorldStays DEF GetNodeGroup
    <2>. QED  BY <2>1, <2>2, <2>3, TypeMoves DEF PCs
<1>3. CASE GetNodeList(c)
    <2>1. \/ Moves(c, "nextNode", [req[c] EXCEPT !.nodes = alive])
          \/ Moves(c, "nextNode", [req[c] EXCEPT !.nodes = {}, !.whole = FALSE])
        BY <1>3 DEF GetNodeList, Goto, Moves
    <2>a. req[c] \in Request /\ alive \subseteq Nodes
        BY RequestOf DEF TypeOK
    <2>2. [req[c] EXCEPT !.nodes = alive] \in Request
        BY <2>a DEF Request
    <2>3. [req[c] EXCEPT !.nodes = {}, !.whole = FALSE] \in Request
        BY <2>a DEF Request
    <2>4. WorldOK'
        BY <1>3, WorldStays DEF GetNodeList
    <2>. QED  BY <2>1, <2>2, <2>3, <2>4, TypeMoves DEF PCs
<1>4. CASE NextNode(c)
    <2>1. \/ Goto(c, "deleteRow") /\ UNCHANGED req
          \/ \E n \in req[c].nodes :
                Moves(c, "labelsOf", [req[c] EXCEPT !.n = n, !.nodes = @ \ {n}])
        <3>1. ASSUME NEW n \in req[c].nodes, Goto(c, "labelsOf"),
                     req' = [req EXCEPT ![c].n = n, ![c].nodes = @ \ {n}]
              PROVE  Moves(c, "labelsOf", [req[c] EXCEPT !.n = n, !.nodes = @ \ {n}])
            BY <3>1 DEF Goto, Moves
        <3>. QED  BY <1>4, <3>1 DEF NextNode
    <2>a. req[c] \in Request
        BY RequestOf
    <2>2. \A n \in req[c].nodes : [req[c] EXCEPT !.n = n, !.nodes = @ \ {n}] \in Request
        BY <2>a DEF Request
    <2>3. WorldOK'
        BY <1>4, WorldStays DEF NextNode
    <2>. QED  BY <2>1, <2>2, <2>3, TypeMoves DEF PCs
<1>5. CASE GetGroupOfNode(c)
    <2>1. Return(c) \/ \E p \in {"isGroup", "nextNode"} : Goto(c, p) /\ UNCHANGED req
        BY <1>5 DEF GetGroupOfNode
    <2>2. WorldOK'
        BY <1>5, WorldStays DEF GetGroupOfNode
    <2>. QED  BY <2>1, <2>2, TypeMoves DEF PCs
<1>6. CASE LabelIsGroup(c)
    <2>1. \E p \in {"get", "nextNode"} : Goto(c, p) /\ UNCHANGED req
        BY <1>6 DEF LabelIsGroup
    <2>2. WorldOK'
        BY <1>6, WorldStays DEF LabelIsGroup
    <2>. QED  BY <2>1, <2>2, TypeMoves DEF PCs
<1>7. CASE DeleteRow(c)
    <2>1. WorldOK'
        BY <1>7, RequestOf DEF DeleteRow, TypeOK, WorldOK, cluster
    <2>. QED  BY <1>7, <2>1, TypeMoves DEF DeleteRow
<1>. QED  BY <1>1, <1>2, <1>3, <1>4, <1>5, <1>6, <1>7

\* Steps of the requests that add, remove and drain a node.
LEMMA MemberTypes ==
    ASSUME TypeOK, NEW c \in Clients,
           \/ CheckEdgeHostname(c) \/ NodeExists(c) \/ CreateNode(c) \/ DeleteNode(c)
           \/ GetNodebyName(c) \/ ListPods(c) \/ (\E q \in Pods : DeletePod(c, q)) \/ Drained(c)
    PROVE  TypeOK'
<1>1. CASE CheckEdgeHostname(c)
    <2>1. Return(c) \/ (Goto(c, "nodeExists") /\ UNCHANGED req)
        BY <1>1 DEF CheckEdgeHostname, GetEdgeHostname
    <2>2. WorldOK'
        BY <1>1, WorldStays DEF CheckEdgeHostname
    <2>. QED  BY <2>1, <2>2, TypeMoves DEF PCs
<1>2. CASE NodeExists(c)
    <2>1. Return(c) \/ (Goto(c, "create") /\ UNCHANGED req)
        BY <1>2 DEF NodeExists
    <2>2. WorldOK'
        BY <1>2, WorldStays DEF NodeExists
    <2>. QED  BY <2>1, <2>2, TypeMoves DEF PCs
<1>3. CASE CreateNode(c)
    <2>. DEFINE new  == [NullObject EXCEPT !.labels = req[c].labels, !.version = clock + 1]
                made == [NullNode EXCEPT !.labels = req[c].labels]
    <2>1. new \in K8sNode /\ made \in Node
        <3>1. clock + 1 \in Nat /\ req[c].labels \in SUBSET Groups
            BY RequestOf DEF TypeOK
        <3>2. made \in Node
            BY <3>1 DEF NullNode, Node
        <3>3. new \in K8sNode
            BY <3>1 DEF NullObject, K8sNode
        <3>. QED  BY <3>2, <3>3
    <2>2. \/ /\ alive' = alive \cup {req[c].n} /\ clock' = clock + 1
             /\ node' = [node EXCEPT ![req[c].n] = new]
             /\ wanted' = [wanted EXCEPT ![req[c].n] = made]
             /\ cleared' = cleared \ Uses("addNode", req[c].labels)
             /\ crossed' \in {crossed, crossed \cup {req[c].n}}
          \/ UNCHANGED <<alive, node, clock, wanted, cleared, crossed>>
        BY <1>3 DEF CreateNode, Cross
    <2>. HIDE DEF new, made
    <2>3. WorldOK'
        BY <1>3, <2>1, <2>2, RequestOf DEF CreateNode, TypeOK, WorldOK, table
    <2>. QED  BY <1>3, <2>3, TypeMoves DEF CreateNode
<1>4. CASE DeleteNode(c)
    <2>1. WorldOK'
        BY <1>4 DEF DeleteNode, TypeOK, WorldOK, table
    <2>. QED  BY <1>4, <2>1, TypeMoves DEF DeleteNode
<1>5. CASE GetNodebyName(c)
    <2>1. Return(c) \/ (Goto(c, "listPods") /\ UNCHANGED req)
        BY <1>5 DEF GetNodebyName
    <2>2. WorldOK'
        BY <1>5, WorldStays DEF GetNodebyName
    <2>. QED  BY <2>1, <2>2, TypeMoves DEF PCs
<1>6. CASE ListPods(c)
    <2>. DEFINE r == [req[c] EXCEPT !.pods = {q \in Pods : placed[q] = req[c].n}]
    <2>1. r \in Request
        BY RequestOf DEF Request
    <2>2. Moves(c, "deletePods", r)
        BY <1>6 DEF ListPods, Goto, Moves
    <2>3. WorldOK'
        BY <1>6, WorldStays DEF ListPods
    <2>. HIDE DEF r
    <2>. QED  BY <2>1, <2>2, <2>3, TypeMoves DEF PCs
<1>7. ASSUME NEW q \in Pods, DeletePod(c, q) PROVE TypeOK'
    <2>1. req' \in [Clients -> Request]
        <3>1. /\ [req[c] EXCEPT !.pods = @ \ {q}] \in Request
              /\ [req[c] EXCEPT !.pods = @ \ {q}, !.whole = FALSE] \in Request
            BY RequestOf DEF Request
        <3>2. \/ req' = [req EXCEPT ![c] = [req[c] EXCEPT !.pods = @ \ {q}]]
              \/ req' = [req EXCEPT ![c] = [req[c] EXCEPT !.pods = @ \ {q}, !.whole = FALSE]]
            BY <1>7 DEF DeletePod
        <3>. QED  BY <3>1, <3>2 DEF TypeOK
    <2>2. dying' \subseteq Pods
        BY <1>7 DEF DeletePod, TypeOK
    <2>. QED  BY <1>7, <2>1, <2>2 DEF DeletePod, TypeOK, table, history
<1>8. CASE Drained(c)
    <2>1. WorldOK'
        BY <1>8 DEF Drained, TypeOK, WorldOK, cluster, table
    <2>. QED  BY <1>8, <2>1, TypeMoves DEF Drained
<1>. QED  BY <1>1, <1>2, <1>3, <1>4, <1>5, <1>6, <1>7, <1>8

LEMMA OthersTypes ==
    ASSUME TypeOK, Others
    PROVE  TypeOK'
<1>1. ASSUME NEW n \in Nodes, ForeignWrite(n) PROVE TypeOK'
    <2>. DEFINE new == [node[n] EXCEPT !.foreign = @ + 1, !.version = clock + 1]
    <2>1. new \in K8sNode
        <3>1. node[n] \in K8sNode /\ clock + 1 \in Nat
            BY DEF TypeOK
        <3>2. node[n].foreign + 1 \in Nat
            BY <3>1 DEF K8sNode
        <3>. QED  BY <3>1, <3>2 DEF K8sNode
    <2>2. node' = [node EXCEPT ![n] = new] /\ clock' = clock + 1
        BY <1>1 DEF ForeignWrite
    <2>. HIDE DEF new
    <2>3. node' \in [Nodes -> K8sNode] /\ clock' \in Nat
        BY <2>1, <2>2 DEF TypeOK
    <2>. QED  BY <1>1, <2>3 DEF ForeignWrite, TypeOK, table, procVars, history
<1>4. ASSUME NEW n \in Nodes, TaintWrite(n) PROVE TypeOK'
    <2>. DEFINE new == [node[n] EXCEPT !.taints = @ + 1, !.version = clock + 1]
    <2>1. new \in K8sNode
        <3>1. node[n] \in K8sNode /\ clock + 1 \in Nat
            BY DEF TypeOK
        <3>2. node[n].taints + 1 \in Nat
            BY <3>1 DEF K8sNode
        <3>. QED  BY <3>1, <3>2 DEF K8sNode
    <2>2. node' = [node EXCEPT ![n] = new] /\ clock' = clock + 1
        BY <1>4 DEF TaintWrite
    <2>. HIDE DEF new
    <2>3. node' \in [Nodes -> K8sNode] /\ clock' \in Nat
        BY <2>1, <2>2 DEF TypeOK
    <2>4. crossed' \subseteq Nodes
        BY <1>4 DEF TaintWrite, Cross, TypeOK
    <2>. QED  BY <1>4, <2>3, <2>4 DEF TaintWrite, TypeOK, table, procVars
<1>2. ASSUME NEW q \in Pods, NEW n \in Nodes, Schedule(q, n) PROVE TypeOK'
    BY <1>2 DEF Schedule, TypeOK, table, procVars, history
<1>3. ASSUME NEW q \in Pods, PodEnds(q) PROVE TypeOK'
    BY <1>3 DEF PodEnds, TypeOK, table, procVars, history
<1>. QED  BY <1>1, <1>2, <1>3, <1>4 DEF Others

\* What the nodes are at first.
LEMMA FirstNodes ==
    ASSUME NEW n \in Nodes
    PROVE  LET k == [NullObject EXCEPT !.labels = FirstLabels(n)]
               w == [NullNode EXCEPT !.labels = FirstLabels(n)]
           IN  /\ k \in K8sNode /\ k.version = 0 /\ k.labels \subseteq Groups
               /\ w \in Node /\ FromK8sNode(k) = w
<1>. DEFINE k == [NullObject EXCEPT !.labels = FirstLabels(n)]
            w == [NullNode EXCEPT !.labels = FirstLabels(n)]
<1>1. FirstLabels(n) \in SUBSET Groups
    BY ClusterNodesAssumption DEF FirstLabels
<1>2. /\ NullObject \in K8sNode /\ NullNode \in Node
      /\ NullObject.cordoned = FALSE /\ NullNode.cordoned = FALSE /\ NullObject.version = 0
    BY NullTypes DEF NullObject, NullNode
<1>3. k \in K8sNode /\ k.version = 0 /\ k.labels \subseteq Groups /\ w \in Node
    BY <1>1, <1>2 DEF K8sNode, Node
<1>4. FromK8sNode(k) = [labels |-> FirstLabels(n), cordoned |-> NullObject.cordoned]
    BY <1>2 DEF FromK8sNode, K8sNode
<1>5. w = [labels |-> FirstLabels(n), cordoned |-> NullNode.cordoned]
    BY <1>2 DEF Node
<1>. QED  BY <1>2, <1>3, <1>4, <1>5

LEMMA TypeInit == Init => TypeOK
<1>. SUFFICES ASSUME Init PROVE TypeOK
    OBVIOUS
<1>1. node \in [Nodes -> K8sNode] /\ wanted \in [Nodes -> Node]
    BY FirstNodes DEF Init
<1>2. /\ pc \in [Clients -> PCs] /\ req \in [Clients -> Request]
      /\ row \in [RowIds -> Groups] /\ rows \subseteq RowIds
    BY NullTypes DEF Init, PCs
<1>3. nextRow \in 1..(MaxRows + 1) /\ starts \in 0..MaxStarts
    BY ClusterNodesAssumption DEF Init
<1>. QED  BY <1>1, <1>2, <1>3 DEF Init, TypeOK

LEMMA TypeNext ==
    ASSUME TypeOK, [Next]_vars
    PROVE  TypeOK'
<1>1. ASSUME NEW c \in Clients, CallFails(c) PROVE TypeOK'
    <2>1. WorldOK' /\ Return(c)
        BY <1>1, WorldStays DEF CallFails
    <2>. QED  BY <2>1, TypeMoves
<1>2. ASSUME NEW c \in Clients, Step(c) PROVE TypeOK'
    BY <1>2, EditTypes, GroupTypes, MemberTypes DEF Step
<1>3. CASE UNCHANGED vars
    BY <1>3 DEF TypeOK, vars, cluster, table, procVars, history
<1>. QED  BY <1>1, <1>2, <1>3, AskTypes, OthersTypes DEF Next

\* Every variable keeps its type, whatever requests run side by side: what a request holds of a
\* node is a node, and the ids that it holds are ids of rows (node.go, nodegroup.go).
THEOREM TypeCorrect == Spec => []TypeOK
BY TypeInit, TypeNext, PTL DEF Spec

-----------------------------------------------------------------------------
(* Writes of others.  A put is accepted only with the current version, and an *)
(* object of the current version has the current foreign fields.  It has the  *)
(* current taints if none were written since the first reading.               *)

HeldOK(p, r) ==
    p = "put" => /\ r.held.version <= clock
                 /\ r.held.version = node[r.n].version =>
                        /\ r.held.foreign = node[r.n].foreign
                        /\ r.n \notin crossed => r.held.taints = node[r.n].taints

SeenOK(p, r) ==
    p = "update" /\ r.n \in alive \ crossed => r.taints = node[r.n].taints

VersionInv ==
    /\ \A n \in Nodes : node[n].version <= clock
    /\ \A c \in Clients : HeldOK(pc[c], req[c]) /\ SeenOK(pc[c], req[c])

\* A node that is written gets a version that no object had before.
NewVersions ==
    /\ clock' \in Nat /\ clock <= clock'
    /\ \A n \in Nodes : \/ node'[n] = node[n]
                        \/ clock' = clock + 1 /\ node'[n].version = clock + 1

LEMMA PutWrites ==
    ASSUME TypeOK, NEW c \in Clients, UpdatePut(c)
    PROVE  \/ UNCHANGED <<alive, node, clock>>
           \/ /\ UpToDate(req[c].n, req[c].held) /\ clock' = clock + 1 /\ alive' = alive
              /\ \A n \in Nodes \ {req[c].n} : node'[n] = node[n]
              /\ node'[req[c].n] \in K8sNode /\ node'[req[c].n].version = clock + 1
              /\ node'[req[c].n].foreign = req[c].held.foreign
              /\ node'[req[c].n].taints = req[c].held.taints
              /\ FromK8sNode(node'[req[c].n]) = FromK8sNode(req[c].held)
<1>. DEFINE put == [req[c].held EXCEPT !.version = clock + 1]
<1>1. \/ UNCHANGED <<alive, node, clock>>
      \/ /\ UpToDate(req[c].n, req[c].held) /\ clock' = clock + 1 /\ alive' = alive
         /\ node' = [node EXCEPT ![req[c].n] = put]
    BY DEF UpdatePut
<1>2. /\ put \in K8sNode /\ put.version = clock + 1 /\ put.foreign = req[c].held.foreign
      /\ put.taints = req[c].held.taints
      /\ FromK8sNode(put) = FromK8sNode(req[c].held)
    <2>1. req[c].held \in K8sNode /\ clock + 1 \in Nat
        BY RequestOf DEF TypeOK
    <2>2. put = [labels |-> req[c].held.labels, cordoned |-> req[c].held.cordoned,
                 taints |-> req[c].held.taints, foreign |-> req[c].held.foreign, version |-> clock + 1]
        BY <2>1 DEF K8sNode
    <2>. HIDE DEF put
    <2>. QED  BY <2>1, <2>2 DEF K8sNode, FromK8sNode
<1>. HIDE DEF put
<1>. QED  BY <1>1, <1>2, RequestOf DEF TypeOK

\* A new node has the labels that it was asked for, and is schedulable.
LEMMA Relabelled ==
    ASSUME NEW labels \in SUBSET Groups, NEW v \in Nat
    PROVE  /\ [NullNode EXCEPT !.labels = labels] = [labels |-> labels, cordoned |-> FALSE]
           /\ LET new == [NullObject EXCEPT !.labels = labels, !.version = v]
              IN  /\ new \in K8sNode /\ new.version = v /\ new.labels = labels
                  /\ FromK8sNode(new) = [labels |-> labels, cordoned |-> FALSE]
<1>1. NullObject \in K8sNode /\ NullNode \in Node
    BY NullTypes
<1>2. NullObject.cordoned = FALSE /\ NullNode.cordoned = FALSE
    BY DEF NullObject, NullNode
<1>3. [NullNode EXCEPT !.labels = labels] = [labels |-> labels, cordoned |-> NullNode.cordoned]
    BY <1>1 DEF Node
<1>. DEFINE new == [NullObject EXCEPT !.labels = labels, !.version = v]
<1>4. new \in K8sNode /\ new.version = v /\ new.labels = labels
    BY <1>1 DEF K8sNode
<1>5. FromK8sNode(new) = [labels |-> labels, cordoned |-> NullObject.cordoned]
    BY <1>1 DEF K8sNode, FromK8sNode
<1>. QED  BY <1>2, <1>3, <1>4, <1>5

LEMMA CreateWrites ==
    ASSUME TypeOK, NEW c \in Clients, CreateNode(c)
    PROVE  \/ UNCHANGED <<alive, node, clock, wanted, cleared, crossed>>
           \/ /\ req[c].n \notin alive /\ alive' = alive \cup {req[c].n} /\ clock' = clock + 1
              /\ \A n \in Nodes \ {req[c].n} : node'[n] = node[n] /\ wanted'[n] = wanted[n]
              /\ node'[req[c].n] \in K8sNode /\ node'[req[c].n].version = clock + 1
              /\ FromK8sNode(node'[req[c].n]) = wanted'[req[c].n]
              /\ node'[req[c].n].labels = req[c].labels
              /\ cleared' = cleared \ req[c].labels /\ Cross(req[c].n)
<1>. DEFINE new  == [NullObject EXCEPT !.labels = req[c].labels, !.version = clock + 1]
            made == [NullNode EXCEPT !.labels = req[c].labels]
<1>1. \/ UNCHANGED <<alive, node, clock, wanted, cleared, crossed>>
      \/ /\ req[c].n \notin alive /\ alive' = alive \cup {req[c].n} /\ clock' = clock + 1
         /\ node' = [node EXCEPT ![req[c].n] = new]
         /\ wanted' = [wanted EXCEPT ![req[c].n] = made]
         /\ cleared' = cleared \ req[c].labels /\ Cross(req[c].n)
    BY DEF CreateNode, Uses
<1>2. clock + 1 \in Nat /\ req[c].labels \in SUBSET Groups
    BY RequestOf DEF TypeOK
<1>3. /\ new \in K8sNode /\ new.version = clock + 1 /\ new.labels = req[c].labels
      /\ FromK8sNode(new) = made
    BY <1>2, Relabelled
<1>. HIDE DEF new, made
<1>. QED  BY <1>1, <1>3, RequestOf DEF TypeOK

LEMMA ForeignWrites ==
    ASSUME TypeOK, NEW m \in Nodes, ForeignWrite(m)
    PROVE  /\ alive' = alive /\ clock' = clock + 1
           /\ \A n \in Nodes \ {m} : node'[n] = node[n]
           /\ node'[m] \in K8sNode /\ node'[m].version = clock + 1
           /\ node'[m].foreign = node[m].foreign + 1 /\ node'[m].taints = node[m].taints
           /\ FromK8sNode(node'[m]) = FromK8sNode(node[m])
<1>. DEFINE new == [node[m] EXCEPT !.foreign = @ + 1, !.version = clock + 1]
<1>1. alive' = alive /\ clock' = clock + 1 /\ node' = [node EXCEPT ![m] = new]
    BY DEF ForeignWrite
<1>2. node[m] \in K8sNode /\ clock + 1 \in Nat
    BY DEF TypeOK
<1>3. node[m].foreign + 1 \in Nat
    BY <1>2 DEF K8sNode
<1>4. /\ new \in K8sNode /\ new.version = clock + 1 /\ new.foreign = node[m].foreign + 1
      /\ new.taints = node[m].taints
      /\ FromK8sNode(new) = FromK8sNode(node[m])
    BY <1>2, <1>3 DEF K8sNode, FromK8sNode
<1>. HIDE DEF new
<1>. QED  BY <1>1, <1>4 DEF TypeOK

LEMMA TaintWrites ==
    ASSUME TypeOK, NEW m \in Nodes, TaintWrite(m)
    PROVE  /\ alive' = alive /\ clock' = clock + 1 /\ Cross(m)
           /\ \A n \in Nodes \ {m} : node'[n] = node[n]
           /\ node'[m] \in K8sNode /\ node'[m].version = clock + 1
           /\ node'[m].foreign = node[m].foreign /\ node'[m].taints = node[m].taints + 1
           /\ FromK8sNode(node'[m]) = FromK8sNode(node[m])
<1>. DEFINE new == [node[m] EXCEPT !.taints = @ + 1, !.version = clock + 1]
<1>1. alive' = alive /\ clock' = clock + 1 /\ node' = [node EXCEPT ![m] = new] /\ Cross(m)
    BY DEF TaintWrite
<1>2. node[m] \in K8sNode /\ clock + 1 \in Nat
    BY DEF TypeOK
<1>3. node[m].taints + 1 \in Nat
    BY <1>2 DEF K8sNode
<1>4. /\ new \in K8sNode /\ new.version = clock + 1 /\ new.taints = node[m].taints + 1
      /\ new.foreign = node[m].foreign
      /\ FromK8sNode(new) = FromK8sNode(node[m])
    BY <1>2, <1>3 DEF K8sNode, FromK8sNode
<1>. HIDE DEF new
<1>. QED  BY <1>1, <1>4 DEF TypeOK

\* Objects are written by puts, by the creation of a node, and by others.
LEMMA Writers ==
    ASSUME [Next]_vars
    PROVE  \/ UNCHANGED <<node, clock, crossed>> /\ alive' \subseteq alive
           \/ \E c \in Clients : UpdatePut(c) \/ CreateNode(c)
           \/ \E n \in Nodes : ForeignWrite(n) \/ TaintWrite(n)
<1>1. ASSUME NEW c \in Clients, Ask(c) PROVE UNCHANGED <<node, clock, crossed, alive>>
    BY <1>1, AskBegins DEF Begin, cluster, history
<1>2. ASSUME NEW c \in Clients, Step(c)
      PROVE  \/ UNCHANGED <<node, clock, crossed>> /\ alive' \subseteq alive
             \/ UpdatePut(c) \/ CreateNode(c)
    BY <1>2 DEF Step, cluster, history, GetNode, UpdateGet, CreateNodeGroup, GetNodeGroup, GetNodeList,
                NextNode, GetGroupOfNode, LabelIsGroup, DeleteRow, CheckEdgeHostname, NodeExists,
                DeleteNode, GetNodebyName, ListPods, DeletePod, Drained
<1>3. ASSUME NEW c \in Clients, CallFails(c) PROVE UNCHANGED <<node, clock, crossed, alive>>
    BY <1>3 DEF CallFails, cluster, history
<1>. QED  BY <1>1, <1>2, <1>3 DEF Next, Others, Schedule, PodEnds, vars, cluster, history

LEMMA VersionsAreNew ==
    ASSUME TypeOK, [Next]_vars
    PROVE  NewVersions
<1>1. clock \in Nat
    BY DEF TypeOK
<1>. QED  BY <1>1, Writers, PutWrites, CreateWrites, ForeignWrites, TaintWrites DEF NewVersions

\* What a client does next, and with which local variables, only the client itself changes.
LEMMA OneMovesAt ==
    ASSUME TypeOK, NEW c \in Clients, Ask(c) \/ Step(c) \/ CallFails(c)
    PROVE  \A d \in Clients \ {c} : pc'[d] = pc[d] /\ req'[d] = req[d]
<1>1. CASE Ask(c)
    BY <1>1, AskBegins, MovesBy, Moved
<1>2. CASE CallFails(c)
    BY <1>2, MovesBy, Moved DEF CallFails
<1>3. CASE Step(c)
    <2>1. \/ Return(c)
          \/ pc' = [pc EXCEPT ![c] = pc'[c]] /\ req' = [req EXCEPT ![c] = req'[c]]
        BY <1>3 DEF Step, TypeOK, Goto, GetNode, UpdateGet, UpdatePut, CreateNodeGroup,
            GetNodeGroup, GetNodeList, NextNode, GetGroupOfNode, LabelIsGroup, DeleteRow,
            CheckEdgeHostname, GetEdgeHostname, NodeExists, CreateNode, DeleteNode,
            GetNodebyName, ListPods, DeletePod, Drained
    <2>. QED  BY <2>1, MovesBy, Moved DEF TypeOK
<1>. QED  BY <1>1, <1>2, <1>3

LEMMA OneMoves ==
    ASSUME TypeOK, [Next]_vars
    PROVE  \/ UNCHANGED <<pc, req>>
           \/ \E c \in Clients : /\ Ask(c) \/ Step(c) \/ CallFails(c)
                                 /\ \A d \in Clients \ {c} : pc'[d] = pc[d] /\ req'[d] = req[d]
<1>1. Others \/ UNCHANGED vars => UNCHANGED <<pc, req>>
    BY DEF Others, ForeignWrite, TaintWrite, Schedule, PodEnds, vars, procVars
<1>. QED  BY <1>1, OneMovesAt DEF Next

\* The object that a request is about to put comes from the second reading.
LEMMA PutIsHeld ==
    ASSUME TypeOK, NEW c \in Clients, Ask(c) \/ Step(c) \/ CallFails(c), pc'[c] = "put"
    PROVE  /\ pc[c] = "update" /\ req[c].n \in alive /\ UNCHANGED <<alive, node, clock>>
           /\ req'[c] = [req[c] EXCEPT !.held = UpdateK8sNode(node[req[c].n], req[c].seen, req[c].taints)]
<1>1. ~Ask(c)
    BY AskBegins, MovesBy, Moved DEF First
<1>2. ~Return(c)
    BY MovesBy, Moved
<1>3. \A p : Goto(c, p) => p = "put"
    BY DEF Goto, TypeOK
<1>4. UpdateGet(c)
    BY <1>1, <1>2, <1>3 DEF CallFails, Step, TypeOK, GetNode, UpdatePut, CreateNodeGroup,
        GetNodeGroup, GetNodeList, NextNode, GetGroupOfNode, LabelIsGroup, DeleteRow,
        CheckEdgeHostname, GetEdgeHostname, NodeExists, CreateNode, DeleteNode,
        GetNodebyName, ListPods, DeletePod, Drained
<1>. QED  BY <1>2, <1>4 DEF UpdateGet, cluster, TypeOK

\* So does what an edit knows of the taints from its first reading.
LEMMA UpdateIsSeen ==
    ASSUME TypeOK, NEW c \in Clients, Ask(c) \/ Step(c) \/ CallFails(c), pc'[c] = "update"
    PROVE  /\ UNCHANGED <<alive, node, crossed>>
           /\ req'[c].n = req[c].n /\ req'[c].taints = node[req[c].n].taints
<1>1. ~Ask(c)
    BY AskBegins, MovesBy, Moved DEF First
<1>2. ~Return(c)
    BY MovesBy, Moved
<1>3. \A p : Goto(c, p) => p = "update"
    BY DEF Goto, TypeOK
<1>4. GetNode(c)
    BY <1>1, <1>2, <1>3 DEF CallFails, Step, TypeOK, UpdateGet, UpdatePut, CreateNodeGroup,
        GetNodeGroup, GetNodeList, NextNode, GetGroupOfNode, LabelIsGroup, DeleteRow,
        CheckEdgeHostname, GetEdgeHostname, NodeExists, CreateNode, DeleteNode,
        GetNodebyName, ListPods, DeletePod, Drained
<1>. DEFINE m == Edit(req[c].op, req[c].g, FromK8sNode(node[req[c].n]))
            t == node[req[c].n].taints
<1>5. /\ UNCHANGED <<alive, node, crossed>>
      /\ req' = [req EXCEPT ![c] = [req[c] EXCEPT !.seen = m, !.taints = t]]
    BY <1>2, <1>4 DEF GetNode, cluster, history, TypeOK
<1>. HIDE DEF m, t
<1>6. req'[c] = [req[c] EXCEPT !.seen = m, !.taints = t] /\ req[c] \in Request
    BY <1>5 DEF TypeOK
<1>7. req'[c].n = req[c].n /\ req'[c].taints = t
    BY <1>6 DEF Request
<1>. QED  BY <1>5, <1>7 DEF t

LEMMA VersionInit == Init => VersionInv
<1>. SUFFICES ASSUME Init PROVE VersionInv
    OBVIOUS
<1>1. \A n \in Nodes : node[n].version = 0
    BY FirstNodes DEF Init
<1>2. clock = 0 /\ \A c \in Clients : pc[c] = "idle"
    BY DEF Init
<1>. QED  BY <1>1, <1>2 DEF VersionInv, HeldOK, SeenOK

\* Taints that an edit has read stay, but for those of nodes in `crossed`.
TaintsStay ==
    /\ crossed \subseteq crossed'
    /\ \A n \in Nodes, d \in Clients :
        pc[d] = "update" /\ req[d].n = n /\ n \in alive' \ crossed' =>
            n \in alive /\ node'[n].taints = node[n].taints

LEMMA TaintsKept ==
    ASSUME TypeOK, VersionInv, [Next]_vars
    PROVE  TaintsStay
<1>1. CASE UNCHANGED <<node, clock, crossed>> /\ alive' \subseteq alive
    BY <1>1 DEF TaintsStay
<1>2. ASSUME NEW c \in Clients, UpdatePut(c) PROVE TaintsStay
    <2>1. pc[c] = "put" /\ HeldOK(pc[c], req[c]) /\ crossed' = crossed /\ req[c].n \in Nodes
        BY <1>2, RequestOf DEF UpdatePut, VersionInv, history
    <2>2. UpToDate(req[c].n, req[c].held) /\ req[c].n \notin crossed =>
              req[c].held.taints = node[req[c].n].taints
        BY <2>1 DEF HeldOK, UpToDate
    <2>. QED  BY <1>2, <2>1, <2>2, PutWrites DEF TaintsStay
<1>3. ASSUME NEW c \in Clients, CreateNode(c) PROVE TaintsStay
    <2>1. req[c].n \in Nodes
        BY RequestOf
    <2>. QED  BY <1>3, <2>1, CreateWrites DEF TaintsStay, Cross
<1>4. ASSUME NEW n \in Nodes, ForeignWrite(n) PROVE TaintsStay
    <2>1. crossed' = crossed
        BY <1>4 DEF ForeignWrite, history
    <2>. QED  BY <1>4, <2>1, ForeignWrites DEF TaintsStay
<1>5. ASSUME NEW n \in Nodes, TaintWrite(n) PROVE TaintsStay
    BY <1>5, TaintWrites DEF TaintsStay, Cross
<1>. QED  BY <1>1, <1>2, <1>3, <1>4, <1>5, Writers

LEMMA VersionNext ==
    ASSUME TypeOK, VersionInv, [Next]_vars
    PROVE  VersionInv'
<1>. USE VersionsAreNew DEF NewVersions
<1>0. TaintsStay
    BY TaintsKept
<1>1. \A n \in Nodes : node[n] \in K8sNode /\ node[n].version \in Nat
    BY DEF TypeOK, K8sNode
<1>2. \A n \in Nodes : node'[n].version <= clock'
    BY <1>1 DEF VersionInv, TypeOK
<1>3. ASSUME NEW d \in Clients, pc'[d] = pc[d], req'[d] = req[d]
      PROVE  HeldOK(pc[d], req[d])'
    <2>1. req[d].n \in Nodes /\ req[d].held.version \in Nat
        BY RequestOf DEF K8sNode
    <2>2. HeldOK(pc[d], req[d]) /\ clock \in Nat
        BY DEF VersionInv, TypeOK
    <2>3. \/ node'[req[d].n] = node[req[d].n] /\ clock <= clock' /\ clock' \in Nat
          \/ clock' = clock + 1 /\ node'[req[d].n].version = clock + 1
        BY <2>1
    <2>4. crossed \subseteq crossed'
        BY <1>0 DEF TaintsStay
    <2>. QED  BY <1>3, <2>1, <2>2, <2>3, <2>4 DEF HeldOK
<1>4. ASSUME NEW c \in Clients, Ask(c) \/ Step(c) \/ CallFails(c), pc'[c] = "put"
      PROVE  HeldOK(pc[c], req[c])'
    <2>. DEFINE r == [req[c] EXCEPT !.held = UpdateK8sNode(node[req[c].n], req[c].seen, req[c].taints)]
    <2>1. req'[c] = r /\ UNCHANGED <<node, clock>> /\ crossed \subseteq crossed'
        BY <1>0, <1>4, PutIsHeld DEF TaintsStay
    <2>2. /\ r.n = req[c].n /\ r.held.version = node[r.n].version
          /\ r.held.foreign = node[r.n].foreign /\ r.held.taints = req[c].taints
        BY RequestOf DEF Request, UpdateK8sNode, K8sNode, Node
    <2>. HIDE DEF r
    <2>3. req[c].n \notin crossed => req[c].taints = node[req[c].n].taints
        BY <1>4, PutIsHeld DEF VersionInv, SeenOK
    <2>. QED  BY <2>1, <2>2, <2>3, RequestOf DEF HeldOK, VersionInv
<1>5. \A d \in Clients : HeldOK(pc[d], req[d])'
    BY <1>3, <1>4, OneMoves DEF HeldOK
<1>6. ASSUME NEW d \in Clients, pc'[d] = pc[d], req'[d] = req[d]
      PROVE  SeenOK(pc[d], req[d])'
    <2>1. SeenOK(pc[d], req[d]) /\ req[d].n \in Nodes
        BY RequestOf DEF VersionInv
    <2>. QED  BY <1>0, <1>6, <2>1 DEF SeenOK, TaintsStay
<1>7. ASSUME NEW c \in Clients, Ask(c) \/ Step(c) \/ CallFails(c), pc'[c] = "update"
      PROVE  SeenOK(pc[c], req[c])'
    BY <1>7, UpdateIsSeen DEF SeenOK
<1>8. \A d \in Clients : SeenOK(pc[d], req[d])'
    BY <1>6, <1>7, OneMoves DEF SeenOK
<1>. QED  BY <1>2, <1>5, <1>8 DEF VersionInv

\* Whatever requests run side by side, no write takes back what others have written to a node:
\* the put of an object that was read before the last write is refused (nodes.Update).  The
\* taints, which are of an earlier reading, are kept when others wrote none since.
THEOREM ForeignStays == Spec => ForeignNeverReverts
<1>1. Init => TypeOK /\ VersionInv
    BY TypeInit, VersionInit
<1>2. TypeOK /\ VersionInv /\ [Next]_vars => (TypeOK /\ VersionInv)'
    BY TypeNext, VersionNext
<1>3. TypeOK /\ VersionInv /\ [Next]_vars
        => [\A n \in alive \cap alive' :
               /\ node'[n].foreign >= node[n].foreign
               /\ n \notin crossed => node'[n].taints >= node[n].taints]_vars
    <2>. SUFFICES ASSUME TypeOK, VersionInv, [Next]_vars, NEW n \in alive \cap alive'
                  PROVE  /\ node'[n].foreign >= node[n].foreign
                         /\ n \notin crossed => node'[n].taints >= node[n].taints
        OBVIOUS
    <2>. DEFINE Stays == /\ node'[n].foreign >= node[n].foreign
                         /\ n \notin crossed => node'[n].taints >= node[n].taints
    <2>1. n \in Nodes /\ node[n].foreign \in Nat /\ node[n].taints \in Nat
        BY DEF TypeOK, K8sNode
    <2>2. ASSUME NEW c \in Clients, UpdatePut(c) PROVE Stays
        <3>1. pc[c] = "put" /\ HeldOK(pc[c], req[c])
            BY <2>2 DEF UpdatePut, VersionInv
        <3>. QED  BY <2>1, <2>2, <3>1, PutWrites DEF UpToDate, HeldOK
    <2>3. ASSUME NEW c \in Clients, CreateNode(c) PROVE Stays
        BY <2>1, <2>3, CreateWrites
    <2>4. ASSUME NEW m \in Nodes, ForeignWrite(m) PROVE Stays
        BY <2>1, <2>4, ForeignWrites
    <2>5. ASSUME NEW m \in Nodes, TaintWrite(m) PROVE Stays
        BY <2>1, <2>5, TaintWrites
    <2>6. ASSUME UNCHANGED <<node, clock, crossed>> PROVE Stays
        BY <2>1, <2>6
    <2>. QED  BY <2>2, <2>3, <2>4, <2>5, <2>6, Writers
<1>. QED  BY <1>1, <1>2, <1>3, PTL DEF Spec, ForeignNeverReverts

-----------------------------------------------------------------------------
(* Requests that do not overlap.  The properties follow from what each request *)
(* knows at each of its steps of the node, the pods, or the group it is about. *)

\* The node at hand of a group's removal.
AtHand(p, r) == IF p \in {"labelsOf", "isGroup", "get", "update", "put"} THEN {r.n} ELSE {}

\* The copy that was read is still what the node is, with the edit.
EditKnown(p, r) ==
    /\ p = "update" /\ r.n \in alive => r.seen = Edit(r.op, r.g, FromK8sNode(node[r.n]))
    /\ p = "put" /\ r.n \in alive =>
           FromK8sNode(r.held) = Edit(r.op, r.g, FromK8sNode(node[r.n]))

\* No pod can have come to a node since its pods were listed.
DrainKnown(p, r) ==
    /\ p \in {"listPods", "deletePods"} => r.n \in alive /\ node[r.n].cordoned
    /\ p = "deletePods" /\ r.whole => \A q \in Pods : placed[q] = r.n => q \in r.pods \cup dying

\* The group that is removed has a row until the last step, and no node that was passed has it.
RemovalKnown(p, r) ==
    r.op = "removeGroup" =>
        /\ p \notin {"idle", "findGroup"} => r.id \in rows /\ row[r.id] = r.g
        /\ p = "deleteRow" => r.nodes = {}
        /\ p \in {"nextNode", "labelsOf", "isGroup", "get", "update", "put", "deleteRow"}
                /\ r.whole =>
               \A n \in alive \ (r.nodes \cup AtHand(p, r)) : r.g \in node[n].labels => r.g \in Reserved

Known(p, r) == Shape(p, r.op) /\ EditKnown(p, r) /\ DrainKnown(p, r) /\ RemovalKnown(p, r)

\* Requests side by side are about different nodes and groups.
Separate(r, s) ==
    /\ NodesOf(r.op, r.n) \cap NodesOf(s.op, s.n) = {}
    /\ GroupsOf(r.op, r.g) \cap GroupsOf(s.op, s.g) = {}

AllSeparate ==
    \A c, d \in Clients : c # d /\ pc[c] # "idle" /\ pc[d] # "idle" => Separate(req[c], req[d])

\* The three properties, and what they need to be inductive.
Kept ==
    /\ \A n \in alive : FromK8sNode(node[n]) = wanted[n]
    /\ \A n \in emptied : n \in alive /\ node[n].cordoned /\ PodsOn(n) \subseteq dying
    /\ \A n \in alive : node[n].labels \cap (cleared \ Reserved) = {}
    /\ \A id \in rows : id < nextRow

SerialInv == AllSeparate /\ Kept /\ \A c \in Clients : Known(pc[c], req[c])

\* What a step leaves as it is, outside the nodes N and the groups G.
Undisturbed(N, G) ==
    /\ \A n \in Nodes \ N : /\ n \in alive' <=> n \in alive
                            /\ FromK8sNode(node'[n]) = FromK8sNode(node[n])
    /\ \A n \in alive \ N, q \in Pods : node[n].cordoned /\ placed'[q] = n => placed[q] = n
    /\ dying \subseteq dying'
    /\ \A id \in rows : row[id] \notin G => id \in rows' /\ row'[id] = row[id]

LEMMA SameNode ==
    ASSUME NEW k, NEW j, FromK8sNode(k) = FromK8sNode(j)
    PROVE  k.labels = j.labels /\ k.cordoned = j.cordoned
BY DEF FromK8sNode

\* What a request knows stays true as long as others leave its nodes and its group alone.
LEMMA KnownStays ==
    ASSUME TypeOK, TypeOK', NEW d \in Clients, Known(pc[d], req[d]), pc'[d] = pc[d], req'[d] = req[d],
           NEW N, NEW G, Undisturbed(N, G),
           pc[d] # "idle" => /\ NodesOf(req[d].op, req[d].n) \cap N = {}
                             /\ GroupsOf(req[d].op, req[d].g) \cap G = {}
    PROVE  Known(pc[d], req[d])'
<1>. DEFINE r == req[d]
<1>1. CASE pc[d] = "idle"
    BY <1>1 DEF Known, Shape, EditKnown, DrainKnown, RemovalKnown
<1>2. CASE pc[d] # "idle"
    <2>1. r.n \in Nodes /\ NodesOf(r.op, r.n) \cap N = {} /\ GroupsOf(r.op, r.g) \cap G = {}
        BY <1>2, RequestOf
    <2>2. EditKnown(pc[d], r)'
        <3>1. CASE pc[d] \in {"update", "put"}
            <4>1. r.n \in Nodes \ N
                BY <2>1, <3>1 DEF Known, Shape, NodesOf, NodeOps, EditOps
            <4>. QED  BY <4>1 DEF Known, EditKnown, Undisturbed
        <3>. QED  BY <3>1 DEF EditKnown
    <2>3. DrainKnown(pc[d], r)'
        <3>1. CASE pc[d] \in {"listPods", "deletePods"}
            <4>1. r.n \in Nodes \ N
                BY <2>1, <3>1 DEF Known, Shape, NodesOf, NodeOps
            <4>2. r.n \in alive /\ node[r.n].cordoned
                BY <3>1 DEF Known, DrainKnown
            <4>3. r.n \in alive' /\ node'[r.n].cordoned
                BY <4>1, <4>2, SameNode DEF Undisturbed
            <4>. QED  BY <4>1, <4>2, <4>3 DEF Known, DrainKnown, Undisturbed
        <3>. QED  BY <3>1 DEF DrainKnown
    <2>4. RemovalKnown(pc[d], r)'
        <3>. SUFFICES ASSUME r.op = "removeGroup", pc[d] # "findGroup" PROVE RemovalKnown(pc[d], r)'
            BY DEF RemovalKnown
        <3>1. Nodes \cap N = {} /\ r.g \notin G
            BY <2>1 DEF NodesOf, NodeOps, GroupsOf
        <3>2. r.id \in rows' /\ row'[r.id] = r.g
            BY <1>2, <3>1 DEF Known, RemovalKnown, Undisturbed
        <3>3. \A n \in alive' : n \in alive /\ node'[n].labels = node[n].labels
            BY <3>1, SameNode DEF Undisturbed, TypeOK
        <3>. QED  BY <3>2, <3>3 DEF Known, RemovalKnown, AtHand
    <2>. QED  BY <2>2, <2>3, <2>4 DEF Known
<1>. QED  BY <1>1, <1>2

\* A request stays about the nodes and the group that it began with.
SameScope(r, s) ==
    NodesOf(s.op, s.n) = NodesOf(r.op, r.n) /\ GroupsOf(s.op, s.g) = GroupsOf(r.op, r.g)

\* What a step of a request has to show.
Done(c) ==
    /\ Undisturbed(NodesOf(req[c].op, req[c].n), GroupsOf(req[c].op, req[c].g))
    /\ Known(pc[c], req[c])'
    /\ Kept'
    /\ pc'[c] = "idle" \/ SameScope(req[c], req'[c])

LEMMA SerialStep ==
    ASSUME TypeOK, TypeOK', SerialInv, NEW c \in Clients, pc[c] # "idle", Done(c),
           \A d \in Clients \ {c} : pc'[d] = pc[d] /\ req'[d] = req[d]
    PROVE  SerialInv'
<1>1. \A d \in Clients \ {c} : pc[d] # "idle" => Separate(req[d], req[c]) /\ Separate(req[c], req[d])
    BY DEF SerialInv, AllSeparate
<1>2. \A d \in Clients \ {c} : Known(pc[d], req[d])'
    BY <1>1, KnownStays DEF Done, Separate, SerialInv
<1>3. \A d \in Clients : Known(pc[d], req[d])'
    BY <1>2 DEF Done
<1>4. \A d \in Clients \ {c} : pc'[c] # "idle" /\ pc'[d] # "idle" =>
          Separate(req'[d], req'[c]) /\ Separate(req'[c], req'[d])
    BY <1>1 DEF Done, Separate, SameScope
<1>5. \A a, b \in Clients \ {c} : a # b /\ pc'[a] # "idle" /\ pc'[b] # "idle" =>
          Separate(req'[a], req'[b])
    BY DEF SerialInv, AllSeparate
<1>6. AllSeparate'
    BY <1>4, <1>5 DEF AllSeparate, Separate
<1>. QED  BY <1>3, <1>6 DEF Done, SerialInv

\* A client without a request knows nothing.
LEMMA IdleKnows == \A r : Known("idle", r)
BY DEF Known, Shape, EditKnown, DrainKnown, RemovalKnown

LEMMA KnowsNothing ==
    ASSUME TypeOK, NEW c \in Clients, Return(c)
    PROVE  pc'[c] = "idle" /\ Known(pc[c], req[c])'
<1>1. pc'[c] = "idle"
    BY MovesBy, Moved
<1>. QED  BY <1>1 DEF Known, Shape, EditKnown, DrainKnown, RemovalKnown

\* Steps that only read.
LEMMA ReadStep ==
    ASSUME SerialInv, NEW c \in Clients, UNCHANGED <<cluster, table, history>>,
           Known(pc[c], req[c])', pc'[c] = "idle" \/ SameScope(req[c], req'[c])
    PROVE  Done(c)
<1>1. \A N, G : Undisturbed(N, G)
    BY DEF Undisturbed, cluster, table
<1>2. Kept'
    BY DEF SerialInv, Kept, PodsOn, cluster, table, history
<1>. QED  BY <1>1, <1>2 DEF Done

LEMMA ReturnStep ==
    ASSUME TypeOK, SerialInv, NEW c \in Clients, Return(c), UNCHANGED <<cluster, table, history>>
    PROVE  Done(c)
BY KnowsNothing, ReadStep

LEMMA MoveStep ==
    ASSUME TypeOK, SerialInv, NEW c \in Clients, UNCHANGED <<cluster, table, history>>,
           NEW p, NEW r, Moves(c, p, r), Known(p, r), SameScope(req[c], r)
    PROVE  Done(c)
<1>1. pc'[c] = p /\ req'[c] = r
    BY Moved
<1>2. Known(pc[c], req[c])'
    BY <1>1 DEF Known, EditKnown, DrainKnown, RemovalKnown, cluster, table
<1>. QED  BY <1>1, <1>2, ReadStep

LEMMA GotoStep ==
    ASSUME TypeOK, SerialInv, NEW c \in Clients, UNCHANGED <<cluster, table, history>>,
           NEW p, Goto(c, p), UNCHANGED req, Known(p, req[c])
    PROVE  Done(c)
BY MovesBy, MoveStep DEF SameScope

\* The node is read twice, and the second reading gets what was edited in the first.
LEMMA EditReads ==
    ASSUME TypeOK, SerialInv, NEW c \in Clients, GetNode(c) \/ UpdateGet(c)
    PROVE  Done(c)
<1>0. Known(pc[c], req[c]) /\ req[c] \in Request
    BY RequestOf DEF SerialInv
<1>1. CASE GetNode(c)
    <2>. DEFINE m == Edit(req[c].op, req[c].g, FromK8sNode(node[req[c].n]))
                t == node[req[c].n].taints
                r == [req[c] EXCEPT !.seen = m, !.taints = t]
    <2>1. pc[c] = "get" /\ UNCHANGED <<cluster, table, history>>
        BY <1>1 DEF GetNode
    <2>2. CASE Return(c)
        BY <2>1, <2>2, ReturnStep
    <2>3. CASE Moves(c, "update", r)
        <3>1. /\ r.op = req[c].op /\ r.n = req[c].n /\ r.g = req[c].g /\ r.nodes = req[c].nodes
              /\ r.id = req[c].id /\ r.whole = req[c].whole /\ r.seen = m
            BY <1>0, RequestOf, EditType, FromK8sNodeType DEF Request
        <3>. HIDE DEF r
        <3>2. Known("update", r)
            BY <1>0, <2>1, <3>1
            DEF Known, Shape, EditKnown, DrainKnown, RemovalKnown, AtHand
        <3>. QED  BY <2>1, <2>3, <3>1, <3>2, MoveStep DEF SameScope
    <2>. QED  BY <1>1, <2>2, <2>3 DEF GetNode, Goto, Moves
<1>2. CASE UpdateGet(c)
    <2>. DEFINE r == [req[c] EXCEPT !.held = UpdateK8sNode(node[req[c].n], req[c].seen, req[c].taints)]
    <2>1. pc[c] = "update" /\ UNCHANGED <<cluster, table, history>>
        BY <1>2 DEF UpdateGet
    <2>2. CASE Return(c)
        BY <2>1, <2>2, ReturnStep
    <2>3. CASE Moves(c, "put", r)
        <3>1. /\ r.op = req[c].op /\ r.n = req[c].n /\ r.g = req[c].g /\ r.nodes = req[c].nodes
              /\ r.id = req[c].id /\ r.whole = req[c].whole
              /\ r.held = UpdateK8sNode(node[req[c].n], req[c].seen, req[c].taints)
            BY <1>0 DEF Request
        <3>. HIDE DEF r
        <3>2. FromK8sNode(r.held) = req[c].seen
            BY <3>1, RequestOf DEF UpdateK8sNode, FromK8sNode, K8sNode, Node
        <3>3. Known("put", r)
            BY <1>0, <2>1, <3>1, <3>2
            DEF Known, Shape, EditKnown, DrainKnown, RemovalKnown, AtHand
        <3>. QED  BY <2>1, <2>3, <3>1, <3>3, MoveStep DEF SameScope
    <2>. QED  BY <1>2, <2>2, <2>3 DEF UpdateGet, Goto, Moves
<1>. QED  BY <1>1, <1>2

\* The steps of a group's removal that only read.
LEMMA RemovalReads ==
    ASSUME TypeOK, SerialInv, NEW c \in Clients,
           \/ GetNodeGroup(c) \/ GetNodeList(c) \/ NextNode(c) \/ GetGroupOfNode(c) \/ LabelIsGroup(c)
    PROVE  Done(c)
<1>0. Known(pc[c], req[c]) /\ req[c] \in Request
    BY RequestOf DEF SerialInv
<1>. USE DEF Known, Shape, EditKnown, DrainKnown, RemovalKnown, AtHand
<1>1. CASE GetNodeGroup(c)
    <2>1. pc[c] = "findGroup" /\ UNCHANGED <<cluster, table, history>>
        BY <1>1 DEF GetNodeGroup
    <2>2. ASSUME NEW id \in rows, row[id] = req[c].g, Moves(c, "listNodes", [req[c] EXCEPT !.id = id])
          PROVE  Done(c)
        <3>. DEFINE r == [req[c] EXCEPT !.id = id]
        <3>1. r.op = req[c].op /\ r.n = req[c].n /\ r.g = req[c].g /\ r.id = id
            BY <1>0 DEF Request
        <3>. HIDE DEF r
        <3>2. Known("listNodes", r)
            BY <1>0, <2>1, <2>2, <3>1
        <3>3. Moves(c, "listNodes", r)
            BY <2>2 DEF r
        <3>. QED  BY <2>1, <3>1, <3>2, <3>3, MoveStep DEF SameScope
    <2>3. Return(c) \/ \E id \in rows : row[id] = req[c].g
                          /\ Moves(c, "listNodes", [req[c] EXCEPT !.id = id])
        BY <1>1 DEF GetNodeGroup, Goto, Moves
    <2>. QED  BY <2>1, <2>2, <2>3, ReturnStep
<1>2. CASE GetNodeList(c)
    <2>1. pc[c] = "listNodes" /\ UNCHANGED <<cluster, table, history>>
        BY <1>2 DEF GetNodeList
    <2>2. ASSUME NEW r, \/ r = [req[c] EXCEPT !.nodes = alive]
                        \/ r = [req[c] EXCEPT !.nodes = {}, !.whole = FALSE],
                 Moves(c, "nextNode", r)
          PROVE  Done(c)
        <3>1. /\ r.op = req[c].op /\ r.n = req[c].n /\ r.g = req[c].g /\ r.id = req[c].id
              /\ r.nodes = alive \/ r.whole = FALSE
            BY <1>0, <2>2 DEF Request
        <3>2. Known("nextNode", r)
            BY <1>0, <2>1, <3>1
        <3>. QED  BY <2>1, <2>2, <3>1, <3>2, MoveStep DEF SameScope
    <2>3. \/ Moves(c, "nextNode", [req[c] EXCEPT !.nodes = alive])
          \/ Moves(c, "nextNode", [req[c] EXCEPT !.nodes = {}, !.whole = FALSE])
        BY <1>2 DEF GetNodeList, Goto, Moves
    <2>. QED  BY <2>2, <2>3
<1>3. CASE NextNode(c)
    <2>1. /\ pc[c] = "nextNode" /\ req[c].op = "removeGroup"
          /\ UNCHANGED <<cluster, table, history>>
        BY <1>0, <1>3 DEF NextNode
    <2>2. ASSUME NEW n \in req[c].nodes,
                 Moves(c, "labelsOf", [req[c] EXCEPT !.n = n, !.nodes = @ \ {n}])
          PROVE  Done(c)
        <3>. DEFINE r == [req[c] EXCEPT !.n = n, !.nodes = @ \ {n}]
        <3>1. /\ r.op = req[c].op /\ r.n = n /\ r.g = req[c].g /\ r.id = req[c].id
              /\ r.nodes = req[c].nodes \ {n} /\ r.whole = req[c].whole
            BY <1>0 DEF Request
        <3>. HIDE DEF r
        <3>2. Known("labelsOf", r)
            BY <1>0, <2>1, <3>1
        <3>3. SameScope(req[c], r)
            BY <2>1, <3>1 DEF SameScope, NodesOf, NodeOps
        <3>4. Moves(c, "labelsOf", r)
            BY <2>2 DEF r
        <3>. QED  BY <2>1, <3>2, <3>3, <3>4, MoveStep
    <2>3. CASE Goto(c, "deleteRow") /\ UNCHANGED req /\ req[c].nodes = {}
        BY <1>0, <2>1, <2>3, GotoStep
    <2>4. \/ Goto(c, "deleteRow") /\ UNCHANGED req /\ req[c].nodes = {}
          \/ \E n \in req[c].nodes : Moves(c, "labelsOf", [req[c] EXCEPT !.n = n, !.nodes = @ \ {n}])
        BY <1>3 DEF NextNode, Goto, Moves
    <2>. QED  BY <2>2, <2>3, <2>4
<1>4. CASE GetGroupOfNode(c)
    <2>1. pc[c] = "labelsOf" /\ UNCHANGED <<cluster, table, history>>
        BY <1>4 DEF GetGroupOfNode
    <2>2. CASE Goto(c, "isGroup") /\ UNCHANGED req
        BY <1>0, <2>1, <2>2, GotoStep
    <2>3. CASE /\ Goto(c, "nextNode") /\ UNCHANGED req
               /\ req[c].g \notin node[req[c].n].labels \ Reserved
        BY <1>0, <2>1, <2>3, GotoStep
    <2>. QED  BY <1>4, <2>1, <2>2, <2>3, ReturnStep DEF GetGroupOfNode
<1>5. CASE LabelIsGroup(c)
    <2>1. pc[c] = "isGroup" /\ UNCHANGED <<cluster, table, history>> /\ UNCHANGED req
        BY <1>5 DEF LabelIsGroup
    <2>2. NodeGroupExists(req[c].g)
        BY <1>0, <2>1 DEF NodeGroupExists
    <2>3. Goto(c, "get")
        BY <1>5, <2>2 DEF LabelIsGroup
    <2>4. Known("get", req[c])
        BY <1>0, <2>1
    <2>. QED  BY <2>1, <2>3, <2>4, GotoStep
<1>. QED  BY <1>1, <1>2, <1>3, <1>4, <1>5

LEMMA EditFacts ==
    ASSUME NEW op \in EditOps \cup {"removeGroup"}, NEW g \in Groups, NEW m \in Node
    PROVE  /\ op = "addLabel" => Edit(op, g, m).labels = m.labels \cup {g}
           /\ op \in {"delLabel", "removeGroup"} => Edit(op, g, m).labels = m.labels \ {g}
           /\ op \in {"suspend", "resume"} => Edit(op, g, m).labels = m.labels
           /\ op # "resume" /\ m.cordoned => Edit(op, g, m).cordoned
BY DEF Edit, EditOps, Node

\* An accepted put makes of the node what was asked for: nothing else has changed it.
LEMMA PutStep ==
    ASSUME TypeOK, TypeOK', SerialInv, NEW c \in Clients, UpdatePut(c)
    PROVE  Done(c)
<1>. DEFINE n  == req[c].n
            op == req[c].op
            g  == req[c].g
            old == FromK8sNode(node[n])
            new == FromK8sNode(node'[n])
<1>0. /\ Known("put", req[c]) /\ pc[c] = "put" /\ UNCHANGED <<alive, placed, dying, table>>
      /\ n \in Nodes /\ g \in Groups /\ old \in Node
    BY RequestOf, FromK8sNodeType DEF UpdatePut, SerialInv
<1>1. op \in EditOps \cup {"removeGroup"} /\ n \in NodesOf(op, n)
    BY <1>0 DEF Known, Shape, NodesOf, NodeOps, EditOps
<1>2. CASE ~UpToDate(n, req[c].held)
    BY <1>2, ReturnStep DEF UpdatePut, cluster, table
<1>3. CASE UpToDate(n, req[c].held)
    <2>1. /\ wanted' = [wanted EXCEPT ![n] = Edit(op, g, @)]
          /\ emptied' = IF op = "resume" THEN emptied \ {n} ELSE emptied
          /\ cleared' = cleared \ Uses(op, {g})
          /\ IF op = "removeGroup" THEN Goto(c, "nextNode") /\ UNCHANGED req ELSE Return(c)
        BY <1>3 DEF UpdatePut
    <2>2. n \in alive /\ \A m \in Nodes \ {n} : node'[m] = node[m]
        BY <1>3, PutWrites DEF UpToDate
    <2>3. new = Edit(op, g, old)
        <3>1. new = FromK8sNode(req[c].held)
            <4>1. clock' = clock + 1
                BY <1>3 DEF UpdatePut
            <4>2. clock' # clock
                BY <4>1 DEF TypeOK
            <4>. QED  BY <4>2, PutWrites
        <3>. QED  BY <1>0, <2>2, <3>1 DEF Known, EditKnown
    <2>4. /\ node'[n].labels = Edit(op, g, old).labels /\ node[n].labels = old.labels
          /\ node'[n].cordoned = Edit(op, g, old).cordoned /\ node[n].cordoned = old.cordoned
        BY <2>3 DEF FromK8sNode
    <2>. HIDE DEF old, new
    <2>5. Undisturbed(NodesOf(op, n), GroupsOf(op, g))
        BY <1>0, <1>1, <2>2 DEF Undisturbed, table
    <2>6. Kept'
        <3>1. \A m \in alive' : FromK8sNode(node'[m]) = wanted'[m]
            BY <1>0, <2>1, <2>2, <2>3 DEF SerialInv, Kept, TypeOK, old, new
        <3>2. \A m \in emptied' : m \in alive' /\ node'[m].cordoned /\ PodsOn(m)' \subseteq dying'
            <4>1. ASSUME NEW m \in emptied' PROVE m \in emptied /\ (m = n => op # "resume")
                BY <2>1
            <4>2. ASSUME NEW m \in emptied
                  PROVE  m \in alive /\ node[m].cordoned /\ PodsOn(m) \subseteq dying
                BY DEF SerialInv, Kept
            <4>3. node[n].cordoned /\ op # "resume" => node'[n].cordoned
                <5>1. old \in Node
                    BY <1>0, <1>1 DEF old
                <5>. QED  BY <1>0, <1>1, <2>4, <5>1, EditFacts
            <4>4. alive' = alive /\ dying' = dying /\ \A m \in Nodes : PodsOn(m)' = PodsOn(m)
                BY <1>0 DEF PodsOn
            <4>. QED  BY <2>2, <4>1, <4>2, <4>3, <4>4 DEF TypeOK
        <3>3. \A m \in alive' : node'[m].labels \cap (cleared' \ Reserved) = {}
            <4>1. cleared' \subseteq cleared /\ (op = "addLabel" => g \notin cleared')
                BY <2>1 DEF Uses
            <4>2. node'[n].labels \subseteq node[n].labels \cup (IF op = "addLabel" THEN {g} ELSE {})
                BY <1>0, <1>1, <2>4, EditFacts DEF EditOps
            <4>. QED  BY <1>0, <2>2, <4>1, <4>2 DEF SerialInv, Kept, TypeOK
        <3>. QED  BY <1>0, <3>1, <3>2, <3>3 DEF SerialInv, Kept, table
    <2>7. Known(pc[c], req[c])' /\ (pc'[c] = "idle" \/ SameScope(req[c], req'[c]))
        <3>1. CASE op # "removeGroup"
            BY <2>1, <3>1, KnowsNothing
        <3>2. CASE op = "removeGroup"
            <4>1. pc'[c] = "nextNode" /\ req'[c] = req[c]
                BY <2>1, <3>2 DEF Goto, TypeOK
            <4>2. g \notin node'[n].labels
                BY <1>0, <1>1, <2>4, <3>2, EditFacts
            <4>3. RemovalKnown("nextNode", req[c])'
                <5>1. req[c].id \in rows' /\ row'[req[c].id] = g
                    BY <1>0, <3>2 DEF Known, RemovalKnown, table
                <5>2. req[c].whole => \A m \in alive' \ req[c].nodes :
                                         g \in node'[m].labels => g \in Reserved
                    BY <1>0, <2>2, <3>2, <4>2 DEF Known, RemovalKnown, AtHand, TypeOK
                <5>. QED  BY <4>1, <5>1, <5>2 DEF RemovalKnown
            <4>. QED  BY <1>0, <3>2, <4>1, <4>3
                      DEF Known, Shape, EditKnown, DrainKnown, SameScope, RemovalKnown, AtHand
        <3>. QED  BY <3>1, <3>2
    <2>. QED  BY <2>5, <2>6, <2>7 DEF Done
<1>. QED  BY <1>2, <1>3

\* Rows are inserted with new ids; the row of a removed group is the last thing to go.
LEMMA RowSteps ==
    ASSUME TypeOK, TypeOK', SerialInv, NEW c \in Clients, CreateNodeGroup(c) \/ DeleteRow(c)
    PROVE  Done(c)
<1>0. Known(pc[c], req[c]) /\ Kept
    BY DEF SerialInv
<1>1. CASE CreateNodeGroup(c)
    <2>1. Undisturbed(NodesOf(req[c].op, req[c].n), GroupsOf(req[c].op, req[c].g))
        BY <1>0, <1>1 DEF CreateNodeGroup, Undisturbed, Kept, cluster, TypeOK, RowIds
    <2>2. Kept'
        BY <1>0, <1>1 DEF CreateNodeGroup, Kept, PodsOn, cluster, history, TypeOK, RowIds
    <2>. QED  BY <1>1, <2>1, <2>2, KnowsNothing DEF CreateNodeGroup, Done
<1>2. CASE DeleteRow(c)
    <2>. DEFINE r == req[c]
    <2>1. /\ r.op = "removeGroup" /\ row[r.id] = r.g /\ r.g \in GroupsOf(r.op, r.g)
          /\ r.whole => \A n \in alive : r.g \in node[n].labels => r.g \in Reserved
        BY <1>0, <1>2 DEF DeleteRow, Known, Shape, RemovalKnown, AtHand, GroupsOf
    <2>2. Undisturbed(NodesOf(r.op, r.n), GroupsOf(r.op, r.g))
        BY <1>2, <2>1 DEF DeleteRow, Undisturbed, cluster
    <2>3. Kept'
        BY <1>0, <1>2, <2>1 DEF DeleteRow, Kept, PodsOn, cluster, TypeOK
    <2>. QED  BY <1>2, <2>2, <2>3, KnowsNothing DEF DeleteRow, Done
<1>. QED  BY <1>1, <1>2

\* Nodes that come and go: the steps of AddNode, AddEdgeNode and RemoveNode.
LEMMA MemberSteps ==
    ASSUME TypeOK, TypeOK', SerialInv, NEW c \in Clients,
           CheckEdgeHostname(c) \/ NodeExists(c) \/ CreateNode(c) \/ DeleteNode(c)
    PROVE  Done(c)
<1>0. Known(pc[c], req[c]) /\ Kept /\ req[c].n \in Nodes
    BY RequestOf DEF SerialInv
<1>1. CASE CheckEdgeHostname(c)
    <2>1. pc[c] = "hostname" /\ UNCHANGED <<cluster, table, history>>
        BY <1>1 DEF CheckEdgeHostname
    <2>2. Known("nodeExists", req[c])
        BY <1>0, <2>1 DEF Known, Shape, EditKnown, DrainKnown, RemovalKnown
    <2>. QED  BY <1>1, <2>1, <2>2, ReturnStep, GotoStep DEF CheckEdgeHostname, GetEdgeHostname
<1>2. CASE NodeExists(c)
    <2>1. pc[c] = "nodeExists" /\ UNCHANGED <<cluster, table, history>>
        BY <1>2 DEF NodeExists
    <2>2. Known("create", req[c])
        BY <1>0, <2>1 DEF Known, Shape, EditKnown, DrainKnown, RemovalKnown
    <2>. QED  BY <1>2, <2>1, <2>2, ReturnStep, GotoStep DEF NodeExists
<1>3. CASE CreateNode(c)
    <2>1. /\ req[c].n \in NodesOf(req[c].op, req[c].n) /\ Return(c)
          /\ UNCHANGED <<placed, dying, table, emptied>>
        BY <1>0, <1>3 DEF CreateNode, Known, Shape, NodesOf, NodeOps
    <2>2. CASE UNCHANGED <<alive, node, clock, wanted, cleared, crossed>>
        BY <2>1, <2>2, ReturnStep DEF cluster, table, history
    <2>3. CASE ~UNCHANGED <<alive, node, clock, wanted, cleared, crossed>>
        <3>1. /\ req[c].n \notin alive /\ alive' = alive \cup {req[c].n}
              /\ \A m \in Nodes \ {req[c].n} : node'[m] = node[m] /\ wanted'[m] = wanted[m]
              /\ FromK8sNode(node'[req[c].n]) = wanted'[req[c].n]
              /\ node'[req[c].n].labels = req[c].labels
              /\ cleared' = cleared \ req[c].labels
            BY <1>3, <2>3, CreateWrites
        <3>2. Undisturbed(NodesOf(req[c].op, req[c].n), GroupsOf(req[c].op, req[c].g))
            BY <2>1, <3>1 DEF Undisturbed, table
        <3>3. Kept'
            BY <1>0, <2>1, <3>1 DEF Kept, PodsOn, table, TypeOK
        <3>. QED  BY <2>1, <3>2, <3>3, KnowsNothing DEF Done
    <2>. QED  BY <2>2, <2>3
<1>4. CASE DeleteNode(c)
    <2>1. req[c].n \in NodesOf(req[c].op, req[c].n)
        BY <1>0, <1>4 DEF DeleteNode, Known, Shape, NodesOf, NodeOps
    <2>2. Undisturbed(NodesOf(req[c].op, req[c].n), GroupsOf(req[c].op, req[c].g))
        BY <1>4, <2>1 DEF DeleteNode, Undisturbed, table
    <2>3. Kept'
        BY <1>0, <1>4 DEF DeleteNode, Kept, PodsOn, table
    <2>. QED  BY <1>4, <2>2, <2>3, KnowsNothing DEF DeleteNode, Done
<1>. QED  BY <1>1, <1>2, <1>3, <1>4

\* A drain lists the pods when no new one can come, and passes each of them.
LEMMA DrainSteps ==
    ASSUME TypeOK, TypeOK', SerialInv, NEW c \in Clients,
           GetNodebyName(c) \/ ListPods(c) \/ (\E q \in Pods : DeletePod(c, q)) \/ Drained(c)
    PROVE  Done(c)
<1>0. Known(pc[c], req[c]) /\ Kept /\ req[c] \in Request /\ req[c].n \in Nodes
    BY RequestOf DEF SerialInv
<1>1. CASE GetNodebyName(c)
    <2>1. pc[c] = "getDrain" /\ UNCHANGED <<cluster, table, history>>
        BY <1>1 DEF GetNodebyName
    <2>2. CASE /\ req[c].n \in alive /\ node[req[c].n].cordoned
               /\ Goto(c, "listPods") /\ UNCHANGED req
        <3>1. Known("listPods", req[c])
            BY <1>0, <2>1, <2>2 DEF Known, Shape, EditKnown, DrainKnown, RemovalKnown
        <3>. QED  BY <2>1, <2>2, <3>1, GotoStep
    <2>. QED  BY <1>1, <2>1, <2>2, ReturnStep DEF GetNodebyName
<1>2. CASE ListPods(c)
    <2>. DEFINE r == [req[c] EXCEPT !.pods = {q \in Pods : placed[q] = req[c].n}]
    <2>1. pc[c] = "listPods" /\ UNCHANGED <<cluster, table, history>> /\ Moves(c, "deletePods", r)
        BY <1>2 DEF ListPods, Goto, Moves
    <2>2. /\ r.op = req[c].op /\ r.n = req[c].n /\ r.g = req[c].g /\ r.whole = req[c].whole
          /\ r.pods = {q \in Pods : placed[q] = req[c].n}
        BY <1>0 DEF Request
    <2>. HIDE DEF r
    <2>3. Known("deletePods", r)
        BY <1>0, <2>1, <2>2 DEF Known, Shape, EditKnown, DrainKnown, RemovalKnown
    <2>. QED  BY <2>1, <2>2, <2>3, MoveStep DEF SameScope
<1>3. ASSUME NEW q \in Pods, DeletePod(c, q) PROVE Done(c)
    <2>1. /\ pc[c] = "deletePods" /\ pc'[c] = "deletePods"
          /\ UNCHANGED <<alive, node, table, history>>
        BY <1>3 DEF DeletePod
    <2>2. /\ req'[c].op = req[c].op /\ req'[c].n = req[c].n /\ req'[c].g = req[c].g
          /\ req'[c].pods = req[c].pods \ {q} /\ placed' = placed
          /\ \/ req'[c].whole = req[c].whole /\ dying' = dying \cup {q}
             \/ req'[c].whole = FALSE /\ UNCHANGED dying
        BY <1>0, <1>3 DEF DeletePod, TypeOK, Request
    <2>4. dying \subseteq dying' /\ (req'[c].whole => req[c].whole /\ q \in dying')
        BY <2>2
    <2>5. Undisturbed(NodesOf(req[c].op, req[c].n), GroupsOf(req[c].op, req[c].g))
        BY <2>1, <2>2, <2>4 DEF Undisturbed, table
    <2>6. Kept'
        BY <1>0, <2>1, <2>2, <2>4 DEF Kept, PodsOn, table, history
    <2>7. Known(pc[c], req[c])'
        BY <1>0, <2>1, <2>2, <2>4 DEF Known, Shape, EditKnown, DrainKnown, RemovalKnown
    <2>. QED  BY <2>1, <2>2, <2>5, <2>6, <2>7 DEF Done, SameScope
<1>4. CASE Drained(c)
    <2>1. /\ UNCHANGED <<cluster, table, wanted, cleared>>
          /\ req[c].n \in alive /\ node[req[c].n].cordoned
          /\ req[c].whole => PodsOn(req[c].n) \subseteq dying
        BY <1>0, <1>4 DEF Drained, Known, DrainKnown, PodsOn
    <2>2. Undisturbed(NodesOf(req[c].op, req[c].n), GroupsOf(req[c].op, req[c].g))
        BY <2>1 DEF Undisturbed, cluster, table
    <2>3. Kept'
        BY <1>0, <1>4, <2>1 DEF Drained, Kept, PodsOn, cluster, table
    <2>. QED  BY <1>4, <2>2, <2>3, KnowsNothing DEF Drained, Done
<1>. QED  BY <1>1, <1>2, <1>3, <1>4

\* A request begins only when none of those underway is about its node or its group.
LEMMA AskStep ==
    ASSUME TypeOK, TypeOK', SerialInv, ~overlap, NEW c \in Clients, Ask(c)
    PROVE  SerialInv'
<1>1. PICK r \in Request, p \in PCs : Begin(c, r, p) /\ First(p, r.op)
    BY AskBegins
<1>2. /\ pc[c] = "idle" /\ UNCHANGED <<cluster, table, history>> /\ Apart(r.op, r.n, r.g)
      /\ pc'[c] = p /\ req'[c] = r
      /\ \A d \in Clients \ {c} : pc'[d] = pc[d] /\ req'[d] = req[d]
    BY <1>1, MovesBy, Moved DEF Begin
<1>3. \A d \in Clients \ {c} : Known(pc[d], req[d])'
    <2>1. Undisturbed({}, {})
        BY <1>2 DEF Undisturbed, cluster, table
    <2>. QED  BY <1>2, <2>1, KnownStays DEF SerialInv
<1>4. Known(pc[c], req[c])'
    <2>1. p \notin {"update", "put", "listPods", "deletePods", "listNodes", "nextNode", "labelsOf",
                    "isGroup", "deleteRow"}
        BY <1>1 DEF First
    <2>2. r.op = "removeGroup" => p = "findGroup"
        BY <1>1 DEF First, Shape, EditOps
    <2>. QED  BY <1>1, <1>2, <2>1, <2>2 DEF First, Known, EditKnown, DrainKnown, RemovalKnown
<1>5. \A d \in Clients \ {c} : pc[d] # "idle" => Separate(r, req[d]) /\ Separate(req[d], r)
    BY <1>2 DEF Apart, Separate
<1>6. AllSeparate'
    <2>1. \A a, b \in Clients \ {c} : a # b /\ pc'[a] # "idle" /\ pc'[b] # "idle" =>
              Separate(req'[a], req'[b])
        BY <1>2 DEF SerialInv, AllSeparate
    <2>. QED  BY <1>2, <1>5, <2>1 DEF AllSeparate, Separate
<1>7. Kept'
    BY <1>2 DEF SerialInv, Kept, PodsOn, cluster, table, history
<1>. QED  BY <1>3, <1>4, <1>6, <1>7 DEF SerialInv

\* The scheduler leaves nodes alone that are not schedulable; other writes do not touch what the
\* program edits.
LEMMA OthersStep ==
    ASSUME TypeOK, TypeOK', SerialInv, Others
    PROVE  SerialInv'
<1>1. UNCHANGED <<pc, req, table, wanted, emptied, cleared, alive, dying>>
    BY DEF Others, ForeignWrite, TaintWrite, Schedule, PodEnds, procVars, history
<1>2. \A n \in Nodes : FromK8sNode(node'[n]) = FromK8sNode(node[n])
    BY ForeignWrites, TaintWrites DEF Others, Schedule, PodEnds
<1>3. \A n \in Nodes : node'[n].labels = node[n].labels /\ node'[n].cordoned = node[n].cordoned
    BY <1>2, SameNode
<1>4. \A n \in alive, q \in Pods : node[n].cordoned /\ placed'[q] = n => placed[q] = n
    <2>1. "gone" \notin Nodes
        BY ClusterNodesAssumption
    <2>2. ASSUME NEW n \in Nodes, ForeignWrite(n) \/ TaintWrite(n) PROVE placed' = placed
        BY <2>2 DEF ForeignWrite, TaintWrite
    <2>3. ASSUME NEW p \in Pods, NEW m \in Nodes, Schedule(p, m)
          PROVE  /\ ~node[m].cordoned /\ placed'[p] = m
                 /\ \A q \in Pods \ {p} : placed'[q] = placed[q]
        BY <2>3 DEF Schedule, TypeOK
    <2>4. ASSUME NEW p \in Pods, PodEnds(p)
          PROVE  placed'[p] = "gone" /\ \A q \in Pods \ {p} : placed'[q] = placed[q]
        BY <2>4 DEF PodEnds, TypeOK
    <2>. QED  BY <2>1, <2>2, <2>3, <2>4 DEF Others, TypeOK
<1>5. Undisturbed({}, {})
    BY <1>1, <1>2, <1>4 DEF Undisturbed, table
<1>6. \A d \in Clients : Known(pc[d], req[d])'
    BY <1>1, <1>5, KnownStays DEF SerialInv
<1>7. Kept'
    BY <1>1, <1>2, <1>3, <1>4 DEF SerialInv, Kept, PodsOn, table, TypeOK
<1>8. AllSeparate'
    BY <1>1 DEF SerialInv, AllSeparate, Separate
<1>. QED  BY <1>6, <1>7, <1>8 DEF SerialInv

LEMMA SerialInit == Init => SerialInv
<1>. SUFFICES ASSUME Init PROVE SerialInv
    OBVIOUS
<1>1. \A n \in Nodes : FromK8sNode(node[n]) = wanted[n]
    BY FirstNodes DEF Init
<1>. QED  BY <1>1, IdleKnows DEF Init, SerialInv, AllSeparate, Kept

LEMMA OverlapStays == [Next]_vars => overlap' = overlap
<1>1. ASSUME NEW c \in Clients, Ask(c) PROVE overlap' = overlap
    BY <1>1, AskBegins DEF Begin
<1>2. ASSUME NEW c \in Clients, Step(c) PROVE overlap' = overlap
    BY <1>2 DEF Step, GetNode, UpdateGet, UpdatePut, CreateNodeGroup, GetNodeGroup, GetNodeList,
        NextNode, GetGroupOfNode, LabelIsGroup, DeleteRow, CheckEdgeHostname, NodeExists,
        CreateNode, DeleteNode, GetNodebyName, ListPods, DeletePod, Drained
<1>3. ASSUME NEW c \in Clients, CallFails(c) PROVE overlap' = overlap
    BY <1>3 DEF CallFails
<1>4. Others => overlap' = overlap
    BY DEF Others, ForeignWrite, TaintWrite, Schedule, PodEnds
<1>. QED  BY <1>1, <1>2, <1>3, <1>4 DEF Next, vars

LEMMA SerialNext ==
    ASSUME TypeOK, SerialInv, ~overlap, [Next]_vars
    PROVE  SerialInv' /\ ~overlap'
<1>0. TypeOK'
    BY TypeNext
<1>1. ASSUME NEW c \in Clients, Step(c) \/ CallFails(c) PROVE SerialInv'
    <2>1. Done(c)
        <3>1. CASE CallFails(c)
            BY <3>1, ReturnStep DEF CallFails
        <3>. QED  BY <1>0, <1>1, <3>1, EditReads, RemovalReads, PutStep, RowSteps, MemberSteps,
                     DrainSteps DEF Step
    <2>2. pc[c] # "idle"
        BY <1>1 DEF CallFails, Step, GetNode, UpdateGet, UpdatePut, CreateNodeGroup, GetNodeGroup,
            GetNodeList, NextNode, GetGroupOfNode, LabelIsGroup, DeleteRow, CheckEdgeHostname,
            NodeExists, CreateNode, DeleteNode, GetNodebyName, ListPods, DeletePod, Drained
    <2>3. \A d \in Clients \ {c} : pc'[d] = pc[d] /\ req'[d] = req[d]
        BY <1>1, OneMovesAt
    <2>. QED  BY <1>0, <2>1, <2>2, <2>3, SerialStep
<1>2. CASE UNCHANGED vars
    BY <1>2 DEF vars, cluster, table, procVars, history, SerialInv, AllSeparate, Separate, Kept, PodsOn,
        Known, EditKnown, DrainKnown, RemovalKnown
<1>3. overlap' = overlap
    BY OverlapStays
<1>. QED  BY <1>0, <1>1, <1>2, <1>3, AskStep, OthersStep DEF Next

LEMMA Serial == Spec => [](TypeOK /\ (~overlap => SerialInv))
<1>1. Init => TypeOK /\ (~overlap => SerialInv)
    BY TypeInit, SerialInit
<1>2. TypeOK /\ (~overlap => SerialInv) /\ [Next]_vars => (TypeOK /\ (~overlap => SerialInv))'
    <2>. SUFFICES ASSUME TypeOK, ~overlap => SerialInv, [Next]_vars
                  PROVE  TypeOK' /\ (~overlap' => SerialInv')
        OBVIOUS
    <2>1. overlap' = overlap
        BY OverlapStays
    <2>. QED  BY <2>1, TypeNext, SerialNext
<1>. QED  BY <1>1, <1>2, PTL DEF Spec

\* Requests about different nodes and groups do not undo each other's edits, whatever else runs
\* and whichever calls fail (AddNodeToGroup, RemoveNodeGroup, Suspend, Resume).
THEOREM EditsStay == Spec => []AnsweredEditsStay
<1>1. (~overlap => SerialInv) => AnsweredEditsStay
    BY DEF SerialInv, Kept, AnsweredEditsStay
<1>. QED  BY <1>1, Serial, PTL

\* A node that was drained has no pods but those that are ending until it is made schedulable
\* again; then it can be removed unless it is a master (NodeDrainAction, GetNodeControlStatus).
THEOREM DrainedStayEmpty == Spec => []DrainedNodesStayEmpty
<1>1. (~overlap => SerialInv) => DrainedNodesStayEmpty
    BY DEF SerialInv, Kept, DrainedNodesStayEmpty, NodeDeletable
<1>. QED  BY <1>1, Serial, PTL

\* A group that was removed with all nodes listed is on no node (RemoveNodeGroup).
THEOREM RemovedLeaveNoLabel == Spec => []RemovedGroupsLeaveNoLabel
<1>1. (~overlap => SerialInv) => RemovedGroupsLeaveNoLabel
    BY DEF SerialInv, Kept, RemovedGroupsLeaveNoLabel
<1>. QED  BY <1>1, Serial, PTL

=============================================================================
