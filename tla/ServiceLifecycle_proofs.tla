------------------------ MODULE ServiceLifecycle_proofs ------------------------
(* What the proof system checks about ServiceLifecycle: of every instance first, then of the serial ones. *)
EXTENDS ServiceSerial, TLAPS

-----------------------------------------------------------------------------
(* Type correctness. *)

LEMMA RowBound == MaxRows \in Nat
BY ConstantsAssumption

\* A row inserted, updated or deleted leaves a well-typed table.
LEMMA TableTypes ==
    ASSUME TypeOK,
           NEW n \in Names, NEW t \in Types, NEW s \in Statuses, NEW id,
           \/ AddService(n, t, s)
           \/ UpdateServiceStatus(id, s)
           \/ DeleteServiceRow(id)
    PROVE  /\ live' \subseteq RowIds
           /\ row' \in [RowIds -> Row]
           /\ nextId' \in 1..(MaxRows + 1)
<1>0. NullRow \in Row
    BY DEF NullRow, Row, Types, Statuses
<1>1. CASE AddService(n, t, s)
    <2>1. [name |-> n, type |-> t, status |-> s] \in Row
        BY DEF Row
    <2>2. live' \subseteq RowIds /\ row' \in [RowIds -> Row]
        BY <1>1, <2>1 DEF AddService, TypeOK
    <2>3. nextId' \in 1..(MaxRows + 1)
        <3>1. nextId \in 1..MaxRows /\ nextId' = nextId + 1
            BY <1>1 DEF AddService, RowIds
        <3>. QED  BY <3>1, RowBound
    <2>. QED  BY <2>2, <2>3
<1>2. CASE UpdateServiceStatus(id, s)
    <2>1. ASSUME id \in live PROVE [row EXCEPT ![id].status = s] \in [RowIds -> Row]
        BY <2>1 DEF TypeOK, Row
    <2>. QED  BY <1>2, <2>1 DEF UpdateServiceStatus, TypeOK
<1>3. CASE DeleteServiceRow(id)
    BY <1>0, <1>3 DEF DeleteServiceRow, TypeOK
<1>. QED  BY <1>1, <1>2, <1>3

\* The control state after each of the three ways a request moves on.
LEMMA ProcessTypes ==
    ASSUME TypeOK, NEW u \in Users, NEW p \in PCs, NEW r \in Request,
           \/ Begin(u, p, r) /\ UNCHANGED todo
           \/ Goto(u, p)
           \/ Return(u)
    PROVE  /\ pc' \in [Users -> PCs]
           /\ req' \in [Users -> Request]
           /\ todo' \in [Users -> SUBSET (RowIds \X Statuses)]
<1>1. NullRequest \in Request /\ "idle" \in PCs
    BY DEF NullRequest, Request, Ops, Types, Statuses, PCs
<1>. QED  BY <1>1 DEF TypeOK, Begin, Goto, Return

\* The requests that handlers begin with are well typed.
LEMMA RequestTypes ==
    ASSUME NEW op \in Ops, NEW id \in RowIds, NEW n \in Names, NEW t \in Types,
           NEW S \in SUBSET Names
    PROVE  /\ [NullRequest EXCEPT !.op = op, !.id = id, !.name = n] \in Request
           /\ [NullRequest EXCEPT !.op = op, !.id = id, !.name = n, !.type = t] \in Request
           /\ [NullRequest EXCEPT !.op = op, !.name = n] \in Request
           /\ [NullRequest EXCEPT !.op = op] \in Request
           /\ [NullRequest EXCEPT !.op = op, !.names = S] \in Request
BY DEF NullRequest, Request, Types, Statuses

\* The views and verdicts of a list are what SyncWorkload stores.
LEMMA VerdictTypes ==
    ASSUME NEW n \in Names, NEW t \in Types, NEW s \in Statuses,
           NEW v \in View(n, t), NEW verdict \in WorkloadVerdict(t, v, s)
    PROVE  /\ v \in {"none", "nil", "short", "full"}
           /\ verdict[1] \in {"syncWrite", "syncService"}
           /\ verdict[2] \in Statuses
<1>. USE DEF Types
<1>1. /\ DeploymentView(n) \subseteq {"nil", "short", "full"}
      /\ StatefulSetView(n) \subseteq {"nil", "short", "full"}
    BY DEF DeploymentView, StatefulSetView
<1>2. CASE t = "Unknown"
    <2>1. v = "none"
        BY <1>2 DEF View
    <2>. QED  BY <1>2, <2>1 DEF WorkloadVerdict
<1>3. CASE t # "Unknown"
    <2>1. v \in {"nil", "short", "full"}
        BY <1>1, <1>3 DEF View
    <2>2. \A x \in ShortVerdict(t) : /\ x[1] \in {"syncWrite", "syncService"}
                                     /\ x[2] \in Statuses
        <3>1. CASE t = "NodePort"
            BY <3>1 DEF ShortVerdict, Statuses
        <3>2. CASE t = "Edge"
            BY <3>2 DEF ShortVerdict, Statuses
        <3>3. CASE t = "StatefulSet"
            BY <3>3 DEF ShortVerdict, Statuses
        <3>. QED  BY <1>3, <3>1, <3>2, <3>3
    <2>3. CASE verdict \in ShortVerdict(t)
        BY <2>1, <2>2, <2>3
    <2>4. CASE verdict \notin ShortVerdict(t)
        BY <1>3, <2>1, <2>4 DEF WorkloadVerdict, Statuses
    <2>. QED  BY <2>3, <2>4
<1>. QED  BY <1>2, <1>3

\* TypeOK is not inductive: that a call's name is the name of a service, not
\* the empty one of an idle request, depends on where names come from.
Nameless == {"idle", "sync", "import", "hpaCreate", "hpaInsert", "hpaDelete",
             "hpaDeleteDb", "deleteRow"}

NamesKnown ==
    /\ \A id \in live : row[id].name \in Names
    /\ \A u \in Users : step[u] # NoStep => step[u].name \in Names
    /\ \A u \in Users : pc[u] \notin Nameless => req[u].name \in Names
    /\ \A u \in Users : pc[u] \in {"hpaCreate", "hpaInsert"} =>
                           req[u].id \in RowIds /\ req[u].rule \in Names

TypeInv == TypeOK /\ NamesKnown

LEMMA TypeInit == Init => TypeInv
<1>. SUFFICES ASSUME Init PROVE TypeInv
    OBVIOUS
<1>1. NullRow \in Row /\ NoStep \in ConfigServiceStep /\ NullRequest \in Request
    BY DEF NullRow, Row, NoStep, ConfigServiceStep, NullRequest, Request, Ops,
           Types, Statuses
<1>2. 1 \in 1..(MaxRows + 1)
    BY RowBound
<1>3. TypeOK
    BY <1>1, <1>2 DEF Init, TypeOK, WorkloadStates, PCs
<1>4. NamesKnown
    BY DEF Init, NamesKnown, Nameless
<1>. QED  BY <1>3, <1>4 DEF TypeInv

\* What a request to delete a rule begins with.
LEMMA HpaBegins ==
    ASSUME NEW u \in Users, DeleteAutoScaleAction(u) \/ DeleteAutoScaleAcross(u),
           hpaDb \subseteq RowIds \X Names
    PROVE  \E r \in Request :
               /\ r.op \in {"hpaDelete", "hpaServiceElsewhere", "hpaRuleElsewhere"}
               /\ r.names # {}
               /\ Begin(u, "hpaDelete", r)
               /\ UNCHANGED <<dbVars, k8sVars, hpaVars, step, todo>>
<1>0. NullRequest \in Request
    BY DEF NullRequest, Request, Ops, Types, Statuses
<1>1. CASE DeleteAutoScaleAction(u)
    <2>1. PICK rule \in hpaDb :
              Begin(u, "hpaDelete", [NullRequest EXCEPT !.op = "hpaDelete", !.id = rule[1],
                                                        !.names = {rule[2]}])
        BY <1>1 DEF DeleteAutoScaleAction
    <2>. DEFINE r == [NullRequest EXCEPT !.op = "hpaDelete", !.id = rule[1],
                                         !.names = {rule[2]}]
    <2>2. r \in Request /\ r.op = "hpaDelete" /\ r.names # {}
        BY <1>0 DEF Request, Ops
    <2>3. Begin(u, "hpaDelete", r) /\ UNCHANGED <<dbVars, k8sVars, hpaVars, step, todo>>
        BY <1>1, <2>1 DEF DeleteAutoScaleAction
    <2>. QED  BY ONLY <2>2, <2>3
<1>2. CASE \E rule \in hpaDb :
              Begin(u, "hpaDelete",
                    [NullRequest EXCEPT !.op = "hpaServiceElsewhere", !.id = rule[1],
                                        !.names = {rule[2]}])
           /\ UNCHANGED <<dbVars, k8sVars, hpaVars, step, todo>>
    <2>1. PICK rule \in hpaDb :
              Begin(u, "hpaDelete",
                    [NullRequest EXCEPT !.op = "hpaServiceElsewhere", !.id = rule[1],
                                        !.names = {rule[2]}])
        BY <1>2
    <2>. DEFINE r == [NullRequest EXCEPT !.op = "hpaServiceElsewhere", !.id = rule[1],
                                         !.names = {rule[2]}]
    <2>2. r \in Request /\ r.op = "hpaServiceElsewhere" /\ r.names # {}
        BY <1>0 DEF Request, Ops
    <2>3. Begin(u, "hpaDelete", r) /\ UNCHANGED <<dbVars, k8sVars, hpaVars, step, todo>>
        BY <1>2, <2>1
    <2>. QED  BY ONLY <2>2, <2>3
<1>3. CASE \E n \in Names :
              Begin(u, "hpaDelete",
                    [NullRequest EXCEPT !.op = "hpaRuleElsewhere", !.names = {n}])
           /\ UNCHANGED <<dbVars, k8sVars, hpaVars, step, todo>>
    <2>1. PICK n \in Names :
              Begin(u, "hpaDelete",
                    [NullRequest EXCEPT !.op = "hpaRuleElsewhere", !.names = {n}])
        BY <1>3
    <2>. DEFINE r == [NullRequest EXCEPT !.op = "hpaRuleElsewhere", !.names = {n}]
    <2>2. r \in Request /\ r.op = "hpaRuleElsewhere" /\ r.names # {}
        BY <1>0 DEF Request, Ops
    <2>3. Begin(u, "hpaDelete", r) /\ UNCHANGED <<dbVars, k8sVars, hpaVars, step, todo>>
        BY <1>3, <2>1
    <2>. QED  BY ONLY <2>2, <2>3
<1>. QED  BY <1>1, <1>2, <1>3 DEF DeleteAutoScaleAcross

\* The actions that begin a request.
LEMMA TypeNewRequest ==
    ASSUME TypeInv, NEW u \in Users, NewRequest(u)
    PROVE  TypeInv'
<1>. USE DEF TypeInv, vars, dbVars, k8sVars, hpaVars, procVars, Nameless
<1>1. CASE SetConfigServiceStep(u)
    <2>1. PICK n \in Names, t \in WizardTypes :
              step' = [step EXCEPT ![u] = [name |-> n, type |-> t]]
        BY <1>1 DEF SetConfigServiceStep
    <2>2. [name |-> n, type |-> t] \in ConfigServiceStep
        BY ConstantsAssumption DEF ConfigServiceStep, Types
    <2>. QED  BY <1>1, <2>1, <2>2 DEF SetConfigServiceStep, TypeOK, NamesKnown
<1>2. CASE DropConfigServiceStep(u)
    BY <1>2 DEF DropConfigServiceStep, TypeOK, NamesKnown, NoStep, ConfigServiceStep, Types
<1>3. ASSUME NEW op \in Ops, DeployRequest(u, op) PROVE TypeInv'
    <2>. DEFINE n == step[u].name
                r == [NullRequest EXCEPT !.op = op, !.id = nextId,
                                         !.name = n, !.type = step[u].type]
    <2>1. /\ n \in Names
          /\ step[u].type \in Types
          /\ nextId \in RowIds
          /\ AddService(n, step[u].type, "preparing")
          /\ Begin(u, "createWorkload", r)
          /\ UNCHANGED <<k8sVars, hpaVars, step, todo>>
        BY <1>3 DEF DeployRequest, TypeOK, NamesKnown, ConfigServiceStep, AddService
    <2>2. r \in Request
        BY <2>1, RequestTypes
    <2>. HIDE DEF n, r
    <2>3. /\ live' \subseteq RowIds
          /\ row' \in [RowIds -> Row]
          /\ nextId' \in 1..(MaxRows + 1)
        BY <2>1, TableTypes DEF Statuses
    <2>4. /\ pc' \in [Users -> PCs]
          /\ req' \in [Users -> Request]
          /\ todo' \in [Users -> SUBSET (RowIds \X Statuses)]
        BY <2>1, <2>2, ProcessTypes DEF PCs
    <2>5. TypeOK'
        BY <2>1, <2>3, <2>4 DEF TypeOK
    <2>6. \A id \in live' : row'[id].name \in Names
        BY <2>1 DEF AddService, NamesKnown, TypeOK
    <2>7. r.name = n
        BY DEF r, NullRequest
    <2>. QED  BY <2>1, <2>5, <2>6, <2>7 DEF NamesKnown, Begin, TypeOK
<1>4. CASE DeployServiceAction(u)
    BY <1>3, <1>4 DEF DeployServiceAction, Ops
<1>5. CASE DeployStatefulSetAction(u)
    BY <1>3, <1>5 DEF DeployStatefulSetAction, Ops
<1>6. CASE UploadYamlFileAction(u)
    <2>1. PICK n \in Names : AddService(n, "NodePort", "preparing")
        BY <1>6 DEF UploadYamlFileAction
    <2>2. /\ live' \subseteq RowIds
          /\ row' \in [RowIds -> Row]
          /\ nextId' \in 1..(MaxRows + 1)
        BY <2>1, TableTypes DEF Statuses, Types
    <2>3. \A id \in live' : row'[id].name \in Names
        BY <2>1 DEF AddService, NamesKnown, TypeOK
    <2>. QED  BY <1>6, <2>2, <2>3 DEF UploadYamlFileAction, TypeOK, NamesKnown
<1>7. ASSUME NEW p \in PCs, NEW r \in Request, Begin(u, p, r),
             UNCHANGED <<dbVars, k8sVars, hpaVars, step, todo>>,
             p \in {"hpaCreate", "hpaInsert"} => r.id \in RowIds /\ r.rule \in Names,
             p \in Nameless \/ r.name \in Names
      PROVE  TypeInv'
    <2>1. /\ pc' \in [Users -> PCs]
          /\ req' \in [Users -> Request]
        BY <1>7, ProcessTypes
    <2>. QED  BY <1>7, <2>1 DEF Begin, TypeOK, NamesKnown
<1>8. CASE GetServiceListAction(u)
    <2>. DEFINE r == [NullRequest EXCEPT !.op = "list"]
    <2>1. r \in Request
        BY DEF NullRequest, Request, Ops, Types, Statuses
    <2>2. {<<id, row[id].status>> : id \in Visible} \in SUBSET (RowIds \X Statuses)
        <3>1. \A id \in Visible : id \in RowIds /\ row[id].status \in Statuses
            BY DEF Visible, TypeOK, Row
        <3>. QED  BY <3>1
    <2>3. todo' \in [Users -> SUBSET (RowIds \X Statuses)]
        BY <1>8, <2>2 DEF GetServiceListAction, TypeOK
    <2>4. /\ pc' \in [Users -> PCs]
          /\ req' \in [Users -> Request]
        BY <1>8, <2>1 DEF GetServiceListAction, Begin, TypeOK, PCs
    <2>. QED  BY <1>8, <2>3, <2>4 DEF GetServiceListAction, Begin, TypeOK, NamesKnown
<1>9. CASE ImportServicesAction(u)
    <2>1. [NullRequest EXCEPT !.op = "import", !.names = svc] \in Request
        BY DEF TypeOK, NullRequest, Request, Ops, Types, Statuses
    <2>. QED  BY <1>7, <1>9, <2>1 DEF ImportServicesAction, PCs
<1>10. CASE DeleteDeployAction(u)
    <2>. DEFINE r == [NullRequest EXCEPT !.op = "cancel", !.name = step[u].name]
    <2>1. step[u].name \in Names
        BY <1>10 DEF DeleteDeployAction, NamesKnown
    <2>2. r \in Request /\ r.name = step[u].name
        BY <2>1 DEF NullRequest, Request, Ops, Types, Statuses
    <2>. QED  BY <1>7, <1>10, <2>1, <2>2 DEF DeleteDeployAction, PCs
<1>11. ASSUME NEW id \in RowIds,
              \/ ToggleStart(u, id)
              \/ ToggleStop(u, id)
              \/ DeleteServiceAction(u, id)
              \/ DeleteStatefulSetAction(u, id)
              \/ CreateAutoScaleAction(u, id)
       PROVE  TypeInv'
    <2>1. id \in live /\ UNCHANGED <<dbVars, k8sVars, hpaVars, step, todo>>
        BY <1>11 DEF ToggleStart, ToggleStop, DeleteServiceAction, DeleteStatefulSetAction,
                     CreateAutoScaleAction
    <2>2. row[id].name \in Names /\ row[id].type \in Types
        BY <2>1 DEF NamesKnown, TypeOK, Row
    <2>3. PICK p \in {"createWorkload", "deleteWorkload", "hpaList", "deleteRow", "hpaCreate"},
               r \in Request :
               /\ Begin(u, p, r)
               /\ r.id = id
               /\ IF p = "hpaCreate" THEN r.rule \in Names ELSE r.name = row[id].name
        <3>. DEFINE R(op) == [NullRequest EXCEPT !.op = op, !.id = id, !.name = row[id].name]
        <3>1. \A op \in Ops : /\ R(op) \in Request
                               /\ R(op).name = row[id].name
                               /\ R(op).id = id
            BY <2>2, RequestTypes DEF NullRequest
        <3>2. CASE ToggleStart(u, id)
            <4>. DEFINE r == [NullRequest EXCEPT !.op = "start", !.id = id,
                                 !.name = row[id].name, !.type = row[id].type]
            <4>1. r \in Request
                BY <2>2, RequestTypes DEF Ops
            <4>2. r.name = row[id].name /\ r.id = id
                BY DEF NullRequest
            <4>. QED  BY <3>2, <4>1, <4>2 DEF ToggleStart
        <3>3. CASE ToggleStop(u, id)
            BY <3>1, <3>3 DEF ToggleStop, Ops
        <3>4. CASE DeleteServiceAction(u, id)
            BY <3>1, <3>4 DEF DeleteServiceAction, Ops
        <3>5. CASE DeleteStatefulSetAction(u, id)
            BY <3>1, <3>5 DEF DeleteStatefulSetAction, Ops
        <3>6. CASE CreateAutoScaleAction(u, id)
            <4>1. PICK n \in Names :
                      Begin(u, "hpaCreate",
                            [NullRequest EXCEPT !.op = "hpaCreate", !.id = id, !.rule = n])
                BY <3>6 DEF CreateAutoScaleAction
            <4>. DEFINE r == [NullRequest EXCEPT !.op = "hpaCreate", !.id = id, !.rule = n]
            <4>2. r \in Request /\ r.id = id /\ r.rule = n
                BY DEF NullRequest, Request, Ops, Types, Statuses
            <4>. QED  BY <4>1, <4>2
        <3>. QED  BY <1>11, <3>2, <3>3, <3>4, <3>5, <3>6
    <2>. QED  BY <1>7, <2>1, <2>2, <2>3 DEF PCs
<1>12. CASE DeleteAutoScaleAction(u) \/ DeleteAutoScaleAcross(u)
    <2>1. PICK r \in Request :
               /\ Begin(u, "hpaDelete", r)
               /\ UNCHANGED <<dbVars, k8sVars, hpaVars, step, todo>>
        BY <1>12, HpaBegins DEF TypeOK
    <2>. QED  BY <1>7, <2>1 DEF PCs
<1>. QED
    BY <1>1, <1>2, <1>4, <1>5, <1>6, <1>8, <1>9, <1>10, <1>11, <1>12 DEF NewRequest

\* TypeInv in three parts: the table, the cluster and the requests.
TableInv ==
    /\ live \subseteq RowIds
    /\ row \in [RowIds -> Row]
    /\ nextId \in 1..(MaxRows + 1)
    /\ \A id \in live : row[id].name \in Names

ClusterInv ==
    /\ dep \in [Names -> WorkloadStates]
    /\ sts \in [Names -> WorkloadStates]
    /\ svc \subseteq Names
    /\ hpaDb \subseteq RowIds \X Names
    /\ hpaK8s \subseteq Names
    /\ strayed \subseteq Names

ProcInv ==
    /\ step \in [Users -> ConfigServiceStep]
    /\ pc \in [Users -> PCs]
    /\ req \in [Users -> Request]
    /\ todo \in [Users -> SUBSET (RowIds \X Statuses)]
    /\ \A u \in Users : step[u] # NoStep => step[u].name \in Names
    /\ \A u \in Users : pc[u] \notin Nameless => req[u].name \in Names
    /\ \A u \in Users : pc[u] \in {"hpaCreate", "hpaInsert"} =>
                           req[u].id \in RowIds /\ req[u].rule \in Names

LEMMA TypeParts == TypeInv <=> TableInv /\ ClusterInv /\ ProcInv
BY DEF TypeInv, TypeOK, NamesKnown, TableInv, ClusterInv, ProcInv

LEMMA TypePartsNext == TypeInv' <=> TableInv' /\ ClusterInv' /\ ProcInv'
BY DEF TypeInv, TypeOK, NamesKnown, TableInv, ClusterInv, ProcInv

LEMMA GotoProc ==
    ASSUME ProcInv, NEW u \in Users, NEW p \in PCs, Goto(u, p), UNCHANGED step,
           p \in Nameless \/ req[u].name \in Names,
           p \in {"hpaCreate", "hpaInsert"} => req[u].id \in RowIds /\ req[u].rule \in Names
    PROVE  ProcInv'
BY DEF ProcInv, Goto

LEMMA ReturnProc ==
    ASSUME ProcInv, NEW u \in Users, Return(u),
           \/ UNCHANGED step
           \/ step' = [step EXCEPT ![u] = NoStep]
    PROVE  ProcInv'
<1>1. NullRequest \in Request /\ NoStep \in ConfigServiceStep /\ "idle" \in PCs
    BY DEF NullRequest, Request, Ops, Types, Statuses, PCs, NoStep, ConfigServiceStep
<1>. QED  BY <1>1 DEF ProcInv, Return, Nameless

LEMMA TakeItem ==
    ASSUME ProcInv, NEW u \in Users, NEW item
    PROVE  [todo EXCEPT ![u] = @ \ {item}] \in [Users -> SUBSET (RowIds \X Statuses)]
BY DEF ProcInv

\* A call of the sync loop keeps the snapshot or takes an item from it.
LEMMA BeginProc ==
    ASSUME ProcInv, NEW u \in Users, NEW p \in PCs, NEW r \in Request,
           Begin(u, p, r), UNCHANGED step, p \notin {"hpaCreate", "hpaInsert"},
           p \in Nameless \/ r.name \in Names,
           \/ UNCHANGED todo
           \/ \E item : todo' = [todo EXCEPT ![u] = @ \ {item}]
    PROVE  ProcInv'
<1>1. todo' \in [Users -> SUBSET (RowIds \X Statuses)]
    BY TakeItem DEF ProcInv
<1>. QED  BY <1>1 DEF ProcInv, Begin

\* The rows a request may write.
LEMMA UpdateTable ==
    ASSUME TableInv, NEW s \in Statuses, NEW id, UpdateServiceStatus(id, s)
    PROVE  TableInv'
<1>1. CASE id \in live
    <2>1. row[id] \in Row /\ id \in RowIds
        BY <1>1 DEF TableInv
    <2>2. row' = [row EXCEPT ![id] = [row[id] EXCEPT !.status = s]]
        BY <1>1 DEF UpdateServiceStatus
    <2>3. [row[id] EXCEPT !.status = s] \in Row
        BY <2>1 DEF Row
    <2>4. [row[id] EXCEPT !.status = s].name = row[id].name
        BY <2>1 DEF Row
    <2>. QED  BY <2>1, <2>2, <2>3, <2>4 DEF UpdateServiceStatus, TableInv
<1>2. CASE id \notin live
    BY <1>2 DEF UpdateServiceStatus, TableInv
<1>. QED  BY <1>1, <1>2

LEMMA DeleteTable ==
    ASSUME TableInv, NEW id, DeleteServiceRow(id)
    PROVE  TableInv'
<1>1. NullRow \in Row
    BY DEF NullRow, Row, Types, Statuses
<1>. QED  BY <1>1 DEF DeleteServiceRow, TableInv

\* The actions of a request that has begun.
LEMMA TypeContinue ==
    ASSUME TypeInv, NEW u \in Users, Continue(u)
    PROVE  TypeInv'
<1>. USE DEF dbVars, k8sVars, hpaVars, Nameless
<1>. SUFFICES TableInv' /\ ClusterInv' /\ ProcInv'
    BY TypePartsNext
<1>0. TableInv /\ ClusterInv /\ ProcInv
    BY TypeParts
<1>a. /\ UNCHANGED <<dbVars>> => TableInv'
      /\ UNCHANGED <<k8sVars, hpaVars>> => ClusterInv'
    BY <1>0 DEF TableInv, ClusterInv
<1>b. ASSUME NEW n PROVE /\ Terminate(dep, n) \in [Names -> WorkloadStates]
                         /\ Terminate(sts, n) \in [Names -> WorkloadStates]
    BY <1>0 DEF Terminate, ClusterInv, WorkloadStates
<1>c. req[u].name \in Names \/ pc[u] \in Nameless
    BY <1>0 DEF ProcInv
<1>1. CASE CreateWorkload(u)
    <2>1. ClusterInv'
        BY <1>0, <1>1 DEF CreateWorkload, ClusterInv, WorkloadStates
    <2>2. ProcInv'
        BY <1>0, <1>1, <1>c, GotoProc, ReturnProc DEF CreateWorkload, PCs
    <2>. QED  BY <1>1, <1>a, <2>1, <2>2 DEF CreateWorkload
<1>2. CASE CreateService(u)
    <2>1. ClusterInv'
        BY <1>0, <1>2, <1>c DEF CreateService, ClusterInv
    <2>2. ProcInv'
        BY <1>0, <1>2, <1>c, GotoProc, ReturnProc DEF CreateService, PCs
    <2>. QED  BY <1>2, <1>a, <2>1, <2>2 DEF CreateService
<1>3. CASE UndoWorkload(u)
    <2>1. ClusterInv'
        BY <1>0, <1>3, <1>b DEF UndoWorkload, ClusterInv
    <2>2. ProcInv'
        BY <1>0, <1>3, ReturnProc DEF UndoWorkload
    <2>. QED  BY <1>3, <1>a, <2>1, <2>2 DEF UndoWorkload
<1>4. CASE PushItemsToRepo(u)
    <2>1. ProcInv'
        BY <1>0, <1>4, <1>c, GotoProc, ReturnProc DEF PushItemsToRepo, PCs
    <2>. QED  BY <1>4, <1>a, <2>1 DEF PushItemsToRepo
<1>5. CASE MarkDeployed(u)
    <2>1. ProcInv'
        BY <1>0, <1>5, ReturnProc DEF MarkDeployed
    <2>. QED  BY <1>0, <1>5, <1>a, <2>1, UpdateTable DEF MarkDeployed, Statuses
<1>6. CASE MarkRunning(u)
    <2>1. ProcInv'
        BY <1>0, <1>6, ReturnProc DEF MarkRunning
    <2>. QED  BY <1>0, <1>6, <1>a, <2>1, UpdateTable DEF MarkRunning, Statuses
<1>7. CASE DeleteWorkload(u)
    <2>1. ClusterInv'
        BY <1>0, <1>7, <1>b DEF DeleteWorkload, ClusterInv
    <2>2. ProcInv'
        BY <1>0, <1>7, <1>c, GotoProc, ReturnProc DEF DeleteWorkload, PCs
    <2>. QED  BY <1>7, <1>a, <2>1, <2>2 DEF DeleteWorkload
<1>8. CASE DeleteService(u)
    <2>1. ClusterInv'
        BY <1>0, <1>8 DEF DeleteService, ClusterInv
    <2>2. AfterStop(req[u].op) \in PCs \ {"hpaCreate", "hpaInsert"}
        BY DEF AfterStop, PCs
    <2>3. ProcInv'
        BY <1>0, <1>8, <1>c, <2>2, GotoProc, ReturnProc DEF DeleteService
    <2>. QED  BY <1>8, <1>a, <2>1, <2>3 DEF DeleteService
<1>9. CASE MarkStopped(u)
    <2>1. ProcInv'
        BY <1>0, <1>9, ReturnProc DEF MarkStopped
    <2>. QED  BY <1>0, <1>9, <1>a, <2>1, UpdateTable DEF MarkStopped, Statuses
<1>10. CASE DeleteRow(u)
    <2>1. ProcInv'
        BY <1>0, <1>10, ReturnProc DEF DeleteRow
    <2>. QED  BY <1>0, <1>10, <1>a, <2>1, DeleteTable DEF DeleteRow
<1>11. CASE CancelRow(u)
    <2>1. ProcInv'
        BY <1>0, <1>11, <1>c, GotoProc DEF CancelRow, PCs
    <2>2. TableInv'
        BY <1>0, <1>11, <1>a, DeleteTable DEF CancelRow
    <2>. QED  BY <1>11, <1>a, <2>1, <2>2 DEF CancelRow
<1>12. CASE CancelStep(u)
    <2>1. ProcInv'
        BY <1>0, <1>12, ReturnProc DEF CancelStep
    <2>. QED  BY <1>12, <1>a, <2>1 DEF CancelStep
<1>13. CASE CreateHpa(u)
    <2>3. pc[u] = "hpaCreate" => req[u].id \in RowIds /\ req[u].rule \in Names
        BY <1>0 DEF ProcInv
    <2>2. ClusterInv'
        BY <1>0, <1>13, <2>3 DEF CreateHpa, ClusterInv
    <2>4. ProcInv'
        BY <1>0, <1>13, <1>c, <2>3, GotoProc, ReturnProc DEF CreateHpa, PCs
    <2>. QED  BY <1>13, <1>a, <2>2, <2>4 DEF CreateHpa
<1>14. CASE InsertHpa(u)
    <2>1. ClusterInv'
        BY <1>0, <1>14 DEF InsertHpa, ClusterInv, ProcInv
    <2>2. ProcInv'
        BY <1>0, <1>14, ReturnProc DEF InsertHpa
    <2>. QED  BY <1>14, <1>a, <2>1, <2>2 DEF InsertHpa
<1>d. /\ \A S \in SUBSET Names : [req[u] EXCEPT !.names = S] \in Request
      /\ \A n \in Names : [req[u] EXCEPT !.rule = n] \in Request
      /\ \A S : [req[u] EXCEPT !.names = S].name = req[u].name
      /\ \A n : [req[u] EXCEPT !.rule = n].name = req[u].name
      /\ req[u].names \subseteq Names
    <2>1. req[u] \in Request
        BY <1>0 DEF ProcInv
    <2>. QED  BY <2>1 DEF Request
<1>15. CASE DeleteHpa(u)
    <2>1. ClusterInv'
        BY <1>0, <1>15 DEF DeleteHpa, ClusterInv
    <2>2. ASSUME NEW n \in req[u].names,
                 Begin(u, "hpaDeleteDb", [req[u] EXCEPT !.rule = n]), UNCHANGED todo
          PROVE  ProcInv'
        <3>. DEFINE r == [req[u] EXCEPT !.rule = n]
        <3>1. r \in Request
            BY <1>d, <2>2
        <3>2. Begin(u, "hpaDeleteDb", r) /\ UNCHANGED step
            BY <1>15, <2>2 DEF DeleteHpa
        <3>. HIDE DEF r
        <3>. QED  BY <1>0, <2>2, <3>1, <3>2, BeginProc DEF PCs
    <2>3. ProcInv'
        BY <1>0, <1>15, <2>2, ReturnProc DEF DeleteHpa
    <2>. QED  BY <1>15, <1>a, <2>1, <2>3 DEF DeleteHpa
<1>16. CASE DeleteHpaDb(u)
    <2>1. ClusterInv'
        BY <1>0, <1>16 DEF DeleteHpaDb, ClusterInv
    <2>. DEFINE r == [req[u] EXCEPT !.names = @ \ {req[u].rule}]
    <2>2. r \in Request
        BY <1>d
    <2>3. UNCHANGED step
        BY <1>16 DEF DeleteHpaDb
    <2>4. Return(u) \/ (Begin(u, "hpaDelete", r) /\ UNCHANGED todo)
        BY <1>16 DEF DeleteHpaDb
    <2>. HIDE DEF r
    <2>5. ProcInv'
        BY <1>0, <2>2, <2>3, <2>4, BeginProc, ReturnProc DEF PCs
    <2>. QED  BY <1>16, <1>a, <2>1, <2>5 DEF DeleteHpaDb
<1>23. CASE ListHpas(u)
    <2>. DEFINE r == [req[u] EXCEPT !.names = RulesOf(req[u].id)]
    <2>1. r \in Request
        BY <1>d DEF RulesOf
    <2>2. Begin(u, "hpaDelete", r) /\ UNCHANGED <<step, todo>>
        BY <1>23 DEF ListHpas
    <2>. HIDE DEF r
    <2>3. ProcInv'
        BY <1>0, <2>1, <2>2, BeginProc DEF PCs
    <2>. QED  BY <1>23, <1>a, <2>3 DEF ListHpas
<1>24. CASE HpasDeleted(u)
    <2>1. ProcInv'
        BY <1>0, <1>24, GotoProc DEF HpasDeleted, PCs
    <2>. QED  BY <1>24, <1>a, <2>1 DEF HpasDeleted
<1>17. CASE SyncWorkload(u)
    <2>1. PICK item \in todo[u] :
              /\ todo' = [todo EXCEPT ![u] = @ \ {item}]
              /\ \/ UNCHANGED <<pc, req>>
                 \/ /\ item[1] \in live
                    /\ \E v \in View(row[item[1]].name, row[item[1]].type) :
                       \E verdict \in WorkloadVerdict(row[item[1]].type, v, item[2]) :
                         Begin(u, verdict[1],
                          [req[u] EXCEPT !.id = item[1], !.name = row[item[1]].name,
                                         !.type = row[item[1]].type,
                                         !.status = verdict[2], !.seen = v])
        BY <1>17 DEF SyncWorkload
    <2>2. item[1] \in RowIds /\ item[2] \in Statuses
        <3>1. todo[u] \in SUBSET (RowIds \X Statuses)
            BY <1>0 DEF ProcInv
        <3>2. item \in RowIds \X Statuses
            BY <2>1, <3>1
        <3>. QED  BY <3>2
    <2>3. UNCHANGED step
        BY <1>17 DEF SyncWorkload
    <2>4. ASSUME UNCHANGED <<pc, req>> PROVE ProcInv'
        <3>1. todo' \in [Users -> SUBSET (RowIds \X Statuses)]
            BY <1>0, <2>1, TakeItem
        <3>2. pc' = pc /\ req' = req /\ step' = step
            BY <2>3, <2>4
        <3>. QED  BY <1>0, <3>1, <3>2 DEF ProcInv
    <2>5. ASSUME ~ UNCHANGED <<pc, req>> PROVE ProcInv'
        <3>1. row[item[1]].name \in Names /\ row[item[1]].type \in Types
            BY <1>0, <2>1, <2>5 DEF TableInv, Row
        <3>v. PICK v \in View(row[item[1]].name, row[item[1]].type) :
                \E verdict \in WorkloadVerdict(row[item[1]].type, v, item[2]) :
                   Begin(u, verdict[1],
                          [req[u] EXCEPT !.id = item[1], !.name = row[item[1]].name,
                                         !.type = row[item[1]].type,
                                         !.status = verdict[2], !.seen = v])
            BY <2>1, <2>5
        <3>2. PICK verdict \in WorkloadVerdict(row[item[1]].type, v, item[2]) :
                   Begin(u, verdict[1],
                          [req[u] EXCEPT !.id = item[1], !.name = row[item[1]].name,
                                         !.type = row[item[1]].type,
                                         !.status = verdict[2], !.seen = v])
            BY <3>v
        <3>3. /\ v \in {"none", "nil", "short", "full"}
              /\ verdict[1] \in {"syncWrite", "syncService"}
              /\ verdict[2] \in Statuses
            BY <2>2, <3>1, <3>2, VerdictTypes
        <3>. DEFINE r == [req[u] EXCEPT !.id = item[1], !.name = row[item[1]].name,
                                         !.type = row[item[1]].type,
                                         !.status = verdict[2], !.seen = v]
        <3>a. req[u] \in Request
            BY <1>0 DEF ProcInv
        <3>b. /\ item[1] \in RowIds /\ row[item[1]].name \in Names
              /\ row[item[1]].type \in Types
            BY <2>2, <3>1
        <3>4. r \in Request /\ r.name \in Names
            BY <3>a, <3>b, <3>3 DEF Request
        <3>. HIDE DEF r
        <3>5. verdict[1] \in PCs /\ verdict[1] \notin {"hpaCreate", "hpaInsert"}
            BY <3>3 DEF PCs
        <3>6. Begin(u, verdict[1], r)
            BY <3>2 DEF r
        <3>7. \E x : todo' = [todo EXCEPT ![u] = @ \ {x}]
            BY <2>1
        <3>. DEFINE p == verdict[1]
        <3>8. p \in PCs /\ p \notin {"hpaCreate", "hpaInsert"} /\ Begin(u, p, r)
            BY <3>5, <3>6
        <3>9. ProcInv
            BY <1>0
        <3>. HIDE DEF p
        <3>. QED  BY <2>3, <3>4, <3>7, <3>8, <3>9, BeginProc
    <2>6. ProcInv'
        BY <2>4, <2>5
    <2>. QED  BY <1>17, <1>a, <2>6 DEF SyncWorkload
<1>18. CASE SyncService(u)
    <2>0. req[u] \in Request
        BY <1>0 DEF ProcInv
    <2>1. \A s \in Statuses : /\ [req[u] EXCEPT !.status = s] \in Request
                              /\ [req[u] EXCEPT !.status = s].name = req[u].name
        BY <2>0 DEF Request
    <2>2. req[u] \in Request /\ req[u].name \in Names
        BY <1>0, <1>18, <1>c DEF ProcInv, SyncService
    <2>3. ProcInv'
        BY <1>0, <1>18, <2>1, <2>2, BeginProc DEF SyncService, PCs, Statuses
    <2>. QED  BY <1>18, <1>a, <2>3 DEF SyncService
<1>19. CASE SyncWrite(u)
    <2>1. req[u].status \in Statuses
        BY <1>0 DEF ProcInv, Request
    <2>2. TableInv'
        BY <1>0, <1>19, <2>1, UpdateTable DEF SyncWrite
    <2>3. ProcInv'
        BY <1>0, <1>19, GotoProc DEF SyncWrite, PCs
    <2>. QED  BY <1>19, <1>a, <2>2, <2>3 DEF SyncWrite
<1>20. CASE SyncDone(u)
    <2>1. ProcInv'
        BY <1>0, <1>20, ReturnProc DEF SyncDone
    <2>. QED  BY <1>20, <1>a, <2>1 DEF SyncDone
<1>21. CASE SyncServiceData(u)
    <2>1. PICK n \in req[u].names :
              /\ req' = [req EXCEPT ![u].names = @ \ {n}]
              /\ UNCHANGED dbVars \/ AddService(n, "Unknown", "running")
        BY <1>21 DEF SyncServiceData
    <2>2. pc[u] = "import" /\ UNCHANGED <<k8sVars, hpaVars, step, pc, todo>>
        BY <1>21 DEF SyncServiceData
    <2>3. n \in Names
        BY <1>0, <2>1 DEF ProcInv, Request
    <2>4. TableInv'
        <3>1. CASE AddService(n, "Unknown", "running")
            <4>1. TypeOK
                BY DEF TypeInv
            <4>2. /\ live' \subseteq RowIds
                  /\ row' \in [RowIds -> Row]
                  /\ nextId' \in 1..(MaxRows + 1)
                BY <2>3, <3>1, <4>1, TableTypes DEF Types, Statuses
            <4>. QED  BY <1>0, <2>3, <3>1, <4>2 DEF AddService, TableInv
        <3>. QED  BY <1>a, <2>1, <3>1
    <2>5. ProcInv'
        <3>a. req[u] \in Request
            BY <1>0 DEF ProcInv
        <3>1. [req[u] EXCEPT !.names = @ \ {n}] \in Request
            BY <3>a DEF Request
        <3>2. req' = [req EXCEPT ![u] = [req[u] EXCEPT !.names = @ \ {n}]]
            BY <2>1
        <3>. QED  BY <1>0, <2>2, <3>1, <3>2 DEF ProcInv
    <2>. QED  BY <1>a, <2>2, <2>4, <2>5
<1>22. CASE ImportDone(u)
    <2>1. ProcInv'
        BY <1>0, <1>22, ReturnProc DEF ImportDone
    <2>. QED  BY <1>22, <1>a, <2>1 DEF ImportDone
<1>. QED
    BY <1>1, <1>2, <1>3, <1>4, <1>5, <1>6, <1>7, <1>8, <1>9, <1>10, <1>11, <1>12,
       <1>13, <1>14, <1>15, <1>16, <1>17, <1>18, <1>19, <1>20, <1>21, <1>22, <1>23, <1>24
    DEF Continue

LEMMA TypeStep == TypeInv /\ [Next]_vars => TypeInv'
<1>. SUFFICES ASSUME TypeInv, [Next]_vars PROVE TypeInv'
    OBVIOUS
<1>1. ASSUME NEW u \in Users, NewRequest(u) PROVE TypeInv'
    BY <1>1, TypeNewRequest
<1>2. ASSUME NEW u \in Users, Continue(u) PROVE TypeInv'
    BY <1>2, TypeContinue
<1>3. ASSUME NEW n \in Names, Cluster(n) PROVE TypeInv'
    <2>1. \A m \in WorkloadMoves : m[2] \in WorkloadStates
        BY DEF WorkloadMoves, WorkloadStates
    <2>. QED  BY <1>3, <2>1 DEF Cluster, DeploymentMoves, StatefulSetMoves, TypeInv,
                 TypeOK, NamesKnown, dbVars, hpaVars, procVars
<1>4. CASE UNCHANGED vars
    BY <1>4 DEF vars, dbVars, k8sVars, hpaVars, procVars, TypeInv, TypeOK, NamesKnown
<1>. QED  BY <1>1, <1>2, <1>3, <1>4 DEF Next

\* Type correctness, of every instance: a handler never stores a status, a
\* type or a step outside those the code knows, and never acts on a row or a
\* name it did not read.
THEOREM TypeCorrect == Spec => []TypeOK
<1>1. TypeInv => TypeOK
    BY DEF TypeInv
<1>. QED  BY <1>1, TypeInit, TypeStep, PTL DEF Spec

-----------------------------------------------------------------------------
(* Rows that are being prepared, and the lists of others. *)

SyncWrites == {"syncService", "syncWrite"}

\* The row has left preparing, and does not go back to it.
Settled(id) == id < nextId /\ (id \in live => row[id].status # "preparing")

\* A list has read rows that were not being prepared.
ListPhase(u) ==
    /\ \A item \in todo[u] : item[2] # "preparing" /\ Settled(item[1])
    /\ pc[u] \in SyncWrites => req[u].status # "preparing" /\ Settled(req[u].id)

ListInv == FreshIds /\ \A u \in Users : ListPhase(u)

\* What a call of the request of u does to the table.
WritesStatus(u, s) ==
    /\ UpdateServiceStatus(req[u].id, s) /\ s # "preparing"
    /\ pc[u] \in {"mark", "markStopped", "syncWrite"}

TableMoves(u) ==
    \/ UNCHANGED dbVars
    \/ \E n, t, s : AddService(n, t, s)
    \/ \E s : WritesStatus(u, s)
    \/ \E id \in RowIds \cup {0} : DeleteServiceRow(id)

\* What a request keeps of the rows it has read.
ListFollows(v) ==
    /\ todo'[v] \subseteq todo[v]
    /\ pc'[v] \in SyncWrites =>
        pc[v] \in SyncWrites /\ req'[v].id = req[v].id /\ req'[v].status # "preparing"

\* PreparingIsPrivate, of one step.
NobodyElsePrepares ==
    \A id \in live :
        row[id].status = "preparing" /\ row'[id].status # "preparing" =>
            \E u \in Users : pc[u] \in {"mark", "markStopped"} /\ req[u].id = id

\* How a request that deletes rules moves on.
LEMMA HpaMoves ==
    ASSUME NEW u \in Users,
           \/ DeleteAutoScaleAction(u) \/ DeleteAutoScaleAcross(u) \/ ListHpas(u)
           \/ DeleteHpa(u) \/ DeleteHpaDb(u) \/ HpasDeleted(u)
    PROVE  /\ UNCHANGED <<dbVars, k8sVars, step>>
           /\ pc[u] \in {"idle", "hpaList", "hpaDelete", "hpaDeleteDb"}
           /\ \/ Return(u)
              \/ Goto(u, "deleteRow")
              \/ /\ UNCHANGED todo
                 /\ \E p \in {"hpaDelete", "hpaDeleteDb"} : \E r : Begin(u, p, r)
BY DEF DeleteAutoScaleAction, DeleteAutoScaleAcross, ListHpas, DeleteHpa, DeleteHpaDb,
       HpasDeleted, Free, Idle

LEMMA MovesOfTable ==
    ASSUME TypeInv, ListInv, NEW u \in Users, NewRequest(u) \/ Continue(u)
    PROVE  TableMoves(u)
<1>0. req[u].id \in RowIds \cup {0} /\ live \subseteq RowIds
    BY DEF TypeInv, TypeOK, Request
<1>1. CASE NewRequest(u)
    BY <1>1 DEF TableMoves, NewRequest, SetConfigServiceStep, DropConfigServiceStep,
       DeployServiceAction, DeployStatefulSetAction, DeployRequest, UploadYamlFileAction,
       DeleteDeployAction, GetServiceListAction, ImportServicesAction, ToggleStart,
       ToggleStop, DeleteServiceAction, DeleteStatefulSetAction, CreateAutoScaleAction,
       DeleteAutoScaleAction, DeleteAutoScaleAcross
<1>2. CASE MarkDeployed(u) \/ MarkRunning(u) \/ MarkStopped(u)
    BY <1>2 DEF TableMoves, WritesStatus, MarkDeployed, MarkRunning, MarkStopped
<1>3. CASE SyncWrite(u)
    BY <1>3 DEF TableMoves, WritesStatus, SyncWrite, SyncWrites, ListInv, ListPhase
<1>4. CASE DeleteRow(u) \/ CancelRow(u) \/ SyncServiceData(u)
    BY <1>0, <1>4 DEF TableMoves, DeleteRow, CancelRow, SyncServiceData, RowsNamed
<1>5. CASE UNCHANGED dbVars
    BY <1>5 DEF TableMoves
<1>. QED  BY <1>1, <1>2, <1>3, <1>4, <1>5
          DEF Continue, CreateWorkload, CreateService, UndoWorkload, PushItemsToRepo,
              DeleteWorkload, DeleteService, CancelStep, CreateHpa, InsertHpa, ListHpas,
              DeleteHpa, DeleteHpaDb, HpasDeleted, SyncWorkload, SyncService, SyncDone,
              ImportDone

LEMMA TableStaysSettled ==
    ASSUME TypeInv, ListInv, NEW u \in Users, TableMoves(u)
    PROVE  /\ FreshIds' /\ NobodyElsePrepares
           /\ \A id \in RowIds \cup {0} : Settled(id) => Settled(id)'
<1>0. /\ live \subseteq RowIds /\ row \in [RowIds -> Row] /\ FreshIds
      /\ nextId \in Nat /\ \A id \in RowIds : id \in Nat
    BY RowBound DEF TypeInv, TypeOK, ListInv, RowIds
<1>1. CASE UNCHANGED dbVars
    BY <1>0, <1>1 DEF FreshIds, NobodyElsePrepares, Settled, dbVars
<1>2. ASSUME NEW n, NEW t, NEW s, AddService(n, t, s)
      PROVE  /\ FreshIds' /\ NobodyElsePrepares
             /\ \A id \in RowIds \cup {0} : Settled(id) => Settled(id)'
    <2>1. /\ live' = live \cup {nextId} /\ nextId' = nextId + 1 /\ nextId \in RowIds
          /\ \A id \in RowIds : id # nextId => row'[id] = row[id]
        BY <1>0, <1>2 DEF AddService
    <2>2. \A id \in RowIds \cup {0} : id < nextId => id # nextId /\ id < nextId'
        BY <1>0, <2>1
    <2>3. \A id \in live : id < nextId /\ row'[id] = row[id]
        BY <1>0, <2>1, <2>2 DEF FreshIds
    <2>4. nextId < nextId'
        BY <1>0, <2>1
    <2>5. FreshIds'
        BY <1>0, <2>1, <2>2, <2>3, <2>4 DEF FreshIds
    <2>6. \A id \in RowIds \cup {0} : Settled(id) => Settled(id)'
        BY <2>1, <2>2, <2>3 DEF Settled
    <2>. QED  BY <2>3, <2>5, <2>6 DEF NobodyElsePrepares
<1>3. ASSUME NEW s, WritesStatus(u, s)
      PROVE  /\ FreshIds' /\ NobodyElsePrepares
             /\ \A id \in RowIds \cup {0} : Settled(id) => Settled(id)'
    <2>1. /\ live' = live /\ nextId' = nextId
          /\ \A id \in live : id # req[u].id => row'[id] = row[id]
          /\ req[u].id \in live => row'[req[u].id].status = s
        <3>1. \A id \in live : row[id] \in Row /\ [row[id] EXCEPT !.status = s].status = s
            BY <1>0 DEF Row
        <3>. QED  BY <1>0, <1>3, <3>1 DEF WritesStatus, UpdateServiceStatus
    <2>2. \A id \in live : row'[id].status = row[id].status \/ row'[id].status # "preparing"
        BY <1>3, <2>1 DEF WritesStatus
    <2>3. NobodyElsePrepares
        <3>1. CASE pc[u] \in {"mark", "markStopped"}
            BY <2>1, <3>1 DEF NobodyElsePrepares
        <3>2. CASE pc[u] = "syncWrite"
            BY <2>1, <3>2 DEF NobodyElsePrepares, ListInv, ListPhase, SyncWrites, Settled
        <3>. QED  BY <1>3, <3>1, <3>2 DEF WritesStatus
    <2>. QED  BY <1>0, <2>1, <2>2, <2>3 DEF FreshIds, Settled
<1>4. ASSUME NEW id \in RowIds \cup {0}, DeleteServiceRow(id)
      PROVE  /\ FreshIds' /\ NobodyElsePrepares
             /\ \A i \in RowIds \cup {0} : Settled(i) => Settled(i)'
    <2>1. /\ live' = live \ {id} /\ nextId' = nextId
          /\ \A i \in RowIds : i # id => row'[i] = row[i]
          /\ id \in live => row'[id].status = "preparing"
        <3>1. NullRow.status = "preparing"
            BY DEF NullRow
        <3>2. CASE id \in live
            BY <1>0, <1>4, <3>1, <3>2 DEF DeleteServiceRow
        <3>3. CASE id \notin live
            BY <1>4, <3>3 DEF DeleteServiceRow
        <3>. QED  BY <3>2, <3>3
    <2>. QED  BY <1>0, <2>1 DEF FreshIds, NobodyElsePrepares, Settled
<1>. QED  BY <1>1, <1>2, <1>3, <1>4 DEF TableMoves

LEMMA ListsFollow ==
    ASSUME TypeInv, ListInv, NEW u \in Users, NewRequest(u) \/ Continue(u),
           ~GetServiceListAction(u), ~SyncWorkload(u)
    PROVE  \A v \in Users : ListFollows(v)
<1>0. /\ pc \in [Users -> PCs] /\ req \in [Users -> Request]
      /\ todo \in [Users -> SUBSET (RowIds \X Statuses)]
    BY DEF TypeInv, TypeOK
<1>1. ASSUME UNCHANGED <<pc, todo>>, \A v \in Users : req'[v].id = req[v].id
                                                /\ req'[v].status = req[v].status
      PROVE  \A v \in Users : ListFollows(v)
    BY <1>1 DEF ListFollows, ListInv, ListPhase
<1>2. ASSUME NEW p, NEW r, Begin(u, p, r), UNCHANGED todo, p \notin SyncWrites
      PROVE  \A v \in Users : ListFollows(v)
    BY <1>0, <1>2 DEF Begin, ListFollows, ListInv, ListPhase
<1>3. ASSUME NEW p, Goto(u, p), p \notin SyncWrites
      PROVE  \A v \in Users : ListFollows(v)
    BY <1>0, <1>3 DEF Goto, ListFollows, ListInv, ListPhase
<1>4. ASSUME Return(u) PROVE \A v \in Users : ListFollows(v)
    BY <1>0, <1>4 DEF Return, ListFollows, ListInv, ListPhase, SyncWrites
<1>5. CASE NewRequest(u)
    <2>1. CASE SetConfigServiceStep(u) \/ DropConfigServiceStep(u) \/ UploadYamlFileAction(u)
        <3>1. UNCHANGED procVars
            BY <2>1 DEF SetConfigServiceStep, DropConfigServiceStep, UploadYamlFileAction
        <3>. QED  BY <1>1, <3>1 DEF procVars
    <2>2. CASE DeployServiceAction(u) \/ DeployStatefulSetAction(u) \/ DeleteDeployAction(u)
                \/ ImportServicesAction(u)
        BY <1>2, <2>2 DEF DeployServiceAction, DeployStatefulSetAction, DeployRequest,
           DeleteDeployAction, ImportServicesAction, SyncWrites
    <2>3. ASSUME NEW id \in RowIds, ToggleStart(u, id) \/ ToggleStop(u, id)
                \/ DeleteServiceAction(u, id) \/ DeleteStatefulSetAction(u, id)
          PROVE  \A v \in Users : ListFollows(v)
        BY <1>2, <2>3 DEF ToggleStart, ToggleStop, DeleteServiceAction,
           DeleteStatefulSetAction, SyncWrites
    <2>5. ASSUME NEW id \in RowIds, CreateAutoScaleAction(u, id)
          PROVE  \A v \in Users : ListFollows(v)
        <3>1. PICK r : Begin(u, "hpaCreate", r) /\ UNCHANGED todo
            BY <2>5 DEF CreateAutoScaleAction
        <3>. QED  BY <1>2, <3>1 DEF SyncWrites
    <2>4. CASE DeleteAutoScaleAction(u) \/ DeleteAutoScaleAcross(u)
        <3>1. PICK r : Begin(u, "hpaDelete", r) /\ UNCHANGED todo
            BY <2>4, HpaBegins DEF TypeInv, TypeOK
        <3>. QED  BY <1>2, <3>1 DEF SyncWrites
    <2>. QED  BY <1>5, <2>1, <2>2, <2>3, <2>4, <2>5 DEF NewRequest
<1>6. CASE SyncServiceData(u)
    <2>1. UNCHANGED <<pc, todo>>
        BY <1>6 DEF SyncServiceData
    <2>2. PICK n : req' = [req EXCEPT ![u].names = @ \ {n}]
        BY <1>6 DEF SyncServiceData
    <2>3. \A v \in Users : req'[v].id = req[v].id /\ req'[v].status = req[v].status
        BY <1>0, <2>2 DEF Request
    <2>. QED  BY <1>1, <2>1, <2>3
<1>7. CASE SyncService(u)
    <2>1. pc[u] = "syncService" /\ UNCHANGED todo
        BY <1>7 DEF SyncService
    <2>2. req[u] \in Request /\ req[u].status # "preparing"
        BY <1>0, <2>1 DEF ListInv, ListPhase, SyncWrites
    <2>3. ASSUME NEW p, NEW r, Begin(u, p, r), r.id = req[u].id, r.status # "preparing"
          PROVE  \A v \in Users : ListFollows(v)
        <3>1. /\ pc'[u] = p /\ req'[u] = r
              /\ \A v \in Users : v # u => pc'[v] = pc[v] /\ req'[v] = req[v]
            BY <1>0, <2>3 DEF Begin
        <3>. QED  BY <2>1, <2>3, <3>1 DEF ListFollows, ListInv, ListPhase, SyncWrites
    <2>4. ASSUME NEW s \in {"uncompleted", "running"},
                 Begin(u, "syncWrite", [req[u] EXCEPT !.status = s])
          PROVE  \A v \in Users : ListFollows(v)
        <3>1. /\ [req[u] EXCEPT !.status = s].id = req[u].id
              /\ [req[u] EXCEPT !.status = s].status = s
            BY <2>2 DEF Request
        <3>. QED  BY <2>3, <2>4, <3>1
    <2>5. CASE Begin(u, "sync", req[u])
        BY <2>2, <2>3, <2>5
    <2>. QED  BY <1>7, <2>4, <2>5 DEF SyncService
<1>8. CASE Return(u) \/ \E p : Goto(u, p) /\ p \notin SyncWrites
    BY <1>3, <1>4, <1>8
<1>9. CASE ListHpas(u) \/ DeleteHpa(u) \/ DeleteHpaDb(u) \/ HpasDeleted(u)
    BY <1>2, <1>3, <1>4, <1>9, HpaMoves DEF SyncWrites
<1>. QED  BY <1>5, <1>6, <1>7, <1>8, <1>9
          DEF Continue, CreateWorkload, CreateService, UndoWorkload, PushItemsToRepo,
              MarkDeployed, MarkRunning, DeleteWorkload, DeleteService, AfterStop,
              MarkStopped, DeleteRow, CancelRow, CancelStep, CreateHpa, InsertHpa,
              SyncWrite, SyncDone, ImportDone, SyncWrites

\* A list never decides on "preparing" for a row that was not.
LEMMA VerdictPrepared ==
    ASSUME NEW n \in Names, NEW t \in Types, NEW s \in Statuses \ {"preparing"},
           NEW v \in View(n, t), NEW verdict \in WorkloadVerdict(t, v, s)
    PROVE  verdict[2] # "preparing"
<1>. USE DEF Types
<1>1. CASE t = "Unknown"
    <2>1. v = "none"
        BY <1>1 DEF View
    <2>. QED  BY <1>1, <2>1 DEF WorkloadVerdict
<1>2. CASE t # "Unknown"
    <2>1. v \in {"nil", "short", "full"}
        BY <1>2 DEF View, DeploymentView, StatefulSetView
    <2>2. \A x \in ShortVerdict(t) : x[2] # "preparing"
        <3>1. CASE t = "NodePort"
            BY <3>1 DEF ShortVerdict
        <3>2. CASE t = "Edge"
            BY <3>2 DEF ShortVerdict
        <3>3. CASE t = "StatefulSet"
            BY <3>3 DEF ShortVerdict
        <3>. QED  BY <1>2, <3>1, <3>2, <3>3
    <2>3. CASE verdict \in ShortVerdict(t)
        BY <2>2, <2>3
    <2>4. CASE verdict \notin ShortVerdict(t)
        BY <1>2, <2>1, <2>4 DEF WorkloadVerdict
    <2>. QED  BY <2>3, <2>4
<1>. QED  BY <1>1, <1>2

LEMMA ListStep ==
    ASSUME TypeInv, ListInv, [Next]_vars
    PROVE  ListInv' /\ NobodyElsePrepares
<1>0. /\ pc \in [Users -> PCs] /\ req \in [Users -> Request]
      /\ todo \in [Users -> SUBSET (RowIds \X Statuses)]
      /\ live \subseteq RowIds /\ row \in [RowIds -> Row]
    BY DEF TypeInv, TypeOK
<1>1. ASSUME NEW u \in Users, NewRequest(u) \/ Continue(u)
      PROVE  ListInv' /\ NobodyElsePrepares
    <2>1. /\ FreshIds' /\ NobodyElsePrepares
          /\ \A id \in RowIds \cup {0} : Settled(id) => Settled(id)'
        BY <1>1, MovesOfTable, TableStaysSettled
    <2>2. ASSUME NEW v \in Users, ListFollows(v) PROVE ListPhase(v)'
        <3>1. /\ \A item \in todo[v] : item[1] \in RowIds
              /\ req[v].id \in RowIds \cup {0}
            <4>1. \A item \in todo[v] : item \in RowIds \X Statuses
                BY <1>0
            <4>. QED  BY <1>0, <4>1 DEF Request
        <3>. QED  BY <2>1, <2>2, <3>1 DEF ListFollows, ListInv, ListPhase
    <2>3. CASE ~GetServiceListAction(u) /\ ~SyncWorkload(u)
        BY <1>1, <2>1, <2>2, <2>3, ListsFollow DEF ListInv
    <2>4. CASE GetServiceListAction(u)
        <3>1. /\ todo'[u] = {<<id, row[id].status>> : id \in Visible} /\ pc'[u] = "sync"
              /\ \A v \in Users : v # u => pc'[v] = pc[v] /\ req'[v] = req[v] /\ todo'[v] = todo[v]
              /\ UNCHANGED dbVars
            BY <1>0, <2>4 DEF GetServiceListAction, Begin
        <3>2. \A item \in todo'[u] : item[2] # "preparing" /\ Settled(item[1])'
            BY <1>0, <3>1 DEF Visible, Settled, ListInv, FreshIds, dbVars
        <3>3. ListPhase(u)'
            BY <3>1, <3>2 DEF ListPhase, SyncWrites
        <3>4. \A v \in Users : v # u => ListFollows(v)
            BY <3>1 DEF ListFollows, ListInv, ListPhase
        <3>. QED  BY <2>1, <2>2, <3>3, <3>4 DEF ListInv
    <2>5. CASE SyncWorkload(u)
        <3>1. PICK item \in todo[u] :
                /\ todo' = [todo EXCEPT ![u] = @ \ {item}]
                /\ IF item[2] = "stopped" \/ item[1] \notin live
                   THEN UNCHANGED <<pc, req>>
                   ELSE \E v \in View(row[item[1]].name, row[item[1]].type) :
                        \E verdict \in WorkloadVerdict(row[item[1]].type, v, item[2]) :
                            Begin(u, verdict[1],
                                  [req[u] EXCEPT !.id = item[1], !.name = row[item[1]].name,
                                                 !.type = row[item[1]].type,
                                                 !.status = verdict[2], !.seen = v])
            BY <2>5 DEF SyncWorkload
        <3>2. CASE UNCHANGED <<pc, req>>
            <4>1. \A v \in Users : ListFollows(v)
                BY <1>0, <3>1, <3>2 DEF ListFollows, ListInv, ListPhase
            <4>. QED  BY <2>1, <2>2, <4>1 DEF ListInv
        <3>3. CASE item[1] \in live /\ ~UNCHANGED <<pc, req>>
            <4>1. PICK v \in View(row[item[1]].name, row[item[1]].type) :
                  \E verdict \in WorkloadVerdict(row[item[1]].type, v, item[2]) :
                    Begin(u, verdict[1],
                          [req[u] EXCEPT !.id = item[1], !.name = row[item[1]].name,
                                         !.type = row[item[1]].type,
                                         !.status = verdict[2], !.seen = v])
                BY <3>1, <3>3
            <4>2. PICK verdict \in WorkloadVerdict(row[item[1]].type, v, item[2]) :
                    Begin(u, verdict[1],
                          [req[u] EXCEPT !.id = item[1], !.name = row[item[1]].name,
                                         !.type = row[item[1]].type,
                                         !.status = verdict[2], !.seen = v])
                BY <4>1
            <4>3. /\ req'[u].id = item[1] /\ req'[u].status = verdict[2]
                  /\ \A w \in Users : w # u => pc'[w] = pc[w] /\ req'[w] = req[w]
                BY <1>0, <4>2 DEF Begin, Request
            <4>4. verdict[2] # "preparing"
                <5>1. item[2] \in Statuses \ {"preparing"}
                    BY <1>0 DEF ListInv, ListPhase
                <5>2. /\ row[item[1]] \in Row /\ row[item[1]].name \in Names
                    BY <3>3, <1>0 DEF TypeInv, NamesKnown
                <5>. QED  BY <5>1, <5>2, VerdictPrepared DEF Row
            <4>5. Settled(item[1])'
                BY <1>0, <2>1 DEF ListInv, ListPhase
            <4>6. ListPhase(u)'
                <5>1. \A i \in todo'[u] : i \in todo[u] /\ i[1] \in RowIds
                    <6>1. \A i \in todo[u] : i \in RowIds \X Statuses
                        BY <1>0
                    <6>. QED  BY <1>0, <3>1, <6>1
                <5>. QED  BY <2>1, <4>3, <4>4, <4>5, <5>1 DEF ListInv, ListPhase
            <4>7. \A w \in Users : w # u => ListFollows(w)
                BY <1>0, <3>1, <4>3 DEF ListFollows, ListInv, ListPhase
            <4>. QED  BY <2>1, <2>2, <4>6, <4>7 DEF ListInv
        <3>. QED  BY <3>1, <3>2, <3>3
    <2>. QED  BY <2>3, <2>4, <2>5
<1>2. CASE (\E n \in Names : Cluster(n)) \/ UNCHANGED vars
    <2>1. UNCHANGED <<dbVars, procVars>>
        BY <1>2 DEF Cluster, DeploymentMoves, StatefulSetMoves, vars
    <2>. QED  BY <2>1 DEF ListInv, FreshIds, ListPhase, Settled, NobodyElsePrepares,
              dbVars, procVars
<1>. QED  BY <1>1, <1>2 DEF Next

\* A row that is being prepared is moved on by the request that deploys it, or by
\* a toggle: no list records a status for it, whatever requests overlap, since a
\* list has left the row out, and no id is given to a second row.
THEOREM PreparingStaysPrivate == Spec => PreparingIsPrivate
<1>1. Init => TypeInv /\ ListInv
    <2>. SUFFICES ASSUME Init PROVE ListInv
        BY TypeInit
    <2>. QED  BY DEF Init, ListInv, FreshIds, ListPhase, SyncWrites
<1>2. TypeInv /\ ListInv /\ [Next]_vars => (TypeInv /\ ListInv)'
    BY TypeStep, ListStep
<1>3. TypeInv /\ ListInv /\ [Next]_vars =>
        [\A id \in live :
            /\ row[id].status = "preparing"
            /\ row'[id].status # "preparing"
            => \E u \in Users :
                 /\ pc[u] \in {"mark", "markStopped"}
                 /\ req[u].id = id]_vars
    BY ListStep DEF NobodyElsePrepares
<1>. QED  BY <1>1, <1>2, <1>3, PTL DEF Spec, PreparingIsPrivate

-----------------------------------------------------------------------------
(* Deployments of one name at the same time. *)

\* Requests that create services and requests that look at them, edge services
\* aside, which have no k8s Service; and the compensating delete succeeds.
DeployInstance ==
    /\ Requests \subseteq {"configure", "deploy", "deployStatefulSet", "upload",
                           "list", "import", "autoscale", "autoscaleAcross"}
    /\ "Edge" \notin WizardTypes
    /\ "undo" \notin Faults

Kinds == {"Deployment", "StatefulSet"}

Kind(u) == IF req[u].op = "deployStatefulSet" THEN "StatefulSet" ELSE "Deployment"

Runs(k, n) == IF k = "StatefulSet" THEN sts[n] \in LiveStates ELSE dep[n] \in LiveStates

\* The request of u has made the workload, and goes on with it or takes it back.
Holds(u, k, n) == pc[u] \in {"createService", "undo"} /\ req[u].name = n /\ Kind(u) = k

Held(k, n) == \E u \in Users : Holds(u, k, n)

\* Only deployments get as far as the cluster.
OnlyDeploys(u) ==
    /\ pc[u] \notin {"deleteWorkload", "deleteService"}
    /\ step[u].type # "Edge"
    /\ pc[u] \in {"createWorkload", "createService", "undo"} =>
        req[u].op \in {"deploy", "deployStatefulSet"} /\ req[u].type # "Edge"

\* The name of a workload is a lock: it is held by one request, until that has
\* made the k8s Service too or has taken the workload back.
LockInv ==
    /\ \A u, v \in Users : \A k \in Kinds, n \in Names :
        Holds(u, k, n) /\ Holds(v, k, n) => u = v
    /\ \A k \in Kinds, n \in Names : Held(k, n) => Runs(k, n)
    /\ \A n \in Names : n \in svc <=> \E k \in Kinds : Runs(k, n) /\ ~Held(k, n)

DeployInv == LockInv /\ \A u \in Users : OnlyDeploys(u)

\* What a step does to the locks of the workloads of the project.
SameLocks ==
    /\ \A k \in Kinds, n \in Names : Runs(k, n)' <=> Runs(k, n)
    /\ \A v \in Users : \A k \in Kinds, n \in Names : Holds(v, k, n)' <=> Holds(v, k, n)
    /\ svc' = svc

LockTaken(u, k, n) ==
    /\ ~Runs(k, n)
    /\ \A j \in Kinds, m \in Names : Runs(j, m)' <=> Runs(j, m) \/ (j = k /\ m = n)
    /\ \A v \in Users : \A j \in Kinds, m \in Names :
        Holds(v, j, m)' <=> Holds(v, j, m) \/ (v = u /\ j = k /\ m = n)
    /\ svc' = svc

LockKept(u, k, n) ==
    /\ Holds(u, k, n)
    /\ \A j \in Kinds, m \in Names : Runs(j, m)' <=> Runs(j, m)
    /\ \A v \in Users : \A j \in Kinds, m \in Names :
        Holds(v, j, m)' <=> Holds(v, j, m) /\ v # u
    /\ svc' = svc \cup {n}

LockGivenBack(u, k, n) ==
    /\ Holds(u, k, n)
    /\ \A j \in Kinds, m \in Names : Runs(j, m)' <=> Runs(j, m) /\ ~(j = k /\ m = n)
    /\ \A v \in Users : \A j \in Kinds, m \in Names :
        Holds(v, j, m)' <=> Holds(v, j, m) /\ v # u
    /\ svc' = svc

LEMMA LocksStay ==
    ASSUME LockInv, SameLocks
    PROVE  LockInv'
<1>1. \A j \in Kinds, m \in Names : Held(j, m)' <=> Held(j, m)
    BY DEF Held, SameLocks
<1>. QED  BY <1>1 DEF SameLocks, LockInv

LEMMA LocksMove ==
    ASSUME LockInv, NEW u \in Users, NEW k \in Kinds, NEW n \in Names,
           \/ LockTaken(u, k, n)
           \/ LockKept(u, k, n)
           \/ LockGivenBack(u, k, n)
    PROVE  LockInv'
<1>0. \A j, i, m, l : Holds(u, j, m) /\ Holds(u, i, l) => i = j /\ m = l
    BY DEF Holds
<1>2. CASE LockTaken(u, k, n)
    <2>1. \A j \in Kinds, m \in Names : Held(j, m)' <=> Held(j, m) \/ (j = k /\ m = n)
        BY <1>2 DEF Held, LockTaken
    <2>2. ~Held(k, n)
        BY <1>2 DEF LockTaken, LockInv
    <2>3. \A v, w \in Users : \A j \in Kinds, m \in Names :
            Holds(v, j, m)' /\ Holds(w, j, m)' => v = w
        BY <1>2, <2>2 DEF LockTaken, LockInv, Held
    <2>4. \A j \in Kinds, m \in Names : Held(j, m)' => Runs(j, m)'
        BY <1>2, <2>1 DEF LockTaken, LockInv
    <2>5. \A j \in Kinds, m \in Names :
            Runs(j, m)' /\ ~Held(j, m)' <=> Runs(j, m) /\ ~Held(j, m)
        BY <1>2, <2>1 DEF LockTaken
    <2>6. \A m \in Names : m \in svc' <=> \E j \in Kinds : Runs(j, m)' /\ ~Held(j, m)'
        BY <1>2, <2>5 DEF LockTaken, LockInv
    <2>. QED  BY <2>3, <2>4, <2>6 DEF LockInv
<1>3. CASE LockKept(u, k, n)
    <2>1. \A j \in Kinds, m \in Names : Held(j, m)' <=> Held(j, m) /\ ~(j = k /\ m = n)
        BY <1>0, <1>3 DEF Held, LockKept, LockInv
    <2>2. Runs(k, n)
        BY <1>3 DEF LockKept, LockInv, Held
    <2>3. \A v, w \in Users : \A j \in Kinds, m \in Names :
            Holds(v, j, m)' /\ Holds(w, j, m)' => v = w
        BY <1>3 DEF LockKept, LockInv
    <2>4. \A j \in Kinds, m \in Names : Held(j, m)' => Runs(j, m)'
        BY <1>3, <2>1 DEF LockKept, LockInv
    <2>5. \A j \in Kinds, m \in Names :
            Runs(j, m)' /\ ~Held(j, m)' <=> (Runs(j, m) /\ ~Held(j, m)) \/ (j = k /\ m = n)
        BY <1>3, <2>1, <2>2 DEF LockKept
    <2>6. \A m \in Names : m \in svc' <=> \E j \in Kinds : Runs(j, m)' /\ ~Held(j, m)'
        BY <1>3, <2>5 DEF LockKept, LockInv
    <2>. QED  BY <2>3, <2>4, <2>6 DEF LockInv
<1>4. CASE LockGivenBack(u, k, n)
    <2>1. \A j \in Kinds, m \in Names : Held(j, m)' <=> Held(j, m) /\ ~(j = k /\ m = n)
        BY <1>0, <1>4 DEF Held, LockGivenBack, LockInv
    <2>2. Held(k, n)
        BY <1>4 DEF LockGivenBack, Held
    <2>3. \A v, w \in Users : \A j \in Kinds, m \in Names :
            Holds(v, j, m)' /\ Holds(w, j, m)' => v = w
        BY <1>4 DEF LockGivenBack, LockInv
    <2>4. \A j \in Kinds, m \in Names : Held(j, m)' => Runs(j, m)'
        BY <1>4, <2>1 DEF LockGivenBack, LockInv
    <2>5. \A j \in Kinds, m \in Names :
            Runs(j, m)' /\ ~Held(j, m)' <=> Runs(j, m) /\ ~Held(j, m)
        BY <1>4, <2>1, <2>2 DEF LockGivenBack
    <2>6. \A m \in Names : m \in svc' <=> \E j \in Kinds : Runs(j, m)' /\ ~Held(j, m)'
        BY <1>4, <2>5 DEF LockGivenBack, LockInv
    <2>. QED  BY <2>3, <2>4, <2>6 DEF LockInv
<1>. QED  BY <1>2, <1>3, <1>4

\* Calls that touch neither a workload nor a k8s Service.
ElsewhereMove(u) ==
    /\ UNCHANGED k8sVars
    /\ pc[u] \notin {"createService", "undo"} /\ pc'[u] \notin {"createService", "undo"}
    /\ \A v \in Users : v # u => pc'[v] = pc[v] /\ req'[v] = req[v] /\ step'[v] = step[v]

LEMMA ElsewhereKeeps ==
    ASSUME DeployInv, NEW u \in Users, ElsewhereMove(u), OnlyDeploys(u)'
    PROVE  DeployInv'
<1>1. \A v \in Users : \A k \in Kinds, n \in Names : Holds(v, k, n)' <=> Holds(v, k, n)
    BY DEF ElsewhereMove, Holds, Kind
<1>2. SameLocks
    BY <1>1 DEF ElsewhereMove, k8sVars, SameLocks, Runs
<1>3. \A v \in Users : OnlyDeploys(v)'
    BY DEF ElsewhereMove, OnlyDeploys, DeployInv
<1>. QED  BY <1>2, <1>3, LocksStay DEF DeployInv

LEMMA DeployStepNew ==
    ASSUME DeployInstance, TypeInv, DeployInv, NEW u \in Users, NewRequest(u)
    PROVE  DeployInv'
<1>0. /\ pc \in [Users -> PCs] /\ req \in [Users -> Request]
      /\ step \in [Users -> ConfigServiceStep] /\ pc[u] = "idle" /\ OnlyDeploys(u)
    BY DEF TypeInv, TypeOK, DeployInv, NewRequest, SetConfigServiceStep,
       DropConfigServiceStep, DeployServiceAction, DeployStatefulSetAction, DeployRequest,
       UploadYamlFileAction, DeleteDeployAction, GetServiceListAction,
       ImportServicesAction, ToggleStart, ToggleStop, DeleteServiceAction,
       DeleteStatefulSetAction, CreateAutoScaleAction, DeleteAutoScaleAction,
       DeleteAutoScaleAcross, Free, Idle
<1>1. CASE SetConfigServiceStep(u) \/ DropConfigServiceStep(u)
    <2>1. PICK s \in ConfigServiceStep : s.type # "Edge" /\ step' = [step EXCEPT ![u] = s]
        <3>1. CASE DropConfigServiceStep(u)
            BY <3>1 DEF DropConfigServiceStep, NoStep, ConfigServiceStep, Types
        <3>2. CASE SetConfigServiceStep(u)
            <4>1. PICK n \in Names, t \in WizardTypes :
                      step' = [step EXCEPT ![u] = [name |-> n, type |-> t]]
                BY <3>2 DEF SetConfigServiceStep
            <4>2. t # "Edge" /\ t \in Types
                BY ConstantsAssumption DEF DeployInstance, Types
            <4>. QED  BY <4>1, <4>2 DEF ConfigServiceStep
        <3>. QED  BY <1>1, <3>1, <3>2
    <2>2. UNCHANGED <<k8sVars, procVars>>
        BY <1>1 DEF SetConfigServiceStep, DropConfigServiceStep
    <2>. QED  BY <1>0, <2>1, <2>2, ElsewhereKeeps DEF ElsewhereMove, OnlyDeploys, procVars
<1>2. CASE DeployServiceAction(u) \/ DeployStatefulSetAction(u)
    <2>1. PICK op \in {"deploy", "deployStatefulSet"} : DeployRequest(u, op)
        BY <1>2 DEF DeployServiceAction, DeployStatefulSetAction
    <2>2. /\ UNCHANGED <<k8sVars, step>> /\ pc' = [pc EXCEPT ![u] = "createWorkload"]
          /\ req' = [req EXCEPT ![u] = [NullRequest EXCEPT !.op = op, !.id = nextId,
                                    !.name = step[u].name, !.type = step[u].type]]
        BY <2>1 DEF DeployRequest, Begin
    <2>3. req'[u].op = op /\ req'[u].type = step[u].type
        BY <1>0, <2>2 DEF NullRequest
    <2>. QED  BY <1>0, <2>2, <2>3, ElsewhereKeeps DEF ElsewhereMove, OnlyDeploys
<1>3. ASSUME NEW p, NEW r, Begin(u, p, r), UNCHANGED <<k8sVars, step>>,
             p \notin {"deleteWorkload", "deleteService", "createWorkload", "createService", "undo"}
      PROVE  DeployInv'
    BY <1>0, <1>3, ElsewhereKeeps DEF ElsewhereMove, OnlyDeploys, Begin
<1>4. CASE UploadYamlFileAction(u)
    BY <1>0, <1>4, ElsewhereKeeps DEF UploadYamlFileAction, ElsewhereMove, OnlyDeploys, procVars
<1>5. CASE GetServiceListAction(u) \/ ImportServicesAction(u)
    BY <1>3, <1>5 DEF GetServiceListAction, ImportServicesAction
<1>6. ASSUME NEW id \in RowIds, CreateAutoScaleAction(u, id) PROVE DeployInv'
    BY <1>3, <1>6 DEF CreateAutoScaleAction
<1>8. CASE DeleteAutoScaleAction(u) \/ DeleteAutoScaleAcross(u)
    <2>1. PICK r : Begin(u, "hpaDelete", r) /\ UNCHANGED <<k8sVars, step>>
        BY <1>8, HpaBegins DEF TypeInv, TypeOK
    <2>. QED  BY <1>3, <2>1
<1>7. /\ ~DeleteDeployAction(u)
      /\ \A id \in RowIds : ~ToggleStart(u, id) /\ ~ToggleStop(u, id)
                         /\ ~DeleteServiceAction(u, id) /\ ~DeleteStatefulSetAction(u, id)
    BY DEF DeployInstance, DeleteDeployAction, ToggleStart, ToggleStop,
       DeleteServiceAction, DeleteStatefulSetAction
<1>. QED  BY <1>1, <1>2, <1>4, <1>5, <1>6, <1>7, <1>8 DEF NewRequest

LEMMA DeployStepCluster ==
    ASSUME TypeInv, DeployInv, NEW m \in Names, Cluster(m)
    PROVE  DeployInv'
<1>1. /\ dep \in [Names -> WorkloadStates] /\ sts \in [Names -> WorkloadStates]
      /\ UNCHANGED <<svc, pc, req, step>>
    BY DEF TypeInv, TypeOK, Cluster, DeploymentMoves, StatefulSetMoves, procVars
<1>2. \A w \in WorkloadMoves : w[1] \in LiveStates <=> w[2] \in LiveStates
    BY DEF WorkloadMoves, LiveStates
<1>3. \A n \in Names : /\ dep'[n] \in LiveStates <=> dep[n] \in LiveStates
                       /\ sts'[n] \in LiveStates <=> sts[n] \in LiveStates
    <2>1. CASE DeploymentMoves(m)
        BY <1>1, <1>2, <2>1 DEF DeploymentMoves
    <2>2. CASE StatefulSetMoves(m)
        BY <1>1, <1>2, <2>2 DEF StatefulSetMoves
    <2>. QED  BY <2>1, <2>2 DEF Cluster
<1>4. SameLocks
    <2>1. \A u \in Users : \A k \in Kinds, n \in Names : Holds(u, k, n)' <=> Holds(u, k, n)
        BY <1>1 DEF Holds, Kind
    <2>2. \A k \in Kinds, n \in Names : Runs(k, n)' <=> Runs(k, n)
        BY <1>3 DEF Runs
    <2>. QED  BY <1>1, <2>1, <2>2 DEF SameLocks
<1>5. \A u \in Users : OnlyDeploys(u)'
    BY <1>1 DEF DeployInv, OnlyDeploys
<1>. QED  BY <1>4, <1>5, LocksStay DEF DeployInv

\* The three calls that take, keep and give back a lock.
LEMMA DeployStepLocks ==
    ASSUME DeployInstance, TypeInv, DeployInv, NEW u \in Users,
           CreateWorkload(u) \/ CreateService(u) \/ UndoWorkload(u)
    PROVE  DeployInv'
<1>. DEFINE k == Kind(u)
            n == req[u].name
<1>0. /\ pc \in [Users -> PCs] /\ req \in [Users -> Request] /\ step' = step
      /\ dep \in [Names -> WorkloadStates] /\ sts \in [Names -> WorkloadStates]
      /\ n \in Names /\ k \in Kinds /\ OnlyDeploys(u)
      /\ req[u].op \in {"deploy", "deployStatefulSet"} /\ req[u].type # "Edge"
      /\ k = "StatefulSet" <=> req[u].op = "deployStatefulSet"
    BY DEF TypeInv, TypeOK, NamesKnown, Nameless, DeployInv, OnlyDeploys, Kind, Kinds,
       CreateWorkload, CreateService, UndoWorkload
<1>. HIDE DEF k, n
<1>1. ASSUME Return(u) PROVE \A v \in Users : OnlyDeploys(v)'
    BY <1>0, <1>1 DEF Return, DeployInv, OnlyDeploys
<1>2. ASSUME NEW p \in {"push", "undo", "createService"}, Goto(u, p)
      PROVE  \A v \in Users : OnlyDeploys(v)'
    BY <1>0, <1>2 DEF Goto, DeployInv, OnlyDeploys
<1>3. \A v \in Users : Kind(v) \in Kinds
    BY DEF Kind, Kinds
<1>4. ASSUME pc[u] \in {"createService", "undo"} PROVE Holds(u, k, n)
    BY <1>4 DEF Holds, k, n
<1>5. CASE CreateWorkload(u)
    <2>1. CASE Return(u) /\ UNCHANGED <<dep, sts, svc>>
        BY <1>0, <1>1, <1>5, <2>1, ElsewhereKeeps
           DEF ElsewhereMove, Return, CreateWorkload, k8sVars
    <2>2. CASE ~(Return(u) /\ UNCHANGED <<dep, sts, svc>>)
        <3>1. /\ Goto(u, "createService") /\ svc' = svc /\ pc[u] = "createWorkload"
              /\ \/ /\ k = "StatefulSet" /\ sts[n] = "absent" /\ dep' = dep
                    /\ sts' = [sts EXCEPT ![n] = "created"]
                 \/ /\ k = "Deployment" /\ dep[n] = "absent" /\ sts' = sts
                    /\ dep' = [dep EXCEPT ![n] = "created"]
            BY <1>0, <1>5, <2>2 DEF CreateWorkload, n, Kinds
        <3>2. /\ ~Runs(k, n)
              /\ \A j \in Kinds, m \in Names : Runs(j, m)' <=> Runs(j, m) \/ (j = k /\ m = n)
            BY <1>0, <3>1 DEF Runs, LiveStates, Kinds
        <3>3. \A v \in Users : \A j \in Kinds, m \in Names :
                Holds(v, j, m)' <=> Holds(v, j, m) \/ (v = u /\ j = k /\ m = n)
            BY <1>0, <3>1 DEF Holds, Kind, Goto, k, n
        <3>4. LockTaken(u, k, n)
            BY <3>1, <3>2, <3>3 DEF LockTaken
        <3>. QED  BY <1>0, <1>2, <3>1, <3>4, LocksMove DEF DeployInv
    <2>. QED  BY <2>1, <2>2
<1>6. CASE CreateService(u)
    <2>1. UNCHANGED <<dep, sts>> /\ pc[u] = "createService"
        BY <1>6 DEF CreateService
    <2>2. \A j \in Kinds, m \in Names : Runs(j, m)' <=> Runs(j, m)
        BY <2>1 DEF Runs
    <2>3. CASE svc' = svc \cup {n} /\ Goto(u, "push")
        <3>1. \A v \in Users : \A j \in Kinds, m \in Names :
                Holds(v, j, m)' <=> Holds(v, j, m) /\ v # u
            BY <1>0, <2>3 DEF Holds, Kind, Goto
        <3>2. LockKept(u, k, n)
            BY <1>4, <2>1, <2>2, <2>3, <3>1 DEF LockKept
        <3>. QED  BY <1>0, <1>2, <2>3, <3>2, LocksMove DEF DeployInv
    <2>4. CASE svc' = svc /\ Goto(u, "undo")
        <3>1. \A v \in Users : \A j \in Kinds, m \in Names : Holds(v, j, m)' <=> Holds(v, j, m)
            BY <1>0, <2>1, <2>4 DEF Holds, Kind, Goto
        <3>2. SameLocks
            BY <2>2, <2>4, <3>1 DEF SameLocks
        <3>. QED  BY <1>2, <2>4, <3>2, LocksStay DEF DeployInv
    <2>. QED  BY <1>0, <1>6, <2>3, <2>4 DEF CreateService, n
<1>7. CASE UndoWorkload(u)
    <2>1. Return(u) /\ svc' = svc /\ pc[u] = "undo"
        BY <1>7 DEF UndoWorkload
    <2>2. \/ k = "StatefulSet" /\ sts' = Terminate(sts, n) /\ dep' = dep
          \/ k = "Deployment" /\ dep' = Terminate(dep, n) /\ sts' = sts
        BY <1>0, <1>7 DEF UndoWorkload, DeployInstance, n, Kinds
    <2>3. Runs(k, n)
        BY <1>0, <1>4, <2>1 DEF DeployInv, LockInv, Held
    <2>4. \A j \in Kinds, m \in Names : Runs(j, m)' <=> Runs(j, m) /\ ~(j = k /\ m = n)
        BY <1>0, <2>2, <2>3 DEF Runs, Terminate, LiveStates, Kinds
    <2>5. \A v \in Users : \A j \in Kinds, m \in Names :
            Holds(v, j, m)' <=> Holds(v, j, m) /\ v # u
        BY <1>0, <2>1 DEF Holds, Kind, Return
    <2>6. LockGivenBack(u, k, n)
        BY <1>4, <2>1, <2>4, <2>5 DEF LockGivenBack
    <2>. QED  BY <1>0, <1>1, <2>1, <2>6, LocksMove DEF DeployInv
<1>. QED  BY <1>5, <1>6, <1>7

LEMMA DeployStepContinue ==
    ASSUME DeployInstance, TypeInv, DeployInv, NEW u \in Users, Continue(u)
    PROVE  DeployInv'
<1>0. /\ pc \in [Users -> PCs] /\ req \in [Users -> Request]
      /\ step \in [Users -> ConfigServiceStep] /\ OnlyDeploys(u)
      /\ ~DeleteWorkload(u) /\ ~DeleteService(u)
    BY DEF TypeInv, TypeOK, DeployInv, OnlyDeploys, DeleteWorkload, DeleteService
<1>1. ASSUME pc[u] \notin {"createService", "undo"}, UNCHANGED k8sVars,
             \/ UNCHANGED step
             \/ step' = [step EXCEPT ![u] = NoStep],
             \/ Return(u)
             \/ \E p \in {"mark", "sync", "hpaInsert", "hpaDeleteDb", "deleteRow", "cancelStep"} :
                    Goto(u, p)
             \/ UNCHANGED <<pc, req>>
      PROVE  DeployInv'
    <2>1. step'[u].type # "Edge" /\ \A v \in Users : v # u => step'[v] = step[v]
        <3>1. step[u].type # "Edge" /\ NoStep.type # "Edge"
            BY <1>0 DEF OnlyDeploys, NoStep
        <3>2. CASE UNCHANGED step
            BY <3>1, <3>2
        <3>3. CASE step' = [step EXCEPT ![u] = NoStep]
            BY <1>0, <3>1, <3>3
        <3>. QED  BY <1>1, <3>2, <3>3
    <2>2. CASE Return(u)
        BY <1>0, <1>1, <2>1, <2>2, ElsewhereKeeps DEF ElsewhereMove, Return, OnlyDeploys
    <2>3. ASSUME NEW p \in {"mark", "sync", "hpaInsert", "hpaDeleteDb", "deleteRow", "cancelStep"},
                 Goto(u, p)
          PROVE  DeployInv'
        BY <1>0, <1>1, <2>1, <2>3, ElsewhereKeeps DEF ElsewhereMove, Goto, OnlyDeploys
    <2>4. CASE UNCHANGED <<pc, req>>
        BY <1>0, <1>1, <2>1, <2>4, ElsewhereKeeps DEF ElsewhereMove, OnlyDeploys
    <2>. QED  BY <1>1, <2>2, <2>3, <2>4
<1>2. ASSUME NEW p \in {"sync", "syncService", "syncWrite", "hpaDelete", "hpaDeleteDb"},
             NEW r, Begin(u, p, r),
             pc[u] \notin {"createService", "undo"}, UNCHANGED <<k8sVars, step>>
      PROVE  DeployInv'
    BY <1>0, <1>2, ElsewhereKeeps DEF ElsewhereMove, Begin, OnlyDeploys
<1>3. CASE CreateWorkload(u) \/ CreateService(u) \/ UndoWorkload(u)
    BY <1>3, DeployStepLocks
<1>4. CASE PushItemsToRepo(u) \/ MarkDeployed(u) \/ MarkRunning(u) \/ MarkStopped(u)
            \/ DeleteRow(u) \/ CancelRow(u) \/ CancelStep(u)
    BY <1>1, <1>4 DEF PushItemsToRepo, MarkDeployed, MarkRunning, MarkStopped, DeleteRow,
       CancelRow, CancelStep
<1>5. CASE CreateHpa(u) \/ InsertHpa(u)
    BY <1>1, <1>5 DEF CreateHpa, InsertHpa
<1>a. CASE ListHpas(u) \/ DeleteHpa(u) \/ DeleteHpaDb(u) \/ HpasDeleted(u)
    <2>1. /\ UNCHANGED <<k8sVars, step>> /\ pc[u] \notin {"createService", "undo"}
          /\ \/ Return(u)
             \/ Goto(u, "deleteRow")
             \/ \E p \in {"hpaDelete", "hpaDeleteDb"} : \E r : Begin(u, p, r)
        BY <1>a, HpaMoves
    <2>. QED  BY <1>1, <1>2, <2>1
<1>6. CASE SyncWrite(u) \/ SyncDone(u) \/ ImportDone(u)
    BY <1>1, <1>6 DEF SyncWrite, SyncDone, ImportDone
<1>7. CASE SyncServiceData(u)
    <2>1. /\ UNCHANGED <<k8sVars, step, pc>> /\ pc[u] = "import"
          /\ \E n : req' = [req EXCEPT ![u].names = @ \ {n}]
        BY <1>7 DEF SyncServiceData
    <2>. QED  BY <1>0, <2>1, ElsewhereKeeps DEF ElsewhereMove, OnlyDeploys
<1>8. CASE SyncService(u)
    BY <1>2, <1>8 DEF SyncService
<1>9. CASE SyncWorkload(u)
    <2>0. /\ pc[u] = "sync" /\ UNCHANGED <<k8sVars, step>>
          /\ todo \in [Users -> SUBSET (RowIds \X Statuses)]
        BY <1>9 DEF SyncWorkload, TypeInv, TypeOK
    <2>1. CASE UNCHANGED <<pc, req>>
        BY <1>1, <2>0, <2>1
    <2>2. CASE ~UNCHANGED <<pc, req>>
        <3>1. PICK item \in todo[u] :
                /\ item[1] \in live
                /\ \E v \in View(row[item[1]].name, row[item[1]].type) :
                   \E verdict \in WorkloadVerdict(row[item[1]].type, v, item[2]) :
                   \E r : Begin(u, verdict[1], r)
            BY <1>9, <2>2 DEF SyncWorkload
        <3>2. /\ item \in RowIds \X Statuses /\ row[item[1]] \in Row
              /\ row[item[1]].name \in Names
            BY <2>0, <3>1 DEF TypeInv, TypeOK, NamesKnown
        <3>3. row[item[1]].type \in Types /\ item[2] \in Statuses
            BY <3>2 DEF Row
        <3>4. PICK v \in View(row[item[1]].name, row[item[1]].type) :
                \E verdict \in WorkloadVerdict(row[item[1]].type, v, item[2]) :
                \E r : Begin(u, verdict[1], r)
            BY <3>1
        <3>5. PICK verdict \in WorkloadVerdict(row[item[1]].type, v, item[2]) :
                \E r : Begin(u, verdict[1], r)
            BY <3>4
        <3>6. verdict[1] \in {"syncWrite", "syncService"}
            BY <3>2, <3>3, VerdictTypes
        <3>. QED  BY <1>2, <2>0, <3>5, <3>6
    <2>. QED  BY <2>1, <2>2
<1>. QED  BY <1>0, <1>3, <1>4, <1>5, <1>6, <1>7, <1>8, <1>9, <1>a
    DEF Continue

\* Requests that deploy the same name at the same time leave its workload and its
\* k8s Service both there or both absent, whoever wins and whichever calls of
\* DeployService and StatefulSet's counterpart fail, but the compensating delete.
THEOREM DeploysAllOrNothing ==
    ASSUME DeployInstance
    PROVE  Spec => []DeployAllOrNothing
<1>1. Init => TypeInv /\ DeployInv
    <2>. SUFFICES ASSUME Init PROVE DeployInv
        BY TypeInit
    <2>1. \A k \in Kinds, n \in Names : ~Runs(k, n)
        BY DEF Init, Runs, LiveStates
    <2>2. \A u \in Users : \A k \in Kinds, n \in Names : ~Holds(u, k, n)
        BY DEF Init, Holds
    <2>3. LockInv
        BY <2>1, <2>2 DEF Init, LockInv, Held
    <2>. QED  BY <2>3 DEF Init, DeployInv, OnlyDeploys, NoStep
<1>2. TypeInv /\ DeployInv /\ [Next]_vars => (TypeInv /\ DeployInv)'
    <2>. SUFFICES ASSUME TypeInv, DeployInv, [Next]_vars PROVE DeployInv'
        BY TypeStep
    <2>1. CASE UNCHANGED vars
        <3>1. UNCHANGED <<dep, sts, svc, pc, req, step>>
            BY <2>1 DEF vars, k8sVars, procVars
        <3>. QED  BY <3>1 DEF DeployInv, OnlyDeploys, LockInv, Held, Holds, Runs, Kind
    <2>. QED  BY <2>1, DeployStepNew, DeployStepContinue, DeployStepCluster DEF Next
<1>3. DeployInv => DeployAllOrNothing
    <2>. SUFFICES ASSUME DeployInv, NEW n \in Names,
                         \A u \in Users :
                           ~(req[u].name = n /\ pc[u] \in {"createService", "undo"})
                  PROVE  n \in svc <=> dep[n] \in LiveStates \/ sts[n] \in LiveStates
        BY DEF DeployAllOrNothing
    <2>1. \A k \in Kinds : ~Held(k, n)
        BY DEF Held, Holds
    <2>. QED  BY <2>1 DEF DeployInv, LockInv, Runs, Kinds
<1>. QED  BY <1>1, <1>2, <1>3, PTL DEF Spec

-----------------------------------------------------------------------------
(* That SerialInv is an invariant of every serial instance, and what follows. *)

LEMMA ClaimedBy ==
    \A n : Claimed(n) <=> \E id \in live : row[id].name = n /\ row[id].status # "stopped"
BY DEF Claimed, RowsNamed

LEMMA ClaimedByNext ==
    \A n : Claimed(n)' <=> \E id \in live' : row'[id].name = n /\ row'[id].status # "stopped"
BY DEF Claimed, RowsNamed

\* ClusterObjectsAreOwned, when the request of u is the only one at work.
OwnedUnder(u) ==
    \A n \in Names :
        /\ dep[n] \in LiveStates =>
             Claimed(n) \/ InCharge(u, "start", n, {"createService", "undo", "push", "mark"})
        /\ n \in svc => Claimed(n) \/ InCharge(u, "start", n, {"push", "mark"})

Phases(u) == DeployPhase(u) /\ StopPhase(u) /\ RemovePhase(u) /\ SyncPhase(u)

\* u has the server to itself.
Alone(u) == \A v \in Users : v # u => Idle(v) /\ todo[v] = {}

LEMMA Focus ==
    ASSUME SerialInv, NEW u \in Users, ~Idle(u) \/ \A v \in Users : Idle(v)
    PROVE  Alone(u) /\ OwnedUnder(u) /\ Phases(u)
<1>1. \A v \in Users : v # u => Idle(v)
    BY DEF SerialInv, OneAtATime
<1>2. \A v \in Users : Idle(v) => todo[v] = {}
    BY DEF SerialInv, SyncPhase, SyncCalls, Idle
<1>3. OwnedUnder(u)
    BY <1>1 DEF SerialInv, ClusterObjectsAreOwned, OwnedUnder, InCharge, Idle
<1>. QED  BY <1>1, <1>2, <1>3 DEF Alone, Phases, SerialInv

\* It is enough to look at the request that moved.
LEMMA Assemble ==
    ASSUME SerialInv, NEW u \in Users, Alone(u),
           \A v \in Users : v # u => pc'[v] = pc[v] /\ todo'[v] = todo[v],
           FreshIds', NoStatefulSets', OwnedUnder(u)', Phases(u)'
    PROVE  SerialInv'
<1>1. \A v \in Users : v # u => pc'[v] = "idle" /\ todo'[v] = {}
    BY DEF Alone, Idle
<1>2. OneAtATime'
    BY <1>1 DEF OneAtATime, Idle
<1>3. ClusterObjectsAreOwned'
    BY DEF OwnedUnder, ClusterObjectsAreOwned, NoStatefulSets, LiveStates
<1>4. \A v \in Users : v # u => DeployPhase(v)' /\ StopPhase(v)' /\ RemovePhase(v)'
    BY <1>1 DEF DeployPhase, StopPhase, RemovePhase
<1>5. \A v \in Users : v # u => SyncPhase(v)'
    BY <1>1 DEF SyncPhase, SyncCalls
<1>. QED  BY <1>2, <1>3, <1>4, <1>5 DEF SerialInv, Phases

LEMMA SerialInit == Init => SerialInv
<1>. SUFFICES ASSUME Init PROVE SerialInv
    OBVIOUS
<1>1. OneAtATime /\ FreshIds /\ NoStatefulSets
    BY DEF Init, OneAtATime, FreshIds, NoStatefulSets, Idle
<1>2. ClusterObjectsAreOwned
    BY DEF Init, ClusterObjectsAreOwned, LiveStates
<1>3. \A u \in Users : DeployPhase(u) /\ StopPhase(u) /\ RemovePhase(u) /\ SyncPhase(u)
    BY DEF Init, DeployPhase, StopPhase, RemovePhase, SyncPhase, SyncCalls
<1>. QED  BY <1>1, <1>2, <1>3 DEF SerialInv

-----------------------------------------------------------------------------
(* The actions that begin a request. *)

\* A request that only reads: its first phase must hold of what it read.
LEMMA SerialBegin ==
    ASSUME SerialInv, TypeInv, NEW u \in Users, \A v \in Users : Idle(v),
           NEW p, NEW r, Begin(u, p, r),
           UNCHANGED <<dbVars, k8sVars>>,
           \A v \in Users : v # u => todo'[v] = todo[v],
           DeployPhase(u)', StopPhase(u)', RemovePhase(u)', SyncPhase(u)'
    PROVE  SerialInv'
<1>1. Alone(u) /\ OwnedUnder(u)
    BY Focus
<1>2. \A v \in Users : v # u => pc'[v] = pc[v]
    BY DEF Begin, TypeInv, TypeOK
<1>3. FreshIds' /\ NoStatefulSets'
    BY DEF SerialInv, FreshIds, NoStatefulSets, dbVars, k8sVars
<1>4. \A n : Claimed(n) => Claimed(n)'
    BY ClaimedBy, ClaimedByNext DEF dbVars
<1>5. OwnedUnder(u)'
    BY <1>1, <1>4 DEF OwnedUnder, InCharge, Idle, k8sVars
<1>. QED  BY <1>1, <1>2, <1>3, <1>5, Assemble DEF Phases

\* A row inserted by a request is "preparing", and claims its name.
LEMMA SerialAdd ==
    ASSUME SerialInv, TypeInv, NEW n, NEW t, NEW s, AddService(n, t, s)
    PROVE  /\ FreshIds'
           /\ \A m : Claimed(m) => Claimed(m)'
           /\ nextId \in live' /\ row'[nextId] = [name |-> n, type |-> t, status |-> s]
           /\ \A id \in live : id \in live' /\ row'[id] = row[id]
<1>1. nextId \in RowIds /\ nextId \in Nat
    BY RowBound DEF AddService, RowIds
<1>2. \A id \in live : id # nextId /\ id \in RowIds
    BY <1>1 DEF SerialInv, FreshIds, TypeInv, TypeOK, RowIds
<1>3. \A id \in live : row'[id] = row[id]
    BY <1>2 DEF AddService, TypeInv, TypeOK
<1>4. row'[nextId] = [name |-> n, type |-> t, status |-> s]
    BY <1>1 DEF AddService, TypeInv, TypeOK
<1>5. live' = live \cup {nextId} /\ nextId' = nextId + 1
    BY DEF AddService
<1>6. FreshIds'
    BY <1>1, <1>2, <1>5 DEF SerialInv, FreshIds, RowIds
<1>7. \A m : Claimed(m) => Claimed(m)'
    BY <1>3, <1>5, ClaimedBy, ClaimedByNext
<1>. QED  BY <1>3, <1>4, <1>5, <1>6, <1>7
LEMMA AllIdle ==
    ASSUME SerialInstance, NEW u \in Users, Free(u)
    PROVE  \A v \in Users : Idle(v)
BY DEF SerialInstance, Free

\* Phases that are empty at a given call.
LEMMA PhaseElsewhere ==
    ASSUME NEW u \in Users
    PROVE  /\ pc'[u] \notin {"createWorkload", "createService", "undo", "push", "mark"}
                => DeployPhase(u)'
           /\ pc'[u] \notin {"deleteWorkload", "deleteService", "markStopped"}
                => StopPhase(u)'
           /\ pc'[u] \notin {"hpaList", "hpaDelete", "hpaDeleteDb", "deleteRow", "cancelRow"}
                => RemovePhase(u)'
           /\ pc'[u] \notin SyncCalls /\ todo'[u] = {} => SyncPhase(u)'
BY DEF DeployPhase, StopPhase, RemovePhase, SyncPhase, SyncCalls

LEMMA SerialNewRequest ==
    ASSUME SerialInstance, SerialInv, TypeInv, NEW u \in Users, NewRequest(u)
    PROVE  SerialInv'
<1>0. \A v \in Users : Idle(v)
    BY AllIdle DEF NewRequest, SetConfigServiceStep, DropConfigServiceStep,
         DeployServiceAction, DeployStatefulSetAction, DeployRequest, UploadYamlFileAction,
         DeleteDeployAction, GetServiceListAction, ImportServicesAction, ToggleStart,
         ToggleStop, DeleteServiceAction, DeleteStatefulSetAction,
         CreateAutoScaleAction, DeleteAutoScaleAction, DeleteAutoScaleAcross
<1>a. \A v \in Users : todo[v] = {}
    BY <1>0 DEF SerialInv, SyncPhase, SyncCalls, Idle
<1>b. Alone(u) /\ OwnedUnder(u) /\ Phases(u)
    BY <1>0, Focus
<1>t. pc \in [Users -> PCs] /\ req \in [Users -> Request]
    BY DEF TypeInv, TypeOK
\* A request of any kind but "list", that changes no row and no object.
<1>r. ASSUME NEW p, NEW r, Begin(u, p, r), UNCHANGED <<dbVars, k8sVars, todo>>,
             p \notin SyncCalls,
             DeployPhase(u)', StopPhase(u)', RemovePhase(u)'
      PROVE  SerialInv'
    <2>1. pc'[u] = p
        BY <1>r, <1>t DEF Begin
    <2>2. SyncPhase(u)'
        BY <1>r, <1>a, <2>1, PhaseElsewhere
    <2>. QED  BY <1>0, <1>r, <2>2, SerialBegin
<1>1. CASE SetConfigServiceStep(u) \/ DropConfigServiceStep(u)
    <2>1. UNCHANGED <<dbVars, k8sVars, procVars>>
        BY <1>1 DEF SetConfigServiceStep, DropConfigServiceStep
    <2>a. FreshIds' /\ NoStatefulSets' /\ OwnedUnder(u)'
        BY <1>b, <2>1 DEF SerialInv, FreshIds, NoStatefulSets, OwnedUnder, Claimed,
             RowsNamed, InCharge, dbVars, k8sVars, procVars
    <2>b. Phases(u)'
        BY <1>b, <2>1 DEF SerialInv, Phases, DeployPhase, StopPhase, RemovePhase,
             SyncPhase, OwnRow, Gone, RowsNamed, dbVars, k8sVars, procVars
    <2>2. FreshIds' /\ NoStatefulSets' /\ OwnedUnder(u)' /\ Phases(u)'
        BY <2>a, <2>b
    <2>. QED  BY <1>b, <2>1, <2>2, Assemble DEF procVars
<1>2. CASE DeployServiceAction(u)
    <2>. DEFINE n == step[u].name
                r == [NullRequest EXCEPT !.op = "deploy", !.id = nextId,
                                         !.name = n, !.type = step[u].type]
    <2>1. /\ AddService(n, step[u].type, "preparing")
          /\ Begin(u, "createWorkload", r)
          /\ UNCHANGED <<k8sVars, todo>>
        BY <1>2 DEF DeployServiceAction, DeployRequest
    <2>2. r.op = "deploy" /\ r.id = nextId /\ r.name = n
        BY DEF NullRequest
    <2>. HIDE DEF n, r
    <2>3. /\ FreshIds'
          /\ \A m : Claimed(m) => Claimed(m)'
          /\ nextId \in live'
          /\ row'[nextId] = [name |-> n, type |-> step[u].type, status |-> "preparing"]
        BY <2>1, SerialAdd
    <2>4. pc'[u] = "createWorkload" /\ req'[u] = r /\ \A v \in Users : v # u => pc'[v] = pc[v]
        BY <1>t, <2>1 DEF Begin
    <2>5. DeployPhase(u)'
        BY <2>2, <2>3, <2>4 DEF DeployPhase, OwnRow
    <2>6. Phases(u)'
        BY <1>a, <2>1, <2>4, <2>5, PhaseElsewhere DEF Phases, SyncCalls
    <2>7. NoStatefulSets'
        BY <2>1 DEF SerialInv, NoStatefulSets, k8sVars
    <2>8. OwnedUnder(u)'
        BY <1>0, <1>b, <2>1, <2>3 DEF OwnedUnder, InCharge, Idle, k8sVars
    <2>. QED  BY <1>b, <2>1, <2>3, <2>4, <2>6, <2>7, <2>8, Assemble
<1>3. CASE DeployStatefulSetAction(u)
    BY <1>3 DEF DeployStatefulSetAction, SerialInstance
<1>4. CASE UploadYamlFileAction(u)
    <2>1. PICK n \in Names : AddService(n, "NodePort", "preparing")
        BY <1>4 DEF UploadYamlFileAction
    <2>2. UNCHANGED <<k8sVars, procVars>>
        BY <1>4 DEF UploadYamlFileAction
    <2>3. FreshIds' /\ \A m : Claimed(m) => Claimed(m)'
        BY <2>1, SerialAdd
    <2>4. OwnedUnder(u)'
        BY <1>0, <1>b, <2>2, <2>3 DEF OwnedUnder, InCharge, Idle, k8sVars
    <2>5. NoStatefulSets'
        BY <2>2 DEF SerialInv, NoStatefulSets, k8sVars
    <2>6. Phases(u)'
        BY <1>0, <1>a, <2>2, PhaseElsewhere DEF Phases, Idle, procVars, SyncCalls
    <2>. QED  BY <1>b, <2>2, <2>3, <2>4, <2>5, <2>6, Assemble DEF procVars
<1>5. CASE DeleteDeployAction(u)
    <2>. DEFINE r == [NullRequest EXCEPT !.op = "cancel", !.name = step[u].name]
    <2>1. Begin(u, "deleteWorkload", r) /\ UNCHANGED <<dbVars, k8sVars, todo>>
        BY <1>5 DEF DeleteDeployAction
    <2>2. r.op = "cancel"
        BY DEF NullRequest
    <2>. HIDE DEF r
    <2>3. pc'[u] = "deleteWorkload" /\ req'[u] = r
        BY <1>t, <2>1 DEF Begin
    <2>4. DeployPhase(u)' /\ StopPhase(u)' /\ RemovePhase(u)'
        BY <2>2, <2>3 DEF DeployPhase, StopPhase, RemovePhase
    <2>. QED  BY <1>r, <2>1, <2>4 DEF SyncCalls
<1>6. CASE GetServiceListAction(u)
    <2>. DEFINE r == [NullRequest EXCEPT !.op = "list"]
    <2>1. /\ Begin(u, "sync", r)
          /\ todo' = [todo EXCEPT ![u] = {<<id, row[id].status>> : id \in Visible}]
          /\ UNCHANGED <<dbVars, k8sVars>>
        BY <1>6 DEF GetServiceListAction
    <2>2. pc'[u] = "sync"
        BY <1>t, <2>1 DEF Begin
    <2>3. /\ todo'[u] = {<<id, row[id].status>> : id \in Visible}
          /\ \A v \in Users : v # u => todo'[v] = todo[v]
        BY <2>1 DEF TypeInv, TypeOK
    <2>4. \A item \in todo'[u] : item[1] \in live /\ row[item[1]].status = item[2]
                                /\ item[2] # "preparing"
        BY <2>3 DEF Visible
    <2>5. SyncPhase(u)'
        BY <2>1, <2>2, <2>4 DEF SyncPhase, SyncCalls, dbVars
    <2>6. DeployPhase(u)' /\ StopPhase(u)' /\ RemovePhase(u)'
        BY <2>2, PhaseElsewhere
    <2>. HIDE DEF r
    <2>. QED  BY <1>0, <2>1, <2>3, <2>5, <2>6, SerialBegin
<1>7. CASE ImportServicesAction(u)
    <2>. DEFINE r == [NullRequest EXCEPT !.op = "import", !.names = svc]
    <2>1. Begin(u, "import", r) /\ UNCHANGED <<dbVars, k8sVars, todo>>
        BY <1>7 DEF ImportServicesAction
    <2>. HIDE DEF r
    <2>2. pc'[u] = "import"
        BY <1>t, <2>1 DEF Begin
    <2>. QED  BY <1>r, <2>1, <2>2, PhaseElsewhere DEF SyncCalls
<1>8. ASSUME NEW id \in RowIds, ToggleStart(u, id) PROVE SerialInv'
    <2>. DEFINE r == [NullRequest EXCEPT !.op = "start", !.id = id,
                                 !.name = row[id].name, !.type = row[id].type]
    <2>1. /\ id \in live /\ row[id].status # "running"
          /\ Begin(u, "createWorkload", r) /\ UNCHANGED <<dbVars, k8sVars, todo>>
        BY <1>8 DEF ToggleStart
    <2>2. r.op = "start" /\ r.id = id /\ r.name = row[id].name
        BY DEF NullRequest
    <2>. HIDE DEF r
    <2>3. pc'[u] = "createWorkload" /\ req'[u] = r
        BY <1>t, <2>1 DEF Begin
    <2>4. DeployPhase(u)'
        BY <2>1, <2>2, <2>3 DEF DeployPhase, OwnRow, dbVars
    <2>5. StopPhase(u)' /\ RemovePhase(u)'
        BY <2>3, PhaseElsewhere
    <2>. QED  BY <1>r, <2>1, <2>4, <2>5 DEF SyncCalls
<1>9. ASSUME NEW id \in RowIds, ToggleStop(u, id) PROVE SerialInv'
    <2>. DEFINE r == [NullRequest EXCEPT !.op = "stop", !.id = id, !.name = row[id].name]
    <2>1. /\ id \in live /\ row[id].status # "stopped"
          /\ Begin(u, "deleteWorkload", r) /\ UNCHANGED <<dbVars, k8sVars, todo>>
        BY <1>9 DEF ToggleStop
    <2>2. r.op = "stop" /\ r.id = id /\ r.name = row[id].name
        BY DEF NullRequest
    <2>. HIDE DEF r
    <2>3. pc'[u] = "deleteWorkload" /\ req'[u] = r
        BY <1>t, <2>1 DEF Begin
    <2>4. StopPhase(u)'
        BY <2>1, <2>2, <2>3 DEF StopPhase, OwnRow, dbVars
    <2>5. DeployPhase(u)' /\ RemovePhase(u)'
        BY <2>3, PhaseElsewhere
    <2>. QED  BY <1>r, <2>1, <2>4, <2>5 DEF SyncCalls
<1>10. ASSUME NEW id \in RowIds, DeleteServiceAction(u, id) PROVE SerialInv'
    <2>. DEFINE p == IF row[id].status = "stopped" THEN "hpaList" ELSE "deleteWorkload"
                r == [NullRequest EXCEPT !.op = "delete", !.id = id, !.name = row[id].name]
    <2>1. /\ id \in live
          /\ Begin(u, p, r) /\ UNCHANGED <<dbVars, k8sVars, todo>>
        BY <1>10 DEF DeleteServiceAction
    <2>2. r.op = "delete" /\ r.id = id /\ r.name = row[id].name
        BY DEF NullRequest
    <2>. HIDE DEF r
    <2>3. pc'[u] = p /\ req'[u] = r
        BY <1>t, <2>1 DEF Begin
    <2>4. StopPhase(u)'
        BY <2>1, <2>2, <2>3 DEF StopPhase, OwnRow, dbVars
    <2>5. RemovePhase(u)'
        BY <2>1, <2>2, <2>3 DEF RemovePhase, OwnRow, dbVars
    <2>6. DeployPhase(u)'
        BY <2>3, PhaseElsewhere
    <2>7. p \notin SyncCalls
        BY DEF SyncCalls
    <2>. HIDE DEF p
    <2>. QED  BY <1>r, <2>1, <2>4, <2>5, <2>6, <2>7
<1>11. ASSUME NEW id \in RowIds, DeleteStatefulSetAction(u, id) PROVE SerialInv'
    BY <1>11 DEF DeleteStatefulSetAction, SerialInstance
<1>12. ASSUME NEW id \in RowIds, CreateAutoScaleAction(u, id) PROVE SerialInv'
    <2>1. PICK r : Begin(u, "hpaCreate", r) /\ UNCHANGED <<dbVars, k8sVars, todo>>
        BY <1>12 DEF CreateAutoScaleAction
    <2>2. pc'[u] = "hpaCreate"
        BY <1>t, <2>1 DEF Begin
    <2>. QED  BY <1>r, <2>1, <2>2, PhaseElsewhere DEF SyncCalls
<1>13. CASE DeleteAutoScaleAction(u) \/ DeleteAutoScaleAcross(u)
    <2>a. PICK r \in Request :
               /\ r.op \in {"hpaDelete", "hpaServiceElsewhere", "hpaRuleElsewhere"}
               /\ r.names # {}
               /\ Begin(u, "hpaDelete", r)
               /\ UNCHANGED <<dbVars, k8sVars, hpaVars, step, todo>>
        BY <1>13, HpaBegins DEF TypeInv, TypeOK
    <2>1. Begin(u, "hpaDelete", r) /\ UNCHANGED <<dbVars, k8sVars, todo>>
        BY <2>a
    <2>2. r.op \in {"hpaDelete", "hpaServiceElsewhere", "hpaRuleElsewhere"} /\ r.names # {}
        BY <2>a
    <2>3. pc'[u] = "hpaDelete" /\ req'[u] = r
        BY <1>t, <2>1 DEF Begin
    <2>4. RemovePhase(u)'
        BY <2>2, <2>3 DEF RemovePhase
    <2>5. DeployPhase(u)' /\ StopPhase(u)'
        BY <2>3, PhaseElsewhere
    <2>. QED  BY <1>r, <2>1, <2>4, <2>5 DEF SyncCalls
<1>. QED
    BY <1>1, <1>2, <1>3, <1>4, <1>5, <1>6, <1>7, <1>8, <1>9, <1>10, <1>11, <1>12, <1>13
    DEF NewRequest
-----------------------------------------------------------------------------
(* The calls of a request that has begun. *)

\* What an UPDATE and a DELETE of a live row change.
LEMMA SerialUpdate ==
    ASSUME TypeInv, NEW id \in live, NEW s, UpdateServiceStatus(id, s)
    PROVE  /\ live' = live /\ nextId' = nextId
           /\ row'[id].status = s
           /\ \A i \in live : row'[i].name = row[i].name
           /\ \A i \in live : i # id => row'[i] = row[i]
<1>1. id \in RowIds /\ row[id] \in Row
    BY DEF TypeInv, TypeOK
<1>2. row' = [row EXCEPT ![id] = [row[id] EXCEPT !.status = s]]
    BY DEF UpdateServiceStatus
<1>3. /\ [row[id] EXCEPT !.status = s].status = s
      /\ [row[id] EXCEPT !.status = s].name = row[id].name
    BY <1>1 DEF Row
<1>. QED  BY <1>1, <1>2, <1>3 DEF UpdateServiceStatus, TypeInv, TypeOK

LEMMA SerialDelete ==
    ASSUME TypeInv, NEW id \in live, DeleteServiceRow(id)
    PROVE  /\ live' = live \ {id} /\ nextId' = nextId
           /\ \A i \in live : i # id => row'[i] = row[i]
BY DEF DeleteServiceRow, TypeInv, TypeOK

\* A call that changes no row and no object.
LEMMA SerialStay ==
    ASSUME SerialInv, TypeInv, NEW u \in Users, ~Idle(u),
           UNCHANGED <<dbVars, k8sVars>>,
           \A v \in Users : v # u => pc'[v] = pc[v] /\ todo'[v] = todo[v],
           \/ req[u].op # "start"
           \/ pc[u] \notin {"createService", "undo", "push", "mark"}
           \/ pc[u] = "push" /\ pc'[u] = "mark" /\ req'[u] = req[u],
           Phases(u)'
    PROVE  SerialInv'
<1>1. Alone(u) /\ OwnedUnder(u)
    BY Focus
<1>2. FreshIds' /\ NoStatefulSets'
    BY DEF SerialInv, FreshIds, NoStatefulSets, dbVars, k8sVars
<1>3. \A n : Claimed(n) => Claimed(n)'
    BY ClaimedBy, ClaimedByNext DEF dbVars
<1>4. OwnedUnder(u)'
    BY <1>1, <1>3 DEF OwnedUnder, InCharge, k8sVars
<1>. QED  BY <1>1, <1>2, <1>4, Assemble

\* A list never decides on "stopped" or "preparing" for a row that is neither.
LEMMA VerdictObserved ==
    ASSUME NEW n \in Names, NEW t \in Types, NEW s \in Observed,
           NEW v \in View(n, t), NEW verdict \in WorkloadVerdict(t, v, s)
    PROVE  verdict[1] \in {"syncWrite", "syncService"} /\ verdict[2] \in Observed
<1>. USE DEF Types, Observed
<1>1. /\ DeploymentView(n) \subseteq {"nil", "short", "full"}
      /\ StatefulSetView(n) \subseteq {"nil", "short", "full"}
    BY DEF DeploymentView, StatefulSetView
<1>2. CASE t = "Unknown"
    <2>1. v = "none"
        BY <1>2 DEF View
    <2>. QED  BY <1>2, <2>1 DEF WorkloadVerdict
<1>3. CASE t # "Unknown"
    <2>1. v \in {"nil", "short", "full"}
        BY <1>1, <1>3 DEF View
    <2>2. \A x \in ShortVerdict(t) : x[1] \in {"syncWrite", "syncService"} /\ x[2] \in Observed
        <3>1. CASE t = "NodePort"
            BY <3>1 DEF ShortVerdict
        <3>2. CASE t = "Edge"
            BY <3>2 DEF ShortVerdict
        <3>3. CASE t = "StatefulSet"
            BY <3>3 DEF ShortVerdict
        <3>. QED  BY <1>3, <3>1, <3>2, <3>3
    <2>3. CASE verdict \in ShortVerdict(t)
        BY <2>2, <2>3
    <2>4. CASE verdict \notin ShortVerdict(t)
        BY <1>3, <2>1, <2>4 DEF WorkloadVerdict
    <2>. QED  BY <2>3, <2>4
<1>. QED  BY <1>2, <1>3

LEMMA SerialContinue ==
    ASSUME SerialInstance, SerialInv, TypeInv, NEW u \in Users, Continue(u)
    PROVE  SerialInv'
<1>t. /\ pc \in [Users -> PCs] /\ req \in [Users -> Request]
      /\ todo \in [Users -> SUBSET (RowIds \X Statuses)]
    BY DEF TypeInv, TypeOK
<1>0. ~Idle(u)
    BY DEF Continue, Idle, CreateWorkload, CreateService, UndoWorkload, PushItemsToRepo,
         MarkDeployed, MarkRunning, DeleteWorkload, DeleteService, MarkStopped, DeleteRow,
         CancelRow, CancelStep, CreateHpa, InsertHpa, ListHpas, DeleteHpa, DeleteHpaDb,
         HpasDeleted, SyncWorkload, SyncService, SyncWrite, SyncDone, SyncServiceData, ImportDone
<1>b. Alone(u) /\ OwnedUnder(u) /\ Phases(u)
    BY <1>0, Focus
<1>f. FreshIds /\ NoStatefulSets
    BY DEF SerialInv
<1>g. /\ UNCHANGED dbVars => FreshIds'
      /\ UNCHANGED dbVars => \A n : Claimed(n) => Claimed(n)'
      /\ UNCHANGED sts => NoStatefulSets'
    BY <1>f, ClaimedBy, ClaimedByNext DEF FreshIds, NoStatefulSets, dbVars
\* Where the control goes.
<1>h. ASSUME NEW p, Goto(u, p)
      PROVE  /\ pc'[u] = p /\ req' = req /\ todo' = todo
             /\ \A v \in Users : v # u => pc'[v] = pc[v] /\ todo'[v] = todo[v]
    BY <1>h, <1>t DEF Goto
<1>i. ASSUME Return(u)
      PROVE  /\ Phases(u)'
             /\ \A v \in Users : v # u => pc'[v] = pc[v] /\ todo'[v] = todo[v]
    <2>1. pc'[u] = "idle" /\ todo'[u] = {}
        BY <1>i, <1>t DEF Return
    <2>2. \A v \in Users : v # u => pc'[v] = pc[v] /\ todo'[v] = todo[v]
        BY <1>i, <1>t DEF Return
    <2>. QED  BY <2>1, <2>2, PhaseElsewhere DEF Phases, SyncCalls
<1>j. ASSUME NEW p, NEW r, Begin(u, p, r)
      PROVE  pc'[u] = p /\ req'[u] = r /\ \A v \in Users : v # u => pc'[v] = pc[v]
    BY <1>j, <1>t DEF Begin
<1>k. pc[u] \notin SyncCalls => todo[u] = {}
    BY <1>b DEF Phases, SyncPhase
<1>1. CASE CreateWorkload(u)
    <2>1. /\ pc[u] = "createWorkload" /\ req[u].op \in {"deploy", "start"} /\ OwnRow(u)
          /\ req[u].op = "deploy" => row[req[u].id].status = "preparing"
        BY <1>1, <1>b DEF CreateWorkload, Phases, DeployPhase
    <2>2. UNCHANGED <<dbVars, svc, sts>>
        BY <1>1, <2>1 DEF CreateWorkload
    <2>3. CASE Return(u) /\ UNCHANGED dep
        <3>1. UNCHANGED <<dbVars, k8sVars>>
            BY <2>2, <2>3 DEF k8sVars
        <3>. QED  BY <1>0, <1>i, <2>1, <2>3, <3>1, SerialStay
    <2>4. CASE /\ dep' = [dep EXCEPT ![req[u].name] = "created"]
               /\ Goto(u, IF req[u].op = "deploy" /\ req[u].type = "Edge"
                          THEN "push" ELSE "createService")
        <3>. DEFINE p == IF req[u].op = "deploy" /\ req[u].type = "Edge"
                         THEN "push" ELSE "createService"
        <3>1. /\ pc'[u] = p /\ req' = req /\ todo' = todo
              /\ \A v \in Users : v # u => pc'[v] = pc[v] /\ todo'[v] = todo[v]
            BY <1>h, <2>4
        <3>2. DeployPhase(u)'
            BY <1>b, <2>1, <2>2, <3>1 DEF Phases, DeployPhase, OwnRow, dbVars
        <3>3. Phases(u)'
            BY <1>k, <2>1, <3>1, <3>2, PhaseElsewhere DEF Phases, SyncCalls
        <3>4. req[u].op = "deploy" => Claimed(req[u].name)
            BY <2>1, ClaimedBy DEF OwnRow
        <3>5. ASSUME NEW n \in Names
              PROVE  /\ dep'[n] \in LiveStates => Claimed(n)' \/
                          InCharge(u, "start", n, {"createService", "undo", "push", "mark"})'
                     /\ n \in svc' => Claimed(n)' \/ InCharge(u, "start", n, {"push", "mark"})'
            <4>1. n \in svc => Claimed(n)
                BY <1>b, <2>1 DEF OwnedUnder, InCharge
            <4>2. CASE n = req[u].name
                BY <1>g, <2>1, <2>2, <3>1, <3>4, <4>1, <4>2 DEF InCharge
            <4>3. CASE n # req[u].name
                <5>1. dep'[n] = dep[n]
                    BY <2>4, <4>3 DEF TypeInv, TypeOK
                <5>2. dep[n] \in LiveStates => Claimed(n)
                    BY <1>b, <2>1 DEF OwnedUnder, InCharge
                <5>. QED  BY <1>g, <2>2, <4>1, <5>1, <5>2
            <4>. QED  BY <4>2, <4>3
        <3>6. OwnedUnder(u)'
            BY <3>5 DEF OwnedUnder
        <3>. QED  BY <1>b, <1>g, <2>2, <3>1, <3>3, <3>6, Assemble
    <2>. QED  BY <1>1, <2>1, <2>3, <2>4 DEF CreateWorkload
<1>2. CASE CreateService(u)
    <2>1. /\ pc[u] = "createService" /\ req[u].op \in {"deploy", "start"} /\ OwnRow(u)
          /\ req[u].op = "deploy" => row[req[u].id].status = "preparing"
        BY <1>2, <1>b DEF CreateService, Phases, DeployPhase
    <2>2. UNCHANGED <<dbVars, dep, sts>>
        BY <1>2 DEF CreateService
    <2>3. PICK p \in {"push", "undo"} :
              /\ Goto(u, p)
              /\ p = "push" => svc' = svc \cup {req[u].name}
              /\ p = "undo" => svc' = svc
        BY <1>2 DEF CreateService, SerialInstance
    <2>4. /\ pc'[u] = p /\ req' = req /\ todo' = todo
          /\ \A v \in Users : v # u => pc'[v] = pc[v] /\ todo'[v] = todo[v]
        BY <1>h, <2>3
    <2>5. DeployPhase(u)'
        BY <1>b, <2>1, <2>2, <2>4 DEF Phases, DeployPhase, OwnRow, dbVars
    <2>6. Phases(u)'
        BY <1>k, <2>1, <2>4, <2>5, PhaseElsewhere DEF Phases, SyncCalls
    <2>7. req[u].op = "deploy" => Claimed(req[u].name)
        BY <2>1, ClaimedBy DEF OwnRow
    <2>8. \A n \in Names : n \in svc => Claimed(n)
        BY <1>b, <2>1 DEF OwnedUnder, InCharge
    <2>9. \A n \in Names : dep[n] \in LiveStates => Claimed(n) \/ InCharge(u, "start", n, {"createService"})
        BY <1>b, <2>1 DEF OwnedUnder, InCharge
    <2>10. OwnedUnder(u)'
        BY <1>g, <2>1, <2>2, <2>3, <2>4, <2>7, <2>8, <2>9 DEF OwnedUnder, InCharge
    <2>. QED  BY <1>b, <1>g, <2>2, <2>4, <2>6, <2>10, Assemble
<1>3. CASE UndoWorkload(u)
    <2>1. /\ pc[u] = "undo" /\ req[u].op \in {"deploy", "start"} /\ OwnRow(u)
          /\ req[u].op = "deploy" => row[req[u].id].status = "preparing"
        BY <1>3, <1>b DEF UndoWorkload, Phases, DeployPhase
    <2>2. UNCHANGED <<dbVars, svc, sts>> /\ Return(u) /\ dep' = Terminate(dep, req[u].name)
        BY <1>3, <2>1 DEF UndoWorkload, SerialInstance
    <2>3. \A n \in Names : dep'[n] \in LiveStates =>
             dep[n] \in LiveStates /\ n # req[u].name
        BY <2>2 DEF Terminate, TypeInv, TypeOK, LiveStates
    <2>4. OwnedUnder(u)'
        BY <1>b, <1>g, <2>1, <2>2, <2>3 DEF OwnedUnder, InCharge
    <2>. QED  BY <1>b, <1>g, <1>i, <2>2, <2>4, Assemble
<1>4. CASE PushItemsToRepo(u)
    <2>1. /\ pc[u] = "push" /\ req[u].op \in {"deploy", "start"} /\ OwnRow(u)
        BY <1>4, <1>b DEF PushItemsToRepo, Phases, DeployPhase
    <2>2. UNCHANGED <<dbVars, k8sVars>>
        BY <1>4 DEF PushItemsToRepo
    <2>3. CASE Goto(u, "mark")
        <3>1. /\ pc'[u] = "mark" /\ req' = req /\ todo' = todo
              /\ \A v \in Users : v # u => pc'[v] = pc[v] /\ todo'[v] = todo[v]
            BY <1>h, <2>3
        <3>2. DeployPhase(u)'
            BY <1>b, <2>1, <2>2, <3>1 DEF Phases, DeployPhase, OwnRow, dbVars
        <3>3. Phases(u)'
            BY <1>k, <2>1, <3>1, <3>2, PhaseElsewhere DEF Phases, SyncCalls
        <3>. QED  BY <1>0, <2>1, <2>2, <3>1, <3>3, SerialStay
    <2>4. CASE req[u].op # "start" /\ Return(u)
        BY <1>0, <1>i, <2>2, <2>4, SerialStay
    <2>. QED  BY <1>4, <2>3, <2>4 DEF PushItemsToRepo, SerialInstance
<1>5. CASE MarkDeployed(u)
    <2>. DEFINE id == req[u].id
    <2>1. pc[u] = "mark" /\ id \in live /\ UNCHANGED k8sVars /\ Return(u)
        BY <1>5, <1>b DEF MarkDeployed, Phases, DeployPhase, OwnRow
    <2>2. UpdateServiceStatus(id, "uncompleted")
        BY <1>5 DEF MarkDeployed
    <2>. HIDE DEF id
    <2>3. /\ live' = live /\ nextId' = nextId /\ row'[id].status = "uncompleted"
          /\ \A i \in live : row'[i].name = row[i].name
          /\ \A i \in live : i # id => row'[i] = row[i]
        BY <2>1, <2>2, SerialUpdate
    <2>4. \A n : Claimed(n) => Claimed(n)'
        BY <2>3, ClaimedBy, ClaimedByNext
    <2>5. FreshIds'
        BY <1>f, <2>3 DEF FreshIds
    <2>6. req[u].op = "deploy"
        BY <1>5, <1>b DEF MarkDeployed, Phases, DeployPhase
    <2>7. OwnedUnder(u)'
        BY <1>b, <2>1, <2>4, <2>6 DEF OwnedUnder, InCharge, k8sVars
    <2>. QED  BY <1>b, <1>g, <1>i, <2>1, <2>5, <2>7, Assemble DEF k8sVars
<1>6. CASE MarkRunning(u)
    <2>. DEFINE id == req[u].id
    <2>1. /\ pc[u] = "mark" /\ id \in live /\ UNCHANGED k8sVars /\ Return(u)
          /\ row[id].name = req[u].name
        BY <1>6, <1>b DEF MarkRunning, Phases, DeployPhase, OwnRow
    <2>2. UpdateServiceStatus(id, "running")
        BY <1>6 DEF MarkRunning
    <2>. HIDE DEF id
    <2>3. /\ live' = live /\ nextId' = nextId /\ row'[id].status = "running"
          /\ \A i \in live : row'[i].name = row[i].name
          /\ \A i \in live : i # id => row'[i] = row[i]
        BY <2>1, <2>2, SerialUpdate
    <2>4. \A n : Claimed(n) => Claimed(n)'
        BY <2>3, ClaimedBy, ClaimedByNext
    <2>5. FreshIds'
        BY <1>f, <2>3 DEF FreshIds
    <2>6. \A n : n = req[u].name => Claimed(n)'
        BY <2>1, <2>3, ClaimedByNext
    <2>7. OwnedUnder(u)'
        BY <1>b, <2>1, <2>4, <2>6 DEF OwnedUnder, InCharge, k8sVars
    <2>. QED  BY <1>b, <1>g, <1>i, <2>1, <2>5, <2>7, Assemble DEF k8sVars
<1>7. CASE DeleteWorkload(u)
    <2>1. /\ pc[u] = "deleteWorkload" /\ req[u].op \in {"stop", "delete", "cancel"}
          /\ req[u].op # "cancel" => OwnRow(u) /\ row[req[u].id].status # "stopped"
        BY <1>7, <1>b DEF DeleteWorkload, Phases, StopPhase
    <2>2. UNCHANGED <<dbVars, svc, sts>>
        BY <1>7, <2>1 DEF DeleteWorkload
    <2>3. CASE Return(u) /\ UNCHANGED dep
        <3>1. UNCHANGED <<dbVars, k8sVars>>
            BY <2>2, <2>3 DEF k8sVars
        <3>. QED  BY <1>0, <1>i, <2>1, <2>3, <3>1, SerialStay
    <2>4. CASE dep' = Terminate(dep, req[u].name) /\ Goto(u, "deleteService")
        <3>1. /\ pc'[u] = "deleteService" /\ req' = req /\ todo' = todo
              /\ \A v \in Users : v # u => pc'[v] = pc[v] /\ todo'[v] = todo[v]
            BY <1>h, <2>4
        <3>2. /\ dep'[req[u].name] \notin LiveStates
              /\ \A n \in Names : dep'[n] \in LiveStates => dep[n] \in LiveStates
            <4>1. req[u].name \in Names
                BY <2>1 DEF TypeInv, NamesKnown, Nameless
            <4>. QED  BY <2>4, <4>1 DEF Terminate, TypeInv, TypeOK, LiveStates
        <3>3. StopPhase(u)'
            BY <2>1, <2>2, <3>1, <3>2 DEF StopPhase, OwnRow, dbVars
        <3>4. Phases(u)'
            BY <1>k, <2>1, <3>1, <3>3, PhaseElsewhere DEF Phases, SyncCalls
        <3>5. OwnedUnder(u)'
            BY <1>b, <1>g, <2>1, <2>2, <3>2 DEF OwnedUnder, InCharge
        <3>. QED  BY <1>b, <1>g, <2>2, <3>1, <3>4, <3>5, Assemble
    <2>. QED  BY <1>7, <2>1, <2>3, <2>4 DEF DeleteWorkload
<1>8. CASE DeleteService(u)
    <2>. DEFINE p == AfterStop(req[u].op)
    <2>1. /\ pc[u] = "deleteService" /\ req[u].op \in {"stop", "delete", "cancel"}
          /\ req[u].op # "cancel" => OwnRow(u) /\ row[req[u].id].status # "stopped"
          /\ dep[req[u].name] \notin LiveStates
        BY <1>8, <1>b DEF DeleteService, Phases, StopPhase
    <2>2. UNCHANGED <<dbVars, dep, sts>>
        BY <1>8 DEF DeleteService
    <2>3. CASE Return(u) /\ UNCHANGED svc
        <3>1. UNCHANGED <<dbVars, k8sVars>>
            BY <2>2, <2>3 DEF k8sVars
        <3>. QED  BY <1>0, <1>i, <2>1, <2>3, <3>1, SerialStay
    <2>4. CASE svc' = svc \ {req[u].name} /\ Goto(u, p)
        <3>1. /\ pc'[u] = p /\ req' = req /\ todo' = todo
              /\ \A v \in Users : v # u => pc'[v] = pc[v] /\ todo'[v] = todo[v]
            BY <1>h, <2>4
        <3>2. /\ req[u].op = "stop" => p = "markStopped"
              /\ req[u].op = "delete" => p = "hpaList"
              /\ req[u].op = "cancel" => p = "cancelRow"
            BY DEF AfterStop
        <3>. HIDE DEF p
        <3>3. StopPhase(u)'
            BY <2>1, <2>2, <2>4, <3>1, <3>2 DEF StopPhase, OwnRow, dbVars
        <3>4. RemovePhase(u)'
            BY <2>1, <2>2, <2>4, <3>1, <3>2 DEF RemovePhase, OwnRow, Gone, dbVars
        <3>5. Phases(u)'
            BY <1>k, <2>1, <3>1, <3>2, <3>3, <3>4, PhaseElsewhere DEF Phases, SyncCalls
        <3>6. OwnedUnder(u)'
            BY <1>b, <1>g, <2>1, <2>2, <2>4 DEF OwnedUnder, InCharge
        <3>. QED  BY <1>b, <1>g, <2>2, <3>1, <3>5, <3>6, Assemble
    <2>. QED  BY <1>8, <2>3, <2>4 DEF DeleteService
<1>9. CASE MarkStopped(u)
    <2>. DEFINE id == req[u].id
    <2>1. /\ pc[u] = "markStopped" /\ id \in live /\ UNCHANGED k8sVars /\ Return(u)
          /\ row[id].name = req[u].name
          /\ Gone(req[u].name)
        BY <1>9, <1>b DEF MarkStopped, Phases, StopPhase, OwnRow, Gone
    <2>2. UpdateServiceStatus(id, "stopped")
        BY <1>9 DEF MarkStopped
    <2>. HIDE DEF id
    <2>3. /\ live' = live /\ nextId' = nextId /\ row'[id].status = "stopped"
          /\ \A i \in live : row'[i].name = row[i].name
          /\ \A i \in live : i # id => row'[i] = row[i]
        BY <2>1, <2>2, SerialUpdate
    <2>4. \A n : n # req[u].name /\ Claimed(n) => Claimed(n)'
        BY <2>1, <2>3, ClaimedBy, ClaimedByNext
    <2>5. FreshIds'
        BY <1>f, <2>3 DEF FreshIds
    <2>6. OwnedUnder(u)'
        BY <1>b, <2>1, <2>4 DEF OwnedUnder, InCharge, Gone, k8sVars
    <2>. QED  BY <1>b, <1>g, <1>i, <2>1, <2>5, <2>6, Assemble DEF k8sVars
\* A row is deleted when nothing needs its claim.
<1>d. ASSUME NEW id \in live, DeleteServiceRow(id), UNCHANGED k8sVars,
             pc[u] \notin {"createService", "undo", "push", "mark"},
             row[id].status = "stopped" \/ Gone(row[id].name)
      PROVE  FreshIds' /\ NoStatefulSets' /\ OwnedUnder(u)'
    <2>1. /\ live' = live \ {id} /\ nextId' = nextId
          /\ \A i \in live : i # id => row'[i] = row[i]
        BY <1>d, SerialDelete
    <2>2. FreshIds'
        BY <1>f, <2>1 DEF FreshIds
    <2>3. \A n : Claimed(n) => Claimed(n)' \/ (row[id].status # "stopped" /\ n = row[id].name)
        BY <2>1, ClaimedBy, ClaimedByNext
    <2>4. OwnedUnder(u)'
        BY <1>b, <1>d, <2>3 DEF OwnedUnder, InCharge, Gone, k8sVars
    <2>. QED  BY <1>d, <1>g, <2>2, <2>4 DEF k8sVars
<1>10. CASE DeleteRow(u)
    <2>. DEFINE id == req[u].id
    <2>1. /\ pc[u] = "deleteRow" /\ id \in live
          /\ row[id].status = "stopped" \/ Gone(row[id].name)
        BY <1>10, <1>b DEF DeleteRow, Phases, RemovePhase, OwnRow
    <2>2. DeleteServiceRow(id) /\ UNCHANGED k8sVars /\ Return(u)
        BY <1>10 DEF DeleteRow
    <2>. HIDE DEF id
    <2>3. FreshIds' /\ NoStatefulSets' /\ OwnedUnder(u)'
        BY <1>d, <2>1, <2>2
    <2>. QED  BY <1>b, <1>i, <2>2, <2>3, Assemble
<1>11. CASE CancelRow(u)
    <2>1. pc[u] = "cancelRow" /\ Gone(req[u].name)
        BY <1>11, <1>b DEF CancelRow, Phases, RemovePhase
    <2>2. Goto(u, "cancelStep") /\ UNCHANGED k8sVars
        BY <1>11 DEF CancelRow
    <2>3. /\ pc'[u] = "cancelStep" /\ req' = req /\ todo' = todo
          /\ \A v \in Users : v # u => pc'[v] = pc[v] /\ todo'[v] = todo[v]
        BY <1>h, <2>2
    <2>4. Phases(u)'
        BY <1>k, <2>1, <2>3, PhaseElsewhere DEF Phases, SyncCalls
    <2>5. CASE UNCHANGED dbVars
        BY <1>0, <2>1, <2>2, <2>3, <2>4, <2>5, SerialStay
    <2>6. ASSUME NEW id \in RowsNamed(req[u].name), DeleteServiceRow(id) PROVE SerialInv'
        <3>1. id \in live /\ row[id].name = req[u].name
            BY DEF RowsNamed
        <3>2. FreshIds' /\ NoStatefulSets' /\ OwnedUnder(u)'
            BY <1>d, <2>1, <2>2, <2>6, <3>1
        <3>. QED  BY <1>b, <2>3, <2>4, <3>2, Assemble
    <2>. QED  BY <1>11, <2>5, <2>6 DEF CancelRow
\* The autoscaler's calls and the repository's concern no row and no object.
<1>12. CASE CancelStep(u) \/ InsertHpa(u) \/ SyncDone(u) \/ ImportDone(u)
    <2>1. /\ Return(u) /\ UNCHANGED <<dbVars, k8sVars>>
          /\ pc[u] \in {"cancelStep", "hpaInsert", "sync", "import"}
        BY <1>12 DEF CancelStep, InsertHpa, SyncDone, ImportDone
    <2>. QED  BY <1>0, <1>i, <2>1, SerialStay
<1>13. CASE CreateHpa(u)
    <2>1. /\ UNCHANGED <<dbVars, k8sVars>> /\ pc[u] = "hpaCreate"
          /\ Return(u) \/ Goto(u, "hpaInsert")
        BY <1>13 DEF CreateHpa
    <2>2. CASE Return(u)
        BY <1>0, <1>i, <2>1, <2>2, SerialStay
    <2>3. CASE Goto(u, "hpaInsert")
        <3>1. /\ pc'[u] = "hpaInsert" /\ req' = req /\ todo' = todo
              /\ \A v \in Users : v # u => pc'[v] = pc[v] /\ todo'[v] = todo[v]
            BY <1>h, <2>3
        <3>2. Phases(u)'
            BY <1>k, <2>1, <3>1, PhaseElsewhere DEF Phases, SyncCalls
        <3>. QED  BY <1>0, <2>1, <3>1, <3>2, SerialStay
    <2>. QED  BY <2>1, <2>2, <2>3
<1>14. CASE ListHpas(u) \/ DeleteHpa(u) \/ DeleteHpaDb(u) \/ HpasDeleted(u)
    <2>1. /\ UNCHANGED <<dbVars, k8sVars>>
          /\ pc[u] \in {"hpaList", "hpaDelete", "hpaDeleteDb"}
        BY <1>14 DEF ListHpas, DeleteHpa, DeleteHpaDb, HpasDeleted
    <2>2. CASE Return(u)
        BY <1>0, <1>i, <2>1, <2>2, SerialStay
    <2>3. CASE HpasDeleted(u)
        <3>1. /\ pc'[u] = "deleteRow" /\ req' = req /\ todo' = todo
              /\ \A v \in Users : v # u => pc'[v] = pc[v] /\ todo'[v] = todo[v]
            BY <1>h, <2>3 DEF HpasDeleted
        <3>2. req[u].op = "delete"
            BY <1>b, <2>3 DEF HpasDeleted, Phases, RemovePhase
        <3>3. RemovePhase(u)'
            BY <1>b, <2>1, <3>1, <3>2 DEF Phases, RemovePhase, OwnRow, Gone, dbVars, k8sVars
        <3>4. Phases(u)'
            BY <1>k, <2>1, <3>1, <3>3, PhaseElsewhere DEF Phases, SyncCalls
        <3>. QED  BY <1>0, <2>1, <3>1, <3>4, SerialStay
    <2>4. CASE ~Return(u) /\ ~HpasDeleted(u)
        <3>1. PICK p, r :
                  /\ p \in {"hpaDelete", "hpaDeleteDb"}
                  /\ Begin(u, p, r) /\ UNCHANGED todo
                  /\ r.op = req[u].op /\ r.id = req[u].id /\ r.name = req[u].name
                  /\ p = "hpaDelete" => r.op = "delete"
            <4>1. \A S, n : /\ [req[u] EXCEPT !.names = S].op = req[u].op
                            /\ [req[u] EXCEPT !.names = S].id = req[u].id
                            /\ [req[u] EXCEPT !.names = S].name = req[u].name
                            /\ [req[u] EXCEPT !.rule = n].op = req[u].op
                            /\ [req[u] EXCEPT !.rule = n].id = req[u].id
                            /\ [req[u] EXCEPT !.rule = n].name = req[u].name
                <5>1. req[u] \in Request
                    BY <1>t
                <5>. QED  BY <5>1 DEF Request
            <4>2. CASE ListHpas(u)
                <5>1. req[u].op = "delete"
                    BY <1>b, <4>2 DEF ListHpas, Phases, RemovePhase
                <5>. DEFINE r == [req[u] EXCEPT !.names = RulesOf(req[u].id)]
                <5>2. /\ Begin(u, "hpaDelete", r) /\ UNCHANGED todo
                      /\ r.op = req[u].op /\ r.id = req[u].id /\ r.name = req[u].name
                    BY <4>1, <4>2 DEF ListHpas
                <5>. HIDE DEF r
                <5>. QED  BY ONLY <5>1, <5>2
            <4>3. CASE DeleteHpa(u)
                <5>1. PICK n : Begin(u, "hpaDeleteDb", [req[u] EXCEPT !.rule = n]) /\ UNCHANGED todo
                    BY <2>4, <4>3 DEF DeleteHpa
                <5>. DEFINE r == [req[u] EXCEPT !.rule = n]
                <5>2. /\ Begin(u, "hpaDeleteDb", r) /\ UNCHANGED todo
                      /\ r.op = req[u].op /\ r.id = req[u].id /\ r.name = req[u].name
                    BY <4>1, <5>1
                <5>. HIDE DEF r
                <5>. QED  BY ONLY <5>2
            <4>4. CASE DeleteHpaDb(u)
                <5>. DEFINE r == [req[u] EXCEPT !.names = @ \ {req[u].rule}]
                <5>1. /\ Begin(u, "hpaDelete", r) /\ UNCHANGED todo
                      /\ req[u].op = "delete"
                    BY <2>4, <4>4 DEF DeleteHpaDb
                <5>2. r.op = req[u].op /\ r.id = req[u].id /\ r.name = req[u].name
                    BY <4>1
                <5>. HIDE DEF r
                <5>. QED  BY ONLY <5>1, <5>2
            <4>. QED  BY <1>14, <2>4, <4>2, <4>3, <4>4
        <3>2. /\ pc'[u] = p /\ req'[u] = r /\ todo' = todo
              /\ \A v \in Users : v # u => pc'[v] = pc[v] /\ todo'[v] = todo[v]
            BY <1>j, <3>1
        <3>3. RemovePhase(u)'
            BY <1>b, <2>1, <3>1, <3>2 DEF Phases, RemovePhase, OwnRow, Gone, dbVars, k8sVars
        <3>4. Phases(u)'
            BY <1>k, <2>1, <3>1, <3>2, <3>3, PhaseElsewhere DEF Phases, SyncCalls
        <3>. QED  BY <1>0, <2>1, <3>2, <3>4, SerialStay
    <2>. QED  BY <2>2, <2>3, <2>4
<1>15. CASE SyncWorkload(u)
    <2>1. PICK item \in todo[u] :
              /\ todo' = [todo EXCEPT ![u] = @ \ {item}]
              /\ \/ UNCHANGED <<pc, req>>
                 \/ /\ item[2] # "stopped"
                    /\ item[1] \in live
                    /\ \E v \in View(row[item[1]].name, row[item[1]].type) :
                       \E verdict \in WorkloadVerdict(row[item[1]].type, v, item[2]) :
                         Begin(u, verdict[1],
                          [req[u] EXCEPT !.id = item[1], !.name = row[item[1]].name,
                                         !.type = row[item[1]].type,
                                         !.status = verdict[2], !.seen = v])
        BY <1>15 DEF SyncWorkload
    <2>2. pc[u] = "sync" /\ UNCHANGED <<dbVars, k8sVars>>
        BY <1>15 DEF SyncWorkload
    <2>3. /\ todo'[u] = todo[u] \ {item}
          /\ \A v \in Users : v # u => todo'[v] = todo[v]
        BY <1>t, <2>1
    <2>4. \A i \in todo[u] : i[1] \in live /\ row[i[1]].status = i[2] /\ i[2] # "preparing"
        BY <1>b DEF Phases, SyncPhase
    <2>5. ASSUME UNCHANGED <<pc, req>> PROVE SerialInv'
        <3>1. SyncPhase(u)'
            BY <2>2, <2>3, <2>4, <2>5 DEF SyncPhase, SyncCalls, dbVars
        <3>2. Phases(u)'
            BY <2>2, <2>5, <3>1, PhaseElsewhere DEF Phases
        <3>. QED  BY <1>0, <2>2, <2>3, <2>5, <3>2, SerialStay
    <2>6. ASSUME ~ UNCHANGED <<pc, req>> PROVE SerialInv'
        <3>. DEFINE id == item[1]
        <3>1. PICK v \in View(row[id].name, row[id].type) :
                \E verdict \in WorkloadVerdict(row[id].type, v, item[2]) :
                   Begin(u, verdict[1],
                          [req[u] EXCEPT !.id = id, !.name = row[id].name,
                                         !.type = row[id].type,
                                         !.status = verdict[2], !.seen = v])
            BY <2>1, <2>6
        <3>2. PICK verdict \in WorkloadVerdict(row[id].type, v, item[2]) :
                   Begin(u, verdict[1],
                          [req[u] EXCEPT !.id = id, !.name = row[id].name,
                                         !.type = row[id].type,
                                         !.status = verdict[2], !.seen = v])
            BY <3>1
        <3>. DEFINE r == [req[u] EXCEPT !.id = id, !.name = row[id].name,
                                        !.type = row[id].type,
                                        !.status = verdict[2], !.seen = v]
        <3>3. /\ id \in live /\ row[id].name \in Names /\ row[id].type \in Types
              /\ row[id].status \in Observed /\ item[2] = row[id].status
            <4>1. id \in live /\ row[id] \in Row
                BY <2>4 DEF TypeInv, TypeOK
            <4>2. row[id].status = item[2] /\ item[2] \notin {"preparing", "stopped"}
                BY <2>1, <2>4, <2>6
            <4>. QED  BY <4>1, <4>2 DEF TypeInv, NamesKnown, Row, Statuses, Observed
        <3>4. verdict[1] \in {"syncWrite", "syncService"} /\ verdict[2] \in Observed
            BY <3>2, <3>3, VerdictObserved
        <3>5. r.id = id /\ r.status = verdict[2]
            BY <1>t DEF Request
        <3>. HIDE DEF r
        <3>6. pc'[u] = verdict[1] /\ req'[u] = r /\ \A w \in Users : w # u => pc'[w] = pc[w]
            BY <1>j, <3>2 DEF r
        <3>7. \A i \in todo'[u] : i[1] # id
            <4>1. todo[u] \subseteq RowIds \X Statuses
                BY <1>t
            <4>2. \A i \in todo[u] : i = <<i[1], i[2]>>
                BY <4>1
            <4>3. ASSUME NEW i \in todo'[u], i[1] = id PROVE FALSE
                <5>1. i \in todo[u] /\ i # item
                    BY <2>3, <4>3
                <5>2. i[2] = item[2]
                    BY <2>4, <4>3, <5>1
                <5>. QED  BY <4>2, <4>3, <5>1, <5>2
            <4>. QED  BY <4>3
        <3>8. SyncPhase(u)'
            BY <2>2, <2>3, <2>4, <3>3, <3>4, <3>5, <3>6, <3>7 DEF SyncPhase, SyncCalls, dbVars
        <3>9. Phases(u)'
            BY <3>4, <3>6, <3>8, PhaseElsewhere DEF Phases
        <3>. QED  BY <1>0, <2>2, <2>3, <3>6, <3>9, SerialStay
    <2>. QED  BY <2>5, <2>6
<1>16. CASE SyncService(u)
    <2>1. pc[u] = "syncService" /\ UNCHANGED <<dbVars, k8sVars, todo>>
        BY <1>16 DEF SyncService
    <2>2. PICK p \in {"sync", "syncWrite"}, s \in Observed :
              Begin(u, p, [req[u] EXCEPT !.status = s])
        <3>1. req[u].status \in Observed
            BY <1>b, <2>1 DEF Phases, SyncPhase, SyncCalls
        <3>2. req[u] = [req[u] EXCEPT !.status = req[u].status]
            BY <1>t DEF Request
        <3>. QED  BY <1>16, <3>1, <3>2 DEF SyncService, Observed
    <2>. DEFINE r == [req[u] EXCEPT !.status = s]
    <2>3. r.id = req[u].id /\ r.status = s
        BY <1>t DEF Request
    <2>. HIDE DEF r
    <2>4. pc'[u] = p /\ req'[u] = r /\ \A w \in Users : w # u => pc'[w] = pc[w]
        BY <1>j, <2>2 DEF r
    <2>5. SyncPhase(u)'
        BY <1>b, <2>1, <2>3, <2>4 DEF Phases, SyncPhase, SyncCalls, dbVars
    <2>6. Phases(u)'
        BY <2>4, <2>5, PhaseElsewhere DEF Phases
    <2>. QED  BY <1>0, <2>1, <2>4, <2>6, SerialStay
<1>17. CASE SyncWrite(u)
    <2>. DEFINE id == req[u].id
    <2>1. /\ pc[u] = "syncWrite" /\ id \in live /\ UNCHANGED k8sVars /\ Goto(u, "sync")
          /\ req[u].status \in Observed
          /\ \A item \in todo[u] : item[1] # id /\ item[1] \in live
                                  /\ row[item[1]].status = item[2] /\ item[2] # "preparing"
        BY <1>17, <1>b DEF SyncWrite, Phases, SyncPhase, SyncCalls
    <2>2. UpdateServiceStatus(id, req[u].status)
        BY <1>17 DEF SyncWrite
    <2>3. /\ pc'[u] = "sync" /\ req' = req /\ todo' = todo
          /\ \A v \in Users : v # u => pc'[v] = pc[v] /\ todo'[v] = todo[v]
        BY <1>h, <2>1
    <2>. HIDE DEF id
    <2>4. /\ live' = live /\ nextId' = nextId /\ row'[id].status = req[u].status
          /\ \A i \in live : row'[i].name = row[i].name
          /\ \A i \in live : i # id => row'[i] = row[i]
        BY <2>1, <2>2, SerialUpdate
    <2>5. \A n : Claimed(n) => Claimed(n)'
        BY <2>1, <2>4, ClaimedBy, ClaimedByNext DEF Observed
    <2>6. FreshIds'
        BY <1>f, <2>4 DEF FreshIds
    <2>7. OwnedUnder(u)'
        BY <1>b, <2>1, <2>5 DEF OwnedUnder, InCharge, k8sVars
    <2>8. SyncPhase(u)'
        BY <2>1, <2>3, <2>4 DEF SyncPhase, SyncCalls
    <2>9. Phases(u)'
        BY <2>3, <2>8, PhaseElsewhere DEF Phases
    <2>. QED  BY <1>b, <1>g, <2>1, <2>3, <2>6, <2>7, <2>9, Assemble DEF k8sVars
<1>18. CASE SyncServiceData(u)
    <2>1. /\ pc[u] = "import" /\ UNCHANGED <<k8sVars, pc, todo>>
          /\ UNCHANGED dbVars \/ \E n \in req[u].names : AddService(n, "Unknown", "running")
        BY <1>18 DEF SyncServiceData
    <2>2. Phases(u)'
        BY <1>k, <2>1, PhaseElsewhere DEF Phases, SyncCalls
    <2>3. CASE UNCHANGED dbVars
        BY <1>0, <2>1, <2>2, <2>3, SerialStay
    <2>4. ASSUME NEW n, AddService(n, "Unknown", "running") PROVE SerialInv'
        <3>1. FreshIds' /\ \A m : Claimed(m) => Claimed(m)'
            BY <2>4, SerialAdd
        <3>2. OwnedUnder(u)'
            BY <1>b, <2>1, <3>1 DEF OwnedUnder, InCharge, k8sVars
        <3>. QED  BY <1>b, <1>g, <2>1, <2>2, <3>1, <3>2, Assemble DEF k8sVars
    <2>. QED  BY <2>1, <2>3, <2>4
<1>. QED
    BY <1>1, <1>2, <1>3, <1>4, <1>5, <1>6, <1>7, <1>8, <1>9, <1>10, <1>11, <1>12,
       <1>13, <1>14, <1>15, <1>16, <1>17, <1>18
    DEF Continue

-----------------------------------------------------------------------------
\* Pods that come and go make no workload live or dead.
LEMMA SerialCluster ==
    ASSUME SerialInv, TypeInv, NEW n \in Names, Cluster(n)
    PROVE  SerialInv'
<1>1. DeploymentMoves(n)
    BY DEF Cluster, StatefulSetMoves, WorkloadMoves, SerialInv, NoStatefulSets
<1>2. UNCHANGED <<dbVars, sts, svc, procVars>>
    BY <1>1 DEF DeploymentMoves
<1>3. \A m \in Names : dep'[m] \in LiveStates <=> dep[m] \in LiveStates
    BY <1>1 DEF DeploymentMoves, WorkloadMoves, LiveStates, TypeInv, TypeOK
<1>4. \A m : Claimed(m)' <=> Claimed(m)
    BY <1>2, ClaimedBy, ClaimedByNext DEF dbVars
<1>5. ClusterObjectsAreOwned'
    BY <1>2, <1>3, <1>4 DEF SerialInv, ClusterObjectsAreOwned, InCharge, procVars
<1>6. OneAtATime' /\ FreshIds' /\ NoStatefulSets'
    BY <1>2 DEF SerialInv, OneAtATime, FreshIds, NoStatefulSets, Idle, dbVars, procVars
<1>7. ASSUME NEW u \in Users PROVE DeployPhase(u)' /\ SyncPhase(u)'
    BY <1>2 DEF SerialInv, DeployPhase, SyncPhase, OwnRow, dbVars, procVars
<1>8. ASSUME NEW u \in Users PROVE StopPhase(u)' /\ RemovePhase(u)'
    <2>1. (pc[u] \notin Nameless \/ OwnRow(u)) => req[u].name \in Names
        BY DEF TypeInv, NamesKnown, OwnRow
    <2>. USE DEF Nameless
    <2>. QED  BY <1>2, <1>3, <2>1 DEF SerialInv, StopPhase, RemovePhase, OwnRow, Gone,
                 dbVars, procVars
<1>. QED  BY <1>5, <1>6, <1>7, <1>8 DEF SerialInv

LEMMA SerialStep ==
    ASSUME SerialInstance
    PROVE  SerialInv /\ TypeInv /\ [Next]_vars => SerialInv'
<1>. SUFFICES ASSUME SerialInv, TypeInv, [Next]_vars PROVE SerialInv'
    OBVIOUS
<1>1. ASSUME NEW u \in Users, NewRequest(u) PROVE SerialInv'
    BY <1>1, SerialNewRequest
<1>2. ASSUME NEW u \in Users, Continue(u) PROVE SerialInv'
    BY <1>2, SerialContinue
<1>3. ASSUME NEW n \in Names, Cluster(n) PROVE SerialInv'
    BY <1>3, SerialCluster
<1>4. CASE UNCHANGED vars
    BY <1>4 DEF vars, dbVars, k8sVars, procVars, SerialInv, OneAtATime, FreshIds,
         NoStatefulSets, ClusterObjectsAreOwned, Claimed, RowsNamed, InCharge, Idle,
         DeployPhase, StopPhase, RemovePhase, SyncPhase, OwnRow, Gone
<1>. QED  BY <1>1, <1>2, <1>3, <1>4 DEF Next

\* The inductive invariant holds in every serial instance, however many
\* users, names and rows it has.
THEOREM SerialInvariant == SerialInstance /\ Spec => []SerialInv
<1>. SUFFICES ASSUME SerialInstance PROVE Spec => []SerialInv
    OBVIOUS
<1>1. TypeInv /\ SerialInv /\ [Next]_vars => (TypeInv /\ SerialInv)'
    BY TypeStep, SerialStep
<1>2. Init => TypeInv /\ SerialInv
    BY TypeInit, SerialInit
<1>. QED  BY <1>1, <1>2, PTL DEF Spec

\* Requests that do not overlap leave nothing in the cluster that the table
\* does not admit to, whatever calls fail but the three of SerialInstance.
THEOREM ObjectsOwned == SerialInstance /\ Spec => []ClusterObjectsAreOwned
<1>1. SerialInv => ClusterObjectsAreOwned
    BY DEF SerialInv
<1>. QED  BY <1>1, SerialInvariant, PTL
-----------------------------------------------------------------------------
(* Serial requests implement ServiceRows. *)

AbstractStatus == [id \in RowIds |-> IF id \in live THEN row[id].status ELSE "none"]

AbstractUsed == {id \in RowIds : id < nextId}

AbstractVars == <<AbstractStatus, AbstractUsed>>

LEMMA RowsStutter ==
    ASSUME UNCHANGED dbVars
    PROVE  UNCHANGED AbstractVars
BY DEF dbVars, AbstractVars, AbstractStatus, AbstractUsed

LEMMA RowsRegister ==
    ASSUME SerialInv, TypeInv, NEW n, NEW t, NEW s \in {"preparing", "running"},
           AddService(n, t, s)
    PROVE  Rows!Next
<1>1. nextId \in RowIds /\ nextId \in Nat /\ nextId \notin live
    BY RowBound DEF AddService, RowIds, SerialInv, FreshIds
<1>2. /\ live' = live \cup {nextId} /\ nextId' = nextId + 1
      /\ row'[nextId].status = s /\ \A id \in live : row'[id] = row[id]
    <2>1. /\ row'[nextId] = [name |-> n, type |-> t, status |-> s]
          /\ \A id \in live : row'[id] = row[id]
        BY SerialAdd
    <2>2. live' = live \cup {nextId} /\ nextId' = nextId + 1
        BY DEF AddService
    <2>. QED  BY <2>1, <2>2
<1>3. AbstractStatus' = [AbstractStatus EXCEPT ![nextId] = s]
    BY <1>1, <1>2 DEF AbstractStatus
<1>4. AbstractUsed' = AbstractUsed \cup {nextId} /\ nextId \notin AbstractUsed
    <2>1. \A id \in RowIds : id \in Int
        BY RowBound DEF RowIds
    <2>2. \A id \in RowIds : id < nextId + 1 <=> id < nextId \/ id = nextId
        BY <1>1, <2>1
    <2>3. AbstractUsed' = {id \in RowIds : id < nextId + 1}
        BY <1>2 DEF AbstractUsed
    <2>4. \A id : id \in AbstractUsed' <=> id \in AbstractUsed \/ id = nextId
        BY <1>1, <2>2, <2>3 DEF AbstractUsed
    <2>5. nextId \notin AbstractUsed
        BY <1>1 DEF AbstractUsed
    <2>. QED  BY <2>4, <2>5
<1>5. PICK id \in RowIds : id = nextId
    BY <1>1
<1>6. Rows!Register(id)
    BY <1>3, <1>4, <1>5 DEF Rows!Register, AbstractStatus, AbstractUsed
<1>. QED  BY <1>6 DEF Rows!Next

LEMMA RowsBecomes ==
    ASSUME TypeInv, NEW id \in live, NEW s, UpdateServiceStatus(id, s)
    PROVE  Rows!Becomes(id, s) /\ id \in RowIds /\ AbstractStatus[id] = row[id].status
<1>1. id \in RowIds
    BY DEF TypeInv, TypeOK
<1>2. /\ live' = live /\ nextId' = nextId /\ row'[id].status = s
      /\ \A i \in live : i # id => row'[i] = row[i]
    BY SerialUpdate
<1>3. AbstractStatus' = [AbstractStatus EXCEPT ![id] = s]
    BY <1>1, <1>2 DEF AbstractStatus
<1>. QED  BY <1>1, <1>2, <1>3 DEF Rows!Becomes, AbstractStatus

LEMMA RowsRemove ==
    ASSUME TypeInv, NEW id \in live, DeleteServiceRow(id)
    PROVE  Rows!Remove(id) /\ id \in RowIds
<1>1. id \in RowIds /\ row[id].status # "none"
    BY DEF TypeInv, TypeOK, Row, Statuses
<1>2. /\ live' = live \ {id} /\ nextId' = nextId
      /\ \A i \in live : i # id => row'[i] = row[i]
    BY SerialDelete
<1>3. AbstractStatus' = [AbstractStatus EXCEPT ![id] = "none"]
    BY <1>1, <1>2 DEF AbstractStatus
<1>. QED  BY <1>1, <1>2, <1>3 DEF Rows!Remove, Rows!Becomes, AbstractStatus

LEMMA RowsStep ==
    ASSUME SerialInstance, SerialInv, TypeInv, [Next]_vars
    PROVE  [Rows!Next]_AbstractVars
<1>1. CASE UNCHANGED dbVars
    BY <1>1, RowsStutter
<1>2. ASSUME NEW n, NEW t, NEW s \in {"preparing", "running"}, AddService(n, t, s)
      PROVE  Rows!Next
    BY <1>2, RowsRegister
<1>3. ASSUME NEW id \in live, DeleteServiceRow(id) PROVE Rows!Next
    BY <1>3, RowsRemove DEF Rows!Next
<1>4. ASSUME NEW u \in Users, NewRequest(u) PROVE [Rows!Next]_AbstractVars
    <2>1. \/ UNCHANGED dbVars
          \/ \E n, t : AddService(n, t, "preparing")
        BY <1>4 DEF NewRequest, SetConfigServiceStep, DropConfigServiceStep,
             DeployServiceAction, DeployStatefulSetAction, DeployRequest,
             UploadYamlFileAction, DeleteDeployAction, GetServiceListAction,
             ImportServicesAction, ToggleStart, ToggleStop, DeleteServiceAction,
             DeleteStatefulSetAction, CreateAutoScaleAction, DeleteAutoScaleAction,
             DeleteAutoScaleAcross
    <2>. QED  BY <1>1, <1>2, <2>1
<1>5. ASSUME NEW u \in Users, Continue(u) PROVE [Rows!Next]_AbstractVars
    <2>0. DeployPhase(u) /\ StopPhase(u) /\ RemovePhase(u) /\ SyncPhase(u)
        BY DEF SerialInv
    <2>1. CASE MarkDeployed(u)
        <3>0. PICK id : id = req[u].id
            OBVIOUS
        <3>1. /\ id \in live /\ row[id].status = "preparing"
              /\ UpdateServiceStatus(id, "uncompleted")
            BY <3>0, <2>0, <2>1 DEF MarkDeployed, DeployPhase, OwnRow
        <3>2. Rows!Deployed(id) /\ id \in RowIds
            BY <3>1, RowsBecomes DEF Rows!Deployed, AbstractStatus
        <3>n. Rows!Next
            BY <3>2 DEF Rows!Next
        <3>. QED  BY <3>n
    <2>2. CASE MarkRunning(u)
        <3>0. PICK id : id = req[u].id
            OBVIOUS
        <3>1. /\ id \in live /\ row[id].status # "running"
              /\ UpdateServiceStatus(id, "running")
            BY <3>0, <2>0, <2>2 DEF MarkRunning, DeployPhase, OwnRow
        <3>2. row[id].status # "none"
            BY <3>1 DEF TypeInv, TypeOK, Row, Statuses
        <3>3. Rows!Start(id) /\ id \in RowIds
            BY <3>1, <3>2, RowsBecomes DEF Rows!Start, AbstractStatus
        <3>n. Rows!Next
            BY <3>3 DEF Rows!Next
        <3>. QED  BY <3>n
    <2>3. CASE MarkStopped(u)
        <3>0. PICK id : id = req[u].id
            OBVIOUS
        <3>1. /\ id \in live /\ row[id].status # "stopped"
              /\ UpdateServiceStatus(id, "stopped")
            BY <3>0, <2>0, <2>3 DEF MarkStopped, StopPhase, OwnRow
        <3>2. row[id].status # "none"
            BY <3>1 DEF TypeInv, TypeOK, Row, Statuses
        <3>3. Rows!Stop(id) /\ id \in RowIds
            BY <3>1, <3>2, RowsBecomes DEF Rows!Stop, AbstractStatus
        <3>n. Rows!Next
            BY <3>3 DEF Rows!Next
        <3>. QED  BY <3>n
    <2>4. CASE SyncWrite(u)
        <3>0. PICK id : id = req[u].id
            OBVIOUS
        <3>1. /\ id \in live /\ row[id].status \in Observed
              /\ req[u].status \in Observed
              /\ UpdateServiceStatus(id, req[u].status)
            BY <3>0, <2>0, <2>4 DEF SyncWrite, SyncPhase, SyncCalls
        <3>2. Rows!Observe(id) /\ id \in RowIds
            BY <3>1, RowsBecomes DEF Rows!Observe, Rows!Observed, AbstractStatus, Observed
        <3>n. Rows!Next
            BY <3>2 DEF Rows!Next
        <3>. QED  BY <3>n
    <2>5. CASE DeleteRow(u)
        <3>1. req[u].id \in live /\ DeleteServiceRow(req[u].id)
            BY <2>0, <2>5 DEF DeleteRow, RemovePhase, OwnRow
        <3>. QED  BY <1>3, <3>1
    <2>6. CASE CancelRow(u)
        BY <1>1, <1>3, <2>6 DEF CancelRow, RowsNamed
    <2>7. CASE SyncServiceData(u)
        BY <1>1, <1>2, <2>7 DEF SyncServiceData
    <2>8. \/ MarkDeployed(u) \/ MarkRunning(u) \/ MarkStopped(u) \/ SyncWrite(u)
          \/ DeleteRow(u) \/ CancelRow(u) \/ SyncServiceData(u)
          \/ UNCHANGED dbVars
        BY <1>5 DEF Continue, CreateWorkload, CreateService, UndoWorkload,
             PushItemsToRepo, DeleteWorkload, DeleteService, CancelStep, CreateHpa,
             InsertHpa, ListHpas, DeleteHpa, DeleteHpaDb, HpasDeleted, SyncWorkload,
             SyncService, SyncDone, ImportDone
    <2>. QED  BY <1>1, <2>1, <2>2, <2>3, <2>4, <2>5, <2>6, <2>7, <2>8
<1>6. ASSUME NEW n \in Names, Cluster(n) PROVE UNCHANGED dbVars
    BY <1>6 DEF Cluster, DeploymentMoves, StatefulSetMoves
<1>. QED  BY <1>1, <1>4, <1>5, <1>6 DEF Next, vars

\* What the table promises its readers (ServiceRows), it keeps in every
\* serial instance: a list never reveals a preparing service and never
\* revives a stopped one, and only a toggle starts or stops a service.
THEOREM RowsRefinement == SerialInstance /\ Spec => RowsImplemented
<1>. SUFFICES ASSUME SerialInstance PROVE Spec => RowsImplemented
    OBVIOUS
<1>1. Init => Rows!Init
    <2>1. \A id \in RowIds : ~(id < 1)
        BY RowBound DEF RowIds
    <2>. QED  BY <2>1 DEF Init, Rows!Init
<1>2. TypeInv /\ SerialInv /\ [Next]_vars => [Rows!Next]_Rows!vars
    BY RowsStep DEF Rows!vars, AbstractVars, AbstractStatus, AbstractUsed
<1>3. Spec => []TypeInv
    BY TypeInit, TypeStep, PTL DEF Spec
<1>4. Spec => []SerialInv
    BY SerialInvariant
<1>. QED  BY <1>1, <1>2, <1>3, <1>4, PTL DEF Spec, RowsImplemented, Rows!Spec

-----------------------------------------------------------------------------
(* Autoscaling rules. *)

\* The row goes last, after its rules: what the calls about rules rely on.
HpaPhase(u) ==
    /\ pc[u] \in {"hpaCreate", "hpaInsert"} => req[u].id \in live
    /\ pc[u] \in {"hpaDelete", "hpaDeleteDb"} /\ req[u].op = "delete" =>
          RulesOf(req[u].id) \subseteq req[u].names
    /\ pc[u] = "hpaDeleteDb" /\ req[u].op # "hpaServiceElsewhere" =>
          req[u].rule \notin hpaK8s
    /\ pc[u] = "deleteRow" => RulesOf(req[u].id) = {}

\* DeleteDeployAction deletes rows and not their rules.
NoCancel == \A u \in Users : pc[u] # "cancelRow" /\ req[u].op # "cancel"

HpaInv == NoCancel /\ HpasAreOwned /\ \A u \in Users : HpaPhase(u)

\* A step that deletes and renames no row.
NamesStay == live \subseteq live' /\ \A id \in live : row'[id].name = row[id].name

LEMMA AddNamesStay ==
    ASSUME SerialInv, TypeInv, NEW n, NEW t, NEW s, AddService(n, t, s)
    PROVE  NamesStay
BY SerialAdd DEF NamesStay

LEMMA UpdateNamesStay ==
    ASSUME TypeInv, NEW id, NEW s, UpdateServiceStatus(id, s)
    PROVE  NamesStay
<1>1. CASE id \in live
    BY <1>1, SerialUpdate DEF NamesStay
<1>2. CASE id \notin live
    BY <1>2 DEF NamesStay, UpdateServiceStatus
<1>. QED  BY <1>1, <1>2

\* The request of u takes a step that is not about rules.
LEMMA HpaStay ==
    ASSUME HpaInv, NEW u \in Users, \A v \in Users : v # u => Idle(v),
           \A v \in Users : v # u => pc'[v] = pc[v] /\ req'[v] = req[v],
           NamesStay, UNCHANGED hpaVars, pc[u] # "hpaInsert",
           pc'[u] # "cancelRow", req'[u].op # "cancel", HpaPhase(u)'
    PROVE  HpaInv'
<1>1. NoCancel'
    BY DEF HpaInv, NoCancel
<1>2. HpasAreOwned'
    <2>1. /\ hpaDb' = hpaDb /\ hpaK8s' = hpaK8s /\ strayed' = strayed
          /\ \A rule \in hpaDb : rule[1] \in live
        BY DEF hpaVars, HpaInv, HpasAreOwned
    <2>2. \A n \in hpaK8s \ strayed : \E id \in live : n \in RulesOf(id)
        BY DEF HpaInv, HpasAreOwned, Idle
    <2>. QED  BY <2>1, <2>2 DEF HpasAreOwned, NamesStay, RulesOf
<1>3. \A v \in Users : v # u => HpaPhase(v)'
    BY DEF Idle, HpaPhase
<1>. QED  BY <1>1, <1>2, <1>3 DEF HpaInv

HpaCalls == {"hpaList", "hpaCreate", "hpaInsert", "hpaDelete", "hpaDeleteDb", "deleteRow"}

LEMMA HpaNewRequest ==
    ASSUME SerialInstance, "cancel" \notin Requests, SerialInv, TypeInv, HpaInv,
           NEW u \in Users, NewRequest(u)
    PROVE  HpaInv'
<1>0. pc \in [Users -> PCs] /\ req \in [Users -> Request]
    BY DEF TypeInv, TypeOK
<1>1. \A v \in Users : Idle(v)
    BY AllIdle DEF NewRequest, SetConfigServiceStep, DropConfigServiceStep,
       DeployServiceAction, DeployStatefulSetAction, DeployRequest, UploadYamlFileAction,
       DeleteDeployAction, GetServiceListAction, ImportServicesAction, ToggleStart,
       ToggleStop, DeleteServiceAction, DeleteStatefulSetAction, CreateAutoScaleAction,
       DeleteAutoScaleAction, DeleteAutoScaleAcross
<1>2. CASE SetConfigServiceStep(u) \/ DropConfigServiceStep(u) \/ UploadYamlFileAction(u)
    <2>1. NamesStay /\ UNCHANGED <<hpaVars, pc, req>>
        BY <1>2, AddNamesStay DEF SetConfigServiceStep, DropConfigServiceStep,
           UploadYamlFileAction, procVars, dbVars, NamesStay
    <2>2. HpaPhase(u)'
        BY <1>1, <2>1 DEF HpaPhase, Idle
    <2>. QED  BY <1>1, <2>1, <2>2, HpaStay DEF Idle, HpaInv, NoCancel
<1>3. ASSUME NEW p, NEW r \in Request, Begin(u, p, r), NamesStay, UNCHANGED hpaVars,
             p \notin HpaCalls \cup {"cancelRow"}, r.op # "cancel"
      PROVE  HpaInv'
    <2>1. /\ pc'[u] = p /\ req'[u] = r
          /\ \A v \in Users : v # u => pc'[v] = pc[v] /\ req'[v] = req[v]
        BY <1>0, <1>3 DEF Begin
    <2>2. HpaPhase(u)'
        BY <1>3, <2>1 DEF HpaPhase, HpaCalls
    <2>. QED  BY <1>1, <1>3, <2>1, <2>2, HpaStay DEF Idle
<1>4. NullRequest \in Request
    BY DEF NullRequest, Request, Ops, Types, Statuses
<1>5. CASE DeployServiceAction(u)
    <2>. DEFINE r == [NullRequest EXCEPT !.op = "deploy", !.id = nextId,
                                         !.name = step[u].name, !.type = step[u].type]
    <2>1. /\ AddService(step[u].name, step[u].type, "preparing")
          /\ Begin(u, "createWorkload", r) /\ UNCHANGED hpaVars
        BY <1>5 DEF DeployServiceAction, DeployRequest
    <2>2. r \in Request /\ r.op # "cancel"
        BY <1>4, <2>1 DEF TypeInv, TypeOK, ConfigServiceStep, AddService, Request, Ops,
           NullRequest
    <2>. HIDE DEF r
    <2>. QED  BY <1>3, <2>1, <2>2, AddNamesStay DEF HpaCalls
<1>6. CASE GetServiceListAction(u) \/ ImportServicesAction(u)
    <2>1. \/ Begin(u, "sync", [NullRequest EXCEPT !.op = "list"])
          \/ Begin(u, "import", [NullRequest EXCEPT !.op = "import", !.names = svc])
        BY <1>6 DEF GetServiceListAction, ImportServicesAction
    <2>2. /\ [NullRequest EXCEPT !.op = "list"] \in Request
          /\ [NullRequest EXCEPT !.op = "import", !.names = svc] \in Request
          /\ [NullRequest EXCEPT !.op = "list"].op = "list"
          /\ [NullRequest EXCEPT !.op = "import", !.names = svc].op = "import"
        BY <1>4 DEF Request, Ops, NullRequest, TypeInv, TypeOK
    <2>3. NamesStay /\ UNCHANGED hpaVars
        BY <1>6 DEF GetServiceListAction, ImportServicesAction, NamesStay, dbVars
    <2>. QED  BY <1>3, <2>1, <2>2, <2>3 DEF HpaCalls
<1>7. ASSUME NEW id \in RowIds,
             ToggleStart(u, id) \/ ToggleStop(u, id) \/ DeleteServiceAction(u, id)
                \/ CreateAutoScaleAction(u, id)
      PROVE  HpaInv'
    <2>1. /\ id \in live /\ UNCHANGED <<dbVars, hpaVars>>
          /\ pc'[u] \in {"createWorkload", "deleteWorkload", "hpaCreate", "hpaList"}
          /\ req'[u].id = id /\ req'[u].op # "cancel"
          /\ \A v \in Users : v # u => pc'[v] = pc[v] /\ req'[v] = req[v]
      <3>1. id \in live /\ UNCHANGED <<dbVars, hpaVars>>
          BY <1>7 DEF ToggleStart, ToggleStop, DeleteServiceAction,
             CreateAutoScaleAction
      <3>2. \E p \in {"createWorkload", "deleteWorkload", "hpaCreate", "hpaList"} : \E r :
               /\ r.id = id /\ r.op # "cancel"
               /\ Begin(u, p, r)
        <4>1. CASE ToggleStart(u, id)
            BY <4>1 DEF ToggleStart, NullRequest
        <4>2. CASE ToggleStop(u, id)
            BY <4>2 DEF ToggleStop, NullRequest
        <4>3. CASE DeleteServiceAction(u, id)
            BY <4>3 DEF DeleteServiceAction, NullRequest
        <4>4. CASE CreateAutoScaleAction(u, id)
            BY <4>4 DEF CreateAutoScaleAction, NullRequest
        <4>. QED  BY <1>7, <4>1, <4>2, <4>3, <4>4
      <3>. QED  BY <1>0, <3>1, <3>2 DEF Begin
    <2>2. HpaPhase(u)'
        BY <2>1 DEF HpaPhase, dbVars
    <2>3. NamesStay
        BY <2>1 DEF NamesStay, dbVars
    <2>. QED  BY <1>1, <2>1, <2>2, <2>3, HpaStay DEF Idle
<1>8. CASE DeleteAutoScaleAction(u) \/ DeleteAutoScaleAcross(u)
    <2>1. PICK r :
              /\ r.op \in {"hpaDelete", "hpaServiceElsewhere", "hpaRuleElsewhere"}
              /\ Begin(u, "hpaDelete", r) /\ UNCHANGED dbVars
        BY <1>8, HpaBegins DEF TypeInv, TypeOK
    <2>2. UNCHANGED hpaVars
        BY <1>8 DEF DeleteAutoScaleAction, DeleteAutoScaleAcross
    <2>3. /\ pc'[u] = "hpaDelete" /\ req'[u].op \notin {"delete", "cancel"}
          /\ \A v \in Users : v # u => pc'[v] = pc[v] /\ req'[v] = req[v]
        BY <1>0, <2>1 DEF Begin
    <2>4. HpaPhase(u)'
        BY <2>3 DEF HpaPhase
    <2>5. NamesStay
        BY <2>1 DEF NamesStay, dbVars
    <2>. QED  BY <1>1, <2>2, <2>3, <2>4, <2>5, HpaStay DEF Idle
<1>. QED  BY <1>2, <1>5, <1>6, <1>7, <1>8
    DEF NewRequest, SerialInstance, DeployStatefulSetAction, DeleteDeployAction,
        DeleteStatefulSetAction

\* The calls that are not about rules.
OtherCall(u) ==
    \/ CreateWorkload(u) \/ CreateService(u) \/ UndoWorkload(u) \/ PushItemsToRepo(u)
    \/ MarkDeployed(u) \/ MarkRunning(u) \/ DeleteWorkload(u) \/ MarkStopped(u)
    \/ CancelStep(u) \/ SyncWorkload(u) \/ SyncService(u) \/ SyncWrite(u) \/ SyncDone(u)
    \/ SyncServiceData(u) \/ ImportDone(u)

LEMMA OtherCallEffect ==
    ASSUME SerialInv, TypeInv, NEW u \in Users, OtherCall(u)
    PROVE  /\ pc[u] # "hpaInsert" /\ pc'[u] \notin HpaCalls \cup {"cancelRow"}
           /\ req'[u].op \in {req[u].op, "none"}
           /\ \A v \in Users : v # u => pc'[v] = pc[v] /\ req'[v] = req[v]
           /\ NamesStay /\ UNCHANGED hpaVars
<1>0. pc \in [Users -> PCs] /\ req \in [Users -> Request]
    BY DEF TypeInv, TypeOK
<1>1. ASSUME NEW p \in PCs \ (HpaCalls \cup {"cancelRow"}), Goto(u, p)
      PROVE  /\ pc'[u] \notin HpaCalls \cup {"cancelRow"}
             /\ req'[u].op \in {req[u].op, "none"}
             /\ \A v \in Users : v # u => pc'[v] = pc[v] /\ req'[v] = req[v]
    BY <1>0, <1>1 DEF Goto
<1>2. ASSUME Return(u)
      PROVE  /\ pc'[u] \notin HpaCalls \cup {"cancelRow"}
             /\ req'[u].op \in {req[u].op, "none"}
             /\ \A v \in Users : v # u => pc'[v] = pc[v] /\ req'[v] = req[v]
    BY <1>0, <1>2 DEF Return, HpaCalls, NullRequest
<1>3. CASE CreateWorkload(u) \/ CreateService(u) \/ UndoWorkload(u) \/ PushItemsToRepo(u)
            \/ DeleteWorkload(u) \/ CancelStep(u) \/ SyncDone(u) \/ ImportDone(u)
    <2>1. NamesStay /\ UNCHANGED hpaVars /\ pc[u] # "hpaInsert"
        BY <1>3 DEF CreateWorkload, CreateService, UndoWorkload, PushItemsToRepo,
           DeleteWorkload, CancelStep, SyncDone, ImportDone, NamesStay, dbVars
    <2>2. Return(u) \/ \E p \in PCs \ (HpaCalls \cup {"cancelRow"}) : Goto(u, p)
        BY <1>3 DEF CreateWorkload, CreateService, UndoWorkload, PushItemsToRepo,
           DeleteWorkload, CancelStep, SyncDone, ImportDone, PCs, HpaCalls
    <2>. QED  BY <1>1, <1>2, <2>1, <2>2
<1>4. CASE MarkDeployed(u) \/ MarkRunning(u) \/ MarkStopped(u) \/ SyncWrite(u)
    <2>1. NamesStay /\ UNCHANGED hpaVars /\ pc[u] # "hpaInsert"
        BY <1>4, UpdateNamesStay DEF MarkDeployed, MarkRunning, MarkStopped, SyncWrite
    <2>2. Return(u) \/ \E p \in PCs \ (HpaCalls \cup {"cancelRow"}) : Goto(u, p)
        BY <1>4 DEF MarkDeployed, MarkRunning, MarkStopped, SyncWrite, PCs, HpaCalls
    <2>. QED  BY <1>1, <1>2, <2>1, <2>2
<1>5. CASE SyncServiceData(u)
    <2>1. NamesStay /\ UNCHANGED <<hpaVars, pc>> /\ pc[u] = "import"
        BY <1>5, AddNamesStay DEF SyncServiceData, NamesStay, dbVars
    <2>2. PICK n : req' = [req EXCEPT ![u].names = @ \ {n}]
        BY <1>5 DEF SyncServiceData
    <2>3. req'[u].op = req[u].op /\ \A v \in Users : v # u => req'[v] = req[v]
        BY <1>0, <2>2 DEF Request
    <2>. QED  BY <2>1, <2>3 DEF HpaCalls
<1>6. CASE SyncWorkload(u) \/ SyncService(u)
    <2>1. NamesStay /\ UNCHANGED hpaVars /\ pc[u] \in {"sync", "syncService"}
        BY <1>6 DEF SyncWorkload, SyncService, NamesStay, dbVars
    <2>2. CASE UNCHANGED <<pc, req>>
        BY <2>1, <2>2 DEF HpaCalls
    <2>3. CASE SyncService(u)
        <3>1. PICK p \in {"sync", "syncWrite"}, r \in Request :
                Begin(u, p, r) /\ r.op = req[u].op
            <4>1. /\ req[u] \in Request
                  /\ [req[u] EXCEPT !.status = "uncompleted"] \in Request
                  /\ [req[u] EXCEPT !.status = "running"] \in Request
                  /\ [req[u] EXCEPT !.status = "uncompleted"].op = req[u].op
                  /\ [req[u] EXCEPT !.status = "running"].op = req[u].op
                BY <1>0 DEF Request, Statuses
            <4>. QED  BY <2>3, <4>1 DEF SyncService
        <3>2. /\ pc'[u] = p /\ req'[u] = r
              /\ \A v \in Users : v # u => pc'[v] = pc[v] /\ req'[v] = req[v]
            BY <1>0, <3>1 DEF Begin
        <3>. QED  BY <2>1, <3>1, <3>2 DEF HpaCalls
    <2>4. CASE SyncWorkload(u) /\ ~UNCHANGED <<pc, req>>
        <3>1. PICK item \in todo[u] :
                /\ item[1] \in live
                /\ \E v \in View(row[item[1]].name, row[item[1]].type) :
                   \E verdict \in WorkloadVerdict(row[item[1]].type, v, item[2]) :
                    Begin(u, verdict[1],
                          [req[u] EXCEPT !.id = item[1], !.name = row[item[1]].name,
                                         !.type = row[item[1]].type,
                                         !.status = verdict[2], !.seen = v])
            BY <2>4 DEF SyncWorkload
        <3>2. PICK v \in View(row[item[1]].name, row[item[1]].type) :
              \E verdict \in WorkloadVerdict(row[item[1]].type, v, item[2]) :
                    Begin(u, verdict[1],
                          [req[u] EXCEPT !.id = item[1], !.name = row[item[1]].name,
                                         !.type = row[item[1]].type,
                                         !.status = verdict[2], !.seen = v])
            BY <3>1
        <3>3. PICK verdict \in WorkloadVerdict(row[item[1]].type, v, item[2]) :
                    Begin(u, verdict[1],
                          [req[u] EXCEPT !.id = item[1], !.name = row[item[1]].name,
                                         !.type = row[item[1]].type,
                                         !.status = verdict[2], !.seen = v])
            BY <3>2
        <3>4. verdict[1] \in {"syncWrite", "syncService"}
            <4>1. /\ row[item[1]].name \in Names /\ row[item[1]].type \in Types
                  /\ item[2] \in Statuses
                <5>1. row[item[1]] \in Row /\ row[item[1]].name \in Names
                    BY <3>1 DEF TypeInv, TypeOK, NamesKnown
                <5>2. item \in RowIds \X Statuses
                    BY <3>1 DEF TypeInv, TypeOK
                <5>. QED  BY <5>1, <5>2 DEF Row
            <4>. QED  BY <3>2, <3>3, <4>1, VerdictTypes
        <3>. QED  BY <1>0, <2>1, <3>3, <3>4 DEF Begin, HpaCalls, Request
    <2>. QED  BY <1>6, <2>2, <2>3, <2>4
<1>. QED  BY <1>3, <1>4, <1>5, <1>6 DEF OtherCall

LEMMA HpaContinue ==
    ASSUME SerialInv, TypeInv, HpaInv, NEW u \in Users, Continue(u)
    PROVE  HpaInv'
<1>0. /\ pc \in [Users -> PCs] /\ req \in [Users -> Request] /\ row \in [RowIds -> Row]
      /\ live \subseteq RowIds /\ HpaPhase(u) /\ pc[u] # "cancelRow" /\ req[u].op # "cancel"
    BY DEF TypeInv, TypeOK, HpaInv, NoCancel
<1>1. \A v \in Users : v # u => Idle(v)
    <2>1. ~Idle(u)
        BY DEF Idle, Continue, CreateWorkload, CreateService, UndoWorkload,
           PushItemsToRepo, MarkDeployed, MarkRunning, DeleteWorkload, DeleteService,
           MarkStopped, DeleteRow, CancelRow, CancelStep, CreateHpa, InsertHpa, ListHpas,
           DeleteHpa, DeleteHpaDb, HpasDeleted, SyncWorkload, SyncService, SyncWrite,
           SyncDone, SyncServiceData, ImportDone
    <2>. QED  BY <2>1 DEF SerialInv, OneAtATime
<1>2. /\ \A rule \in hpaDb : rule[1] \in live
      /\ \A n \in hpaK8s \ strayed :
            (\E id \in live : <<id, n>> \in hpaDb) \/ (pc[u] = "hpaInsert" /\ req[u].rule = n)
    BY <1>1 DEF HpaInv, HpasAreOwned, Idle, RulesOf
<1>a. hpaDb \subseteq RowIds \X Names /\ hpaK8s \subseteq Names
    BY DEF TypeInv, TypeOK
\* What is to be shown of the rules after a step that renames no row.
<1>b. ASSUME live' = live,
             \A rule \in hpaDb' : rule[1] \in live,
             \A n \in hpaK8s' \ strayed' :
                 \/ \E id \in live : <<id, n>> \in hpaDb'
                 \/ pc'[u] = "hpaInsert" /\ req'[u].rule = n,
             hpaK8s' \subseteq Names
      PROVE  HpasAreOwned'
    BY <1>b DEF HpasAreOwned, RulesOf
\* The request of u has moved, and the rest follows from its own phase.
<1>3. ASSUME \A v \in Users : v # u => pc'[v] = pc[v] /\ req'[v] = req[v],
             pc'[u] # "cancelRow", req'[u].op # "cancel", HpaPhase(u)', HpasAreOwned'
      PROVE  HpaInv'
    <2>1. NoCancel'
        BY <1>3 DEF HpaInv, NoCancel
    <2>2. \A v \in Users : v # u => HpaPhase(v)'
        BY <1>1, <1>3 DEF Idle, HpaPhase
    <2>. QED  BY <1>3, <2>1, <2>2 DEF HpaInv
<1>4. ASSUME NEW p, Goto(u, p)
      PROVE  /\ pc'[u] = p /\ req' = req
             /\ \A v \in Users : v # u => pc'[v] = pc[v] /\ req'[v] = req[v]
    BY <1>0, <1>4 DEF Goto
<1>5. ASSUME Return(u)
      PROVE  /\ pc'[u] = "idle" /\ req'[u].op = "none"
             /\ \A v \in Users : v # u => pc'[v] = pc[v] /\ req'[v] = req[v]
    BY <1>0, <1>5 DEF Return, NullRequest
<1>6. CASE OtherCall(u)
    <2>1. HpaPhase(u)'
        BY <1>6, OtherCallEffect DEF HpaPhase, HpaCalls
    <2>. QED  BY <1>0, <1>1, <1>6, <2>1, OtherCallEffect, HpaStay
<1>7. CASE DeleteService(u)
    <2>1. /\ pc[u] = "deleteService" /\ UNCHANGED <<dbVars, hpaVars>>
          /\ Goto(u, AfterStop(req[u].op)) \/ Return(u)
        BY <1>7 DEF DeleteService
    <2>2. NamesStay
        BY <2>1 DEF NamesStay, dbVars
    <2>3. req[u].op \in {"stop", "delete"} /\ OwnRow(u)
        BY <1>0, <2>1 DEF SerialInv, StopPhase
    <2>4. CASE Return(u)
        <3>1. HpaPhase(u)'
            BY <1>5, <2>4 DEF HpaPhase
        <3>. QED  BY <1>1, <1>5, <2>1, <2>2, <2>4, <3>1, HpaStay
    <2>5. CASE Goto(u, AfterStop(req[u].op))
        <3>1. pc'[u] \in {"markStopped", "hpaList"}
            BY <1>4, <2>3, <2>5 DEF AfterStop
        <3>2. HpaPhase(u)'
            BY <1>4, <2>1, <2>3, <2>5, <3>1 DEF HpaPhase, OwnRow, dbVars
        <3>. QED  BY <1>0, <1>1, <1>4, <2>1, <2>2, <2>5, <3>1, <3>2, HpaStay
    <2>. QED  BY <2>1, <2>4, <2>5
<1>8. CASE DeleteRow(u)
    <2>1. /\ pc[u] = "deleteRow" /\ RulesOf(req[u].id) = {} /\ UNCHANGED hpaVars
          /\ live' = live \ {req[u].id} /\ Return(u)
        BY <1>0, <1>8 DEF DeleteRow, DeleteServiceRow, HpaPhase
    <2>2. \A rule \in hpaDb : rule[1] # req[u].id
        BY <1>a, <2>1 DEF RulesOf
    <2>3. HpasAreOwned'
        <3>1. \A rule \in hpaDb : rule[1] \in live'
            BY <1>2, <2>1, <2>2
        <3>2. \A n \in hpaK8s \ strayed : \E id \in live' : <<id, n>> \in hpaDb
            <4>. SUFFICES ASSUME NEW n \in hpaK8s \ strayed
                          PROVE  \E id \in live' : <<id, n>> \in hpaDb
                OBVIOUS
            <4>1. PICK id \in live : <<id, n>> \in hpaDb
                BY <1>2, <2>1
            <4>2. <<id, n>>[1] = id
                OBVIOUS
            <4>. QED  BY <2>1, <2>2, <4>1, <4>2
        <3>. QED  BY <1>a, <2>1, <3>1, <3>2 DEF HpasAreOwned, RulesOf, hpaVars
    <2>4. HpaPhase(u)'
        BY <1>5, <2>1 DEF HpaPhase
    <2>. QED  BY <1>3, <1>5, <2>1, <2>3, <2>4
<1>9. CASE CreateHpa(u)
    <2>1. /\ pc[u] = "hpaCreate" /\ req[u].id \in live /\ req[u].rule \in Names
          /\ UNCHANGED <<hpaDb, strayed, dbVars>>
        BY <1>0, <1>9 DEF CreateHpa, HpaPhase, TypeInv, NamesKnown
    <2>2. CASE hpaK8s' = hpaK8s \cup {req[u].rule} /\ Goto(u, "hpaInsert")
        <3>1. HpasAreOwned'
            BY <1>2, <1>4, <1>a, <1>b, <2>1, <2>2 DEF dbVars
        <3>2. HpaPhase(u)'
            BY <1>4, <2>1, <2>2 DEF HpaPhase, dbVars
        <3>. QED  BY <1>0, <1>3, <1>4, <2>2, <3>1, <3>2
    <2>3. CASE hpaK8s' = hpaK8s /\ Return(u)
        <3>1. HpasAreOwned'
            BY <1>2, <1>a, <1>b, <2>1, <2>3 DEF dbVars
        <3>2. HpaPhase(u)'
            BY <1>5, <2>3 DEF HpaPhase
        <3>. QED  BY <1>3, <1>5, <2>3, <3>1, <3>2
    <2>. QED  BY <1>9, <2>2, <2>3 DEF CreateHpa
<1>10. CASE InsertHpa(u)
    <2>1. /\ req[u].id \in live /\ UNCHANGED <<dbVars, hpaK8s, strayed>> /\ Return(u)
          /\ hpaDb' = hpaDb \cup {<<req[u].id, req[u].rule>>}
        BY <1>0, <1>10 DEF InsertHpa, HpaPhase
    <2>2. HpasAreOwned'
        BY <1>2, <1>a, <1>b, <2>1 DEF dbVars
    <2>3. HpaPhase(u)'
        BY <1>5, <2>1 DEF HpaPhase
    <2>. QED  BY <1>3, <1>5, <2>1, <2>2, <2>3
<1>11. CASE ListHpas(u)
    <2>1. UNCHANGED <<dbVars, hpaVars>> /\ pc[u] = "hpaList"
        BY <1>11 DEF ListHpas
    <2>2. /\ pc'[u] = "hpaDelete" /\ req'[u].names = RulesOf(req[u].id)
          /\ req'[u].op = req[u].op /\ req'[u].id = req[u].id
          /\ \A v \in Users : v # u => pc'[v] = pc[v] /\ req'[v] = req[v]
        <3>1. req[u] \in Request
            BY <1>0
        <3>. QED  BY <1>0, <1>11, <3>1 DEF ListHpas, Begin, Request
    <2>3. HpaPhase(u)'
        BY <2>1, <2>2 DEF HpaPhase, RulesOf, hpaVars
    <2>4. NamesStay
        BY <2>1 DEF NamesStay, dbVars
    <2>. QED  BY <1>0, <1>1, <2>1, <2>2, <2>3, <2>4, HpaStay
<1>12. CASE DeleteHpa(u)
    <2>1. /\ pc[u] = "hpaDelete" /\ UNCHANGED <<hpaDb, dbVars>>
          /\ hpaK8s' \subseteq hpaK8s /\ strayed' = strayed \cap hpaK8s'
        BY <1>0, <1>12 DEF DeleteHpa
    <2>2. HpasAreOwned'
        BY <1>2, <1>a, <1>b, <2>1 DEF dbVars
    <2>3. CASE Return(u)
        <3>1. HpaPhase(u)'
            BY <1>5, <2>3 DEF HpaPhase
        <3>. QED  BY <1>3, <1>5, <2>2, <2>3, <3>1
    <2>4. CASE ~Return(u)
        <3>1. PICK n \in req[u].names :
                  /\ hpaK8s' = IF req[u].op = "hpaServiceElsewhere" THEN hpaK8s
                                                                   ELSE hpaK8s \ {n}
                  /\ Begin(u, "hpaDeleteDb", [req[u] EXCEPT !.rule = n])
            BY <1>12, <2>4 DEF DeleteHpa
        <3>2. /\ pc'[u] = "hpaDeleteDb" /\ req'[u].rule = n
              /\ req'[u].names = req[u].names
              /\ req'[u].op = req[u].op /\ req'[u].id = req[u].id
              /\ \A v \in Users : v # u => pc'[v] = pc[v] /\ req'[v] = req[v]
            <4>1. req[u] \in Request
                BY <1>0
            <4>. QED  BY <1>0, <3>1, <4>1 DEF Begin, Request
        <3>3. HpaPhase(u)'
            BY <1>0, <2>1, <3>1, <3>2 DEF HpaPhase, RulesOf
        <3>. QED  BY <1>0, <1>3, <2>2, <3>2, <3>3
    <2>. QED  BY <2>3, <2>4
<1>14. CASE DeleteHpaDb(u)
    <2>. DEFINE n == req[u].rule
                gone == <<req[u].id, n>>
    <2>1. /\ pc[u] = "hpaDeleteDb" /\ UNCHANGED <<dbVars, hpaK8s>>
          /\ hpaDb' = hpaDb \ {gone}
          /\ req[u].op # "hpaServiceElsewhere" => n \notin hpaK8s /\ strayed' = strayed
          /\ req[u].op = "hpaServiceElsewhere" => strayed' = strayed \cup ({n} \cap hpaK8s)
        BY <1>0, <1>14 DEF DeleteHpaDb, HpaPhase
    <2>2. HpasAreOwned'
        <3>1. \A m \in hpaK8s' \ strayed' : m # n /\ m \in hpaK8s \ strayed
            BY <2>1
        <3>2. \A m \in hpaK8s' \ strayed' : \E id \in live : <<id, m>> \in hpaDb'
            BY <1>2, <2>1, <3>1
        <3>. QED  BY <1>2, <1>a, <1>b, <2>1, <3>2 DEF dbVars
    <2>3. CASE Return(u)
        <3>1. HpaPhase(u)'
            BY <1>5, <2>3 DEF HpaPhase
        <3>. QED  BY <1>3, <1>5, <2>2, <2>3, <3>1
    <2>4. CASE ~Return(u)
        <3>1. /\ Begin(u, "hpaDelete", [req[u] EXCEPT !.names = @ \ {n}])
              /\ req[u].op = "delete"
            BY <1>14, <2>4 DEF DeleteHpaDb
        <3>2. /\ pc'[u] = "hpaDelete" /\ req'[u].names = req[u].names \ {n}
              /\ req'[u].op = req[u].op /\ req'[u].id = req[u].id
              /\ \A v \in Users : v # u => pc'[v] = pc[v] /\ req'[v] = req[v]
            <4>1. req[u] \in Request
                BY <1>0
            <4>. QED  BY <1>0, <3>1, <4>1 DEF Begin, Request
        <3>3. RulesOf(req[u].id) \subseteq req[u].names
            BY <1>0, <2>1, <3>1 DEF HpaPhase
        <3>4. RulesOf(req[u].id)' \subseteq req[u].names \ {n}
            BY <2>1, <3>2, <3>3 DEF RulesOf
        <3>5. HpaPhase(u)'
            BY <3>2, <3>4 DEF HpaPhase, RulesOf
        <3>. QED  BY <1>0, <1>3, <2>2, <3>2, <3>5
    <2>. QED  BY <2>3, <2>4
<1>15. CASE HpasDeleted(u)
    <2>1. /\ pc[u] = "hpaDelete" /\ req[u].names = {} /\ Goto(u, "deleteRow")
          /\ UNCHANGED <<dbVars, hpaVars>>
        BY <1>15 DEF HpasDeleted
    <2>2. req[u].op = "delete"
        BY <2>1 DEF SerialInv, RemovePhase
    <2>3. RulesOf(req[u].id) = {}
        BY <1>0, <2>1, <2>2 DEF HpaPhase
    <2>4. HpaPhase(u)'
        BY <1>4, <2>1, <2>3 DEF HpaPhase, RulesOf, hpaVars
    <2>5. NamesStay
        BY <2>1 DEF NamesStay, dbVars
    <2>. QED  BY <1>0, <1>1, <1>4, <2>1, <2>4, <2>5, HpaStay
<1>13. ~CancelRow(u)
    BY <1>0 DEF CancelRow
<1>. QED
    BY <1>6, <1>7, <1>8, <1>9, <1>10, <1>11, <1>12, <1>13, <1>14, <1>15
    DEF Continue, OtherCall

\* No rule outlives its service, and no HorizontalPodAutoscaler its record,
\* whatever calls fail and through whichever service of the project a rule is
\* deleted: without DeleteDeployAction, which deletes no rules, and but for
\* those deleted through a service of another project.
THEOREM RulesOwned ==
    ASSUME SerialInstance, "cancel" \notin Requests
    PROVE  Spec => []HpasAreOwned
<1>1. Init => TypeInv /\ SerialInv /\ HpaInv
    <2>. SUFFICES ASSUME Init PROVE HpaInv
        BY TypeInit, SerialInit
    <2>. QED  BY DEF Init, HpaInv, NoCancel, HpasAreOwned, HpaPhase, NullRequest
<1>2. TypeInv /\ SerialInv /\ HpaInv /\ [Next]_vars => (TypeInv /\ SerialInv /\ HpaInv)'
    <2>. SUFFICES ASSUME TypeInv, SerialInv, HpaInv, [Next]_vars PROVE HpaInv'
        BY TypeStep, SerialStep
    <2>1. ASSUME NEW n \in Names, Cluster(n) PROVE HpaInv'
        BY <2>1 DEF Cluster, DeploymentMoves, StatefulSetMoves, HpaInv, NoCancel,
           HpasAreOwned, HpaPhase, RulesOf, dbVars, hpaVars, procVars
    <2>2. CASE UNCHANGED vars
        BY <2>2 DEF vars, HpaInv, NoCancel, HpasAreOwned, HpaPhase, RulesOf, dbVars,
           hpaVars, procVars
    <2>. QED  BY <2>1, <2>2, HpaNewRequest, HpaContinue DEF Next
<1>3. HpaInv => HpasAreOwned
    BY DEF HpaInv
<1>. QED  BY <1>1, <1>2, <1>3, PTL DEF Spec
================================================================================
