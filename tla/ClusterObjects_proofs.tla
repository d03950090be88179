------------------------- MODULE ClusterObjects_proofs -------------------------
(***************************************************************************)
(* What the proof system checks about the two components that work with    *)
(* the git server: ClusterObjects, for every field of every kind of object,*)
(* any number of clients, requests and writes of others and any set of     *)
(* faults; and RepoJob, for any number of calls side by side and of        *)
(* repositories.  The two share no state: Spec is that of ClusterObjects,  *)
(* RepoJobSpec that of RepoJob.                                            *)
(***************************************************************************)
EXTENDS ClusterObjects, RepoJob, TLAPS

-----------------------------------------------------------------------------
(* What the conversions do to the field. *)

\* A selection that has a field has what leads to it.
LEMMA CoveredField ==
    ASSUME NEW f \in Seq(STRING), NEW A, NEW B, Covers(A, B), Within(f, A)
    PROVE  Within(f, B)
<1>1. PICK p \in A : Len(p) <= Len(f) /\ SubSeq(f, 1, Len(p)) = p
    BY DEF Within
<1>2. p \in Seq(STRING)
    BY DEF Covers
<1>3. PICK q \in B : Len(q) <= Len(p) /\ SubSeq(p, 1, Len(q)) = q
    BY DEF Covers, Within
<1>4. q \in Seq(STRING)
    BY DEF Covers
<1>5. Len(f) \in Nat /\ Len(p) \in Nat /\ Len(q) \in Nat /\ Len(q) <= Len(f)
    BY <1>1, <1>2, <1>3, <1>4
<1>6. SubSeq(f, 1, Len(q)) = SubSeq(p, 1, Len(q))
    <2>1. ASSUME NEW i \in 1..Len(q) PROVE f[i] = p[i]
        <3>1. i \in 1..Len(p) /\ i \in Int
            BY <1>3, <1>5
        <3>2. SubSeq(f, 1, Len(p))[i] = f[1 + i - 1]
            BY <3>1, <1>1, <1>5
        <3>. QED  BY <3>1, <3>2, <1>1
    <2>. QED  BY <2>1, <1>2, <1>3, <1>5
<1>. QED  BY <1>3, <1>5, <1>6 DEF Within

LEMMA Conversions ==
    ASSUME TypeOK
    PROVE  /\ kind \in Kinds /\ field \in Seq(STRING)
           /\ \A op \in OpsOf(kind) \cap (Edits \cup {"create"}) :
                  Asking(op) => Within(field, ThisClient.to)
           /\ Within(field, ThisClient.to) => Within(field, ThisClient.room)
           /\ kind = "Node" /\ Within(field, ThisClient.laid) =>
                  Within(field, ThisClient.from) /\ Within(field, ThisClient.room)
           /\ Within(field, RoundTrip) => Within(field, ThisClient.to) /\ Within(field, ThisClient.from)
<1>1. kind \in Kinds /\ field \in Seq(STRING)
    BY ClusterObjectsAssumption DEF TypeOK
<1>2. \A op \in OpsOf(kind) \cap (Edits \cup {"create"}) : Asking(op) => Within(field, ThisClient.to)
    BY <1>1, CoveredField, ConversionsAssumption DEF Asking, ThisClient
<1>3. Within(field, ThisClient.to) => Within(field, ThisClient.room)
    BY <1>1, CoveredField, ConversionsAssumption DEF ThisClient
<1>4. kind = "Node" /\ Within(field, ThisClient.laid) =>
          Within(field, ThisClient.from) /\ Within(field, ThisClient.room)
    BY <1>1, CoveredField, ConversionsAssumption DEF ThisClient
<1>5. Within(field, RoundTrip) => Within(field, ThisClient.to) /\ Within(field, ThisClient.from)
    BY DEF Within, RoundTrip
<1>. QED  BY <1>1, <1>2, <1>3, <1>4, <1>5

\* What is lost is not set, and what is not lost stays.
LEMMA Lost ==
    /\ \A v, selection : Written(v, selection) \in {0, v}
    /\ \A v : Sent(v) \in {0, v}
    /\ \A o : Seen(o) \in {0, o.val}
BY DEF Written, Sent, Seen

LEMMA Kept ==
    ASSUME TypeOK
    PROVE  /\ Within(field, ThisClient.to) => \A v : Sent(v) = v
           /\ Within(field, ThisClient.from) /\ Within(field, ThisClient.room) =>
                  \A o : Seen(o) = o.val
BY Conversions DEF Sent, Seen, Written

\* Of autoscalers and config maps the server keeps no copy to put back.
LEMMA VersionedOps ==
    ASSUME kind \in {"HorizontalPodAutoscaler", "ConfigMap"}
    PROVE  OpsOf(kind) = {"create", "remove", "update"}
<1>1. /\ AppV1Client["HorizontalPodAutoscaler"] = autoscales
      /\ AppV1Client["ConfigMap"] = configMap
    BY DEF AppV1Client, Kinds
<1>2. /\ "Update" \notin autoscales.whole /\ "PatchToK8s" \notin autoscales.methods
      /\ "Update" \notin configMap.whole /\ "PatchToK8s" \notin configMap.methods
    BY DEF autoscales, configMap, Overlaid, Client, Reading, Writing
<1>. QED  BY <1>1, <1>2 DEF OpsOf

-----------------------------------------------------------------------------
(* The inductive invariant. *)

\* A request is one of the operations of its kind, and an edit of the field asks for a value.
RequestInv ==
    \A c \in Clients :
        /\ pc[c] # "idle" => req[c].op \in OpsOf(kind)
        /\ pc[c] \in {"find", "get", "put"} /\ req[c].op \in Edits /\ Asking(req[c].op) =>
               req[c].v # 0
        /\ pc[c] \in {"merge", "deploy"} => req[c].op = "start"

TypeInv == TypeOK /\ RequestInv

\* A version stands for the value that was stored with it: a copy of this version is the object.
VersionInv ==
    /\ object.there => object.version = clock
    /\ \A c \in Clients : pc[c] = "put" =>
        /\ req[c].held.version <= clock
        /\ req[c].op = "update" /\ object.there /\ req[c].held.version = object.version =>
               req[c].held.val = object.val

\* Without the fields that files do not have, a file has a value only of what it has.
FileInv ==
    ~Within(field, ThisClient.file) =>
        /\ \A c \in Clients : req[c].file = 0
        /\ \A u \in Users : local[u] \in {0, NoFile} /\ repo[u] \in {0, NoFile}

OneAtATime ==
    ~overlap => \A c, d \in Clients : pc[c] # "idle" /\ pc[d] # "idle" => c = d

\* What a request has read is still the object, and its file is the object's.
CopyInv ==
    ~overlap => \A c \in Clients :
        /\ pc[c] = "put" /\ req[c].op # "update" => object.there /\ req[c].held.val = Seen(object)
        /\ pc[c] = "file" => object.there /\ req[c].file = Written(object.val, ThisClient.file)
        /\ pc[c] = "push" /\ req[c].op # "start" =>
               object.there /\ local[req[c].u] = Written(object.val, ThisClient.file)

ObjectInv ==
    /\ VersionInv /\ FileInv /\ OneAtATime /\ CopyInv
    /\ AskedIsKept /\ RepositoryHasObject

-----------------------------------------------------------------------------
(* The types. *)

LEMMA NullTyped == Null \in K8sObject /\ 0 \in Values /\ NullRequest \in Request /\ Null.version = 0
<1>1. 0 \in Values
    BY ClusterObjectsAssumption DEF Values
<1>2. Null \in K8sObject /\ Null.version = 0
    BY <1>1 DEF Null, K8sObject
<1>3. (CHOOSE o \in Ops : TRUE) \in Ops
    BY ClusterObjectsAssumption
<1>. QED  BY <1>1, <1>2, <1>3 DEF NullRequest, Request, Users

LEMMA NullFields == NullRequest.file = 0 /\ NullRequest.held = Null
BY DEF NullRequest

LEMMA ValuesTyped ==
    ASSUME TypeOK
    PROVE  /\ Values \subseteq Nat /\ Values \subseteq File
           /\ \A v \in Values : \A selection : Written(v, selection) \in Values
           /\ \A v \in Values : Sent(v) \in Values /\ ConfigOf(v) \in Values
           /\ object \in K8sObject => Seen(object) \in Values
           /\ (asks < MaxAsks \/ others < MaxOthers) => Fresh \in Values \ {0} /\ 1 \in Values
<1>1. Values \subseteq Nat /\ Values \subseteq File /\ 0 \in Values
    BY ClusterObjectsAssumption DEF Values, File
<1>2. /\ \A v \in Values : \A selection : Written(v, selection) \in Values
      /\ \A v \in Values : Sent(v) \in Values
    BY <1>1, Lost
<1>3. \A v \in Values : ConfigOf(v) \in Values
    BY <1>1, <1>2 DEF ConfigOf
<1>4. object \in K8sObject => Seen(object) \in Values
    BY <1>1, Lost DEF K8sObject
<1>5. ASSUME asks < MaxAsks \/ others < MaxOthers PROVE Fresh \in Values \ {0} /\ 1 \in Values
    <2>1. asks \in Nat /\ others \in Nat /\ asks <= MaxAsks /\ others <= MaxOthers
          /\ MaxAsks \in Nat /\ MaxOthers \in Nat
        BY ClusterObjectsAssumption DEF TypeOK
    <2>. QED  BY <2>1, <1>5 DEF Fresh, Values
<1>. QED  BY <1>1, <1>2, <1>3, <1>4, <1>5

LEMMA GotoTyped ==
    ASSUME TypeOK, NEW c \in Clients, NEW p \in PCs, Goto(c, p)
    PROVE  pc' \in [Clients -> PCs] /\ pc'[c] = p /\ \A d \in Clients \ {c} : pc'[d] = pc[d]
BY DEF TypeOK, Goto

LEMMA ReturnTyped ==
    ASSUME TypeOK, NEW c \in Clients, Return(c)
    PROVE  /\ pc' \in [Clients -> PCs] /\ req' \in [Clients -> Request]
           /\ pc'[c] = "idle" /\ req'[c] = NullRequest
           /\ \A d \in Clients \ {c} : pc'[d] = pc[d] /\ req'[d] = req[d]
<1>1. "idle" \in PCs
    BY DEF PCs
<1>. QED  BY <1>1, NullTyped DEF TypeOK, Return, Goto

LEMMA StoreTyped ==
    ASSUME TypeOK, NEW v \in Values, Store(v)
    PROVE  /\ object' \in K8sObject /\ clock' \in Nat /\ clock' = clock + 1
           /\ object'.there /\ object'.val = v /\ object'.version = clock + 1
BY DEF TypeOK, Store, K8sObject

LEMMA FileTyped ==
    ASSUME TypeOK, NEW c \in Clients, NEW v \in Values
    PROVE  /\ [req EXCEPT ![c].file = v] \in [Clients -> Request]
           /\ LET r == [req EXCEPT ![c].file = v][c] IN
              r.file = v /\ r.op = req[c].op /\ r.u = req[c].u /\ r.held = req[c].held
<1>1. req[c] \in Request /\ req \in [Clients -> Request]
    BY DEF TypeOK
<1>2. [req[c] EXCEPT !.file = v] \in Request
    BY <1>1 DEF Request
<1>3. [req EXCEPT ![c].file = v] = [req EXCEPT ![c] = [req[c] EXCEPT !.file = v]]
    BY <1>1
<1>4. LET r == [req[c] EXCEPT !.file = v] IN
      r.file = v /\ r.op = req[c].op /\ r.u = req[c].u /\ r.held = req[c].held
    BY <1>1 DEF Request
<1>. QED  BY <1>1, <1>2, <1>3, <1>4

LEMMA ThenFileTyped ==
    ASSUME TypeOK, NEW c \in Clients, NEW v \in Values, ThenFile(c, v, "file")
    PROVE  /\ pc' \in [Clients -> PCs] /\ req' \in [Clients -> Request]
           /\ pc'[c] \in {"idle", "file"}
           /\ pc'[c] = "idle" => req'[c] = NullRequest
           /\ pc'[c] = "file" => /\ OfService /\ req'[c].file = Written(v, ThisClient.file)
                                 /\ req'[c].op = req[c].op /\ req'[c].u = req[c].u
           /\ \A d \in Clients \ {c} : pc'[d] = pc[d] /\ req'[d] = req[d]
<1>1. CASE OfService
    <2>1. ConfigOf(v) \in Values /\ ConfigOf(v) = Written(v, ThisClient.file)
        BY <1>1, ValuesTyped DEF ConfigOf
    <2>2. Goto(c, "file") /\ req' = [req EXCEPT ![c].file = ConfigOf(v)] /\ "file" \in PCs
        BY <1>1 DEF ThenFile, PCs
    <2>3. req' \in [Clients -> Request] /\ req'[c].file = ConfigOf(v) /\ req'[c].op = req[c].op
          /\ req'[c].u = req[c].u
        BY <2>1, <2>2, FileTyped
    <2>4. \A d \in Clients \ {c} : req'[d] = req[d]
        BY <2>2 DEF TypeOK
    <2>. QED  BY <1>1, <2>1, <2>2, <2>3, <2>4, GotoTyped
<1>2. CASE ~OfService
    BY <1>2, ReturnTyped DEF ThenFile
<1>. QED  BY <1>1, <1>2
FirstSteps == {"create", "get", "find", "delete", "scale", "merge", "deploy"}

\* What a request is when it comes.
NewRequest(c, u, op, v, p) ==
    /\ Begin(c, op, u, v, p)
    /\ op \in Ops \cap OpsOf(kind) /\ v \in Values /\ p \in FirstSteps
    /\ op \in Edits /\ Asking(op) => v # 0
    /\ p \in {"merge", "deploy"} => op = "start"

RowTyped ==
    /\ status \in {"none", "preparing", "uncompleted", "running", "stopped"}
    /\ creator \in Users

LEMMA AsksForOne ==
    ASSUME TypeOK, NEW c \in Clients, NEW u \in Users, Asks(c, u)
    PROVE  /\ Ready(c) /\ RowTyped'
           /\ \E op, v, p : NewRequest(c, u, op, v, p)
<1>. asks < MaxAsks /\ Ready(c) /\ RowTyped
    BY DEF Asks, Ready, TypeOK, RowTyped
<1>. Fresh \in Values \ {0} /\ 1 \in Values /\ 0 \in Values /\ 1 # 0
    BY ValuesTyped, NullTyped
<1>1. CASE Ask(c, u)
    <2>1. NewRequest(c, u, "create", Fresh, "create")
        BY <1>1 DEF Ask, NewRequest, Begin, Edits, FirstSteps
    <2>2. RowTyped'
        BY <1>1 DEF Ask, RowTyped, row
    <2>. QED  BY <2>1, <2>2
<1>2. CASE UpdateAsked(c, u)
    <2>1. NewRequest(c, u, "update", Fresh, "get") /\ UNCHANGED row
        BY <1>2 DEF UpdateAsked, NewRequest, Begin, Edits, FirstSteps
    <2>. QED  BY <2>1 DEF RowTyped, row
<1>3. CASE Remove(c, u)
    <2>1. NewRequest(c, u, "remove", 0, "delete") /\ UNCHANGED row
        BY <1>3 DEF Remove, NewRequest, Begin, Edits, FirstSteps
    <2>. QED  BY <2>1 DEF RowTyped, row
<1>4. CASE Start(c, u)
    <2>1. NewRequest(c, u, "start", 0, IF u = Owner THEN "merge" ELSE "deploy") /\ UNCHANGED row
        BY <1>4 DEF Start, NewRequest, Begin, Edits, FirstSteps
    <2>. QED  BY <2>1 DEF RowTyped, row
<1>5. CASE AddConfigMapAction(c, u)
    <2>1. NewRequest(c, u, "create", Fresh, "create") /\ UNCHANGED row
        BY <1>5 DEF AddConfigMapAction, OnConfigMap, NewRequest, Begin, Edits, FirstSteps
    <2>. QED  BY <2>1 DEF RowTyped, row
<1>6. CASE UpdateConfigMapAction(c, u)
    <2>1. NewRequest(c, u, "update", Fresh, "get") /\ UNCHANGED row
        BY <1>6 DEF UpdateConfigMapAction, OnConfigMap, NewRequest, Begin, Edits, FirstSteps
    <2>. QED  BY <2>1 DEF RowTyped, row
<1>7. CASE UpdateConfigMapByName(c, u)
    <2>1. NewRequest(c, u, "update", Fresh, "find") /\ UNCHANGED row
        BY <1>7 DEF UpdateConfigMapByName, OnConfigMap, NewRequest, Begin, Edits, FirstSteps
    <2>. QED  BY <2>1 DEF RowTyped, row
<1>8. CASE RemoveConfigMapAction(c, u)
    <2>1. NewRequest(c, u, "remove", 0, "delete") /\ UNCHANGED row
        BY <1>8 DEF RemoveConfigMapAction, OnConfigMap, NewRequest, Begin, Edits, FirstSteps
    <2>. QED  BY <2>1 DEF RowTyped, row
<1>9. ASSUME NEW op \in Edits \cap OpsOf(kind), NEW v \in Choices(op), Edit(c, op, u, v)
      PROVE  RowTyped' /\ \E o, w, p : NewRequest(c, u, o, w, p)
    <2>1. v \in Values /\ (Asking(op) => v # 0)
        BY <1>9 DEF Choices
    <2>2. NewRequest(c, u, op, v, "get") /\ UNCHANGED row
        BY <1>9, <2>1 DEF Edit, NewRequest, Begin, FirstSteps
    <2>. QED  BY <2>2 DEF RowTyped, row
<1>10. ASSUME NEW v \in Choices("scale"), ScaleService(c, u, v)
       PROVE  RowTyped' /\ \E o, w, p : NewRequest(c, u, o, w, p)
    <2>1. v \in Values
        BY <1>10 DEF Choices
    <2>2. NewRequest(c, u, "scale", v, "scale") /\ UNCHANGED row
        BY <1>10, <2>1 DEF ScaleService, NewRequest, Begin, Edits, FirstSteps
    <2>. QED  BY <2>2 DEF RowTyped, row
<1>. QED
    BY <1>1, <1>2, <1>3, <1>4, <1>5, <1>6, <1>7, <1>8, <1>9, <1>10 DEF Asks

LEMMA BeginTyped ==
    ASSUME TypeOK, NEW c \in Clients, NEW u \in Users, NEW op, NEW v, NEW p,
           asks < MaxAsks, NewRequest(c, u, op, v, p)
    PROVE  /\ pc' \in [Clients -> PCs] /\ req' \in [Clients -> Request] /\ asks' \in 0..MaxAsks
           /\ pc'[c] = p /\ req'[c].op = op /\ req'[c].v = v /\ req'[c].u = u
           /\ req'[c].file = 0 /\ req'[c].held = Null
           /\ \A d \in Clients \ {c} : pc'[d] = pc[d] /\ req'[d] = req[d]
           /\ UNCHANGED <<chosen, object, clock, files, others, overlap, history>>
<1>. DEFINE r == [NullRequest EXCEPT !.op = op, !.u = u, !.v = v]
<1>1. r \in Request /\ r.op = op /\ r.v = v /\ r.u = u /\ r.file = 0 /\ r.held = Null
    BY NullTyped, NullFields DEF NewRequest, Request
<1>2. req' = [req EXCEPT ![c] = r] /\ Goto(c, p) /\ asks' = asks + 1
      /\ UNCHANGED <<chosen, object, clock, files, others, overlap, history>>
    BY DEF NewRequest, Begin
<1>3. p \in PCs
    BY DEF NewRequest, PCs, FirstSteps
<1>4. asks' \in 0..MaxAsks
    BY <1>2, ClusterObjectsAssumption DEF TypeOK
<1>. HIDE DEF r
<1>5. req' \in [Clients -> Request] /\ req'[c] = r /\ \A d \in Clients \ {c} : req'[d] = req[d]
    BY <1>1, <1>2 DEF TypeOK
<1>. QED  BY <1>1, <1>2, <1>3, <1>4, <1>5, GotoTyped
LEMMA TypeStep ==
    ASSUME TypeInv, NEW c \in Clients, Step(c)
    PROVE  TypeOK'
<1>. TypeOK
    BY DEF TypeInv
<1>r. /\ req[c] \in Request /\ req[c].op \in Ops /\ req[c].u \in Users /\ req[c].v \in Values
      /\ req[c].file \in Values /\ req[c].held \in K8sObject /\ req[c].held.val \in Values
    BY DEF TypeOK, Request, K8sObject
<1>o. /\ object \in K8sObject /\ object.val \in Values /\ clock \in Nat
      /\ local \in [Users -> File] /\ repo \in [Users -> File] /\ savers \subseteq Users
    BY DEF TypeOK, K8sObject
<1>v. /\ 0 \in Values /\ Values \subseteq File
      /\ \A v \in Values : Sent(v) \in Values
      /\ Seen(object) \in Values
    BY <1>o, NullTyped, ValuesTyped
<1>1. CASE Create(c)
    <2>. DEFINE v == IF Asking("create") THEN Sent(req[c].v) ELSE 0
    <2>1. v \in Values
        BY <1>r, <1>v
    <2>2. CASE Return(c) /\ UNCHANGED <<object, clock, history>>
        BY <1>1, <2>2, ReturnTyped DEF Create, TypeOK, chosen, row, files, counters, history
    <2>3. CASE Store(v) /\ ThenFile(c, v, "file")
        <3>1. wanted' \in Values /\ replaced' = FALSE /\ savers' = {}
            BY <1>1, <2>3, <1>r, <1>v, StoreTyped, <2>1 DEF Create, Store, history, Return, Goto
        <3>. HIDE DEF v
        <3>. QED
            BY <1>1, <2>1, <2>3, <3>1, StoreTyped, ThenFileTyped
            DEF Create, TypeOK, chosen, row, files, counters
    <2>. QED  BY <1>1, <2>2, <2>3 DEF Create
<1>2. CASE Get(c)
    <2>1. CASE Return(c)
        BY <1>2, <2>1, ReturnTyped DEF Get, TypeOK, chosen, row, files, counters, history
    <2>2. CASE Goto(c, "create") /\ UNCHANGED req
        <3>1. pc' \in [Clients -> PCs]
            BY <2>2, GotoTyped DEF PCs
        <3>. QED  BY <1>2, <2>2, <3>1 DEF Get, TypeOK, chosen, row, files, counters, history
    <2>3. ASSUME NEW h \in {object, [object EXCEPT !.val = Seen(object)]},
                 Goto(c, "put"), req' = [req EXCEPT ![c].held = h]
          PROVE  TypeOK'
        <3>1. pc' \in [Clients -> PCs]
            BY <2>3, GotoTyped DEF PCs
        <3>2. h \in K8sObject
            BY <1>o, <1>v DEF K8sObject
        <3>3. [req[c] EXCEPT !.held = h] \in Request
            BY <1>r, <3>2 DEF Request
        <3>4. req' = [req EXCEPT ![c] = [req[c] EXCEPT !.held = h]]
            BY <2>3
        <3>5. req' \in [Clients -> Request]
            BY <3>3, <3>4 DEF TypeOK
        <3>. QED  BY <1>2, <3>1, <3>5 DEF Get, TypeOK, chosen, row, files, counters, history
    <2>. QED  BY <1>2, <2>1, <2>2, <2>3 DEF Get
<1>3. CASE PatchToK8s(c)
    <2>. DEFINE sent == Sent(Copy(req[c]))
                v == IF sent # 0 THEN sent ELSE object.val
    <2>1. Copy(req[c]) \in Values
        BY <1>r, <1>v DEF Copy
    <2>2. v \in Values
        BY <2>1, <1>v, <1>o
    <2>3. CASE Return(c) /\ UNCHANGED <<object, clock, history>>
        BY <1>3, <2>3, ReturnTyped DEF PatchToK8s, TypeOK, chosen, row, files, counters, history
    <2>4. CASE Store(v) /\ Answered(req[c].op, req[c].v) /\ UNCHANGED replaced
               /\ ThenFile(c, v, "file")
        <3>1. wanted' \in Values /\ savers' = {}
            BY <2>4, <1>r DEF Answered, TypeOK
        <3>. HIDE DEF v
        <3>. QED
            BY <1>3, <2>2, <2>4, <3>1, StoreTyped, ThenFileTyped
            DEF PatchToK8s, TypeOK, chosen, row, files, counters
    <2>. QED  BY <1>3, <2>3, <2>4 DEF PatchToK8s
<1>4. CASE PutWhole(c)
    <2>. DEFINE v == Sent(Copy(req[c]))
    <2>1. v \in Values
        BY <1>r, <1>v DEF Copy
    <2>2. CASE Return(c) /\ UNCHANGED <<object, clock, history>>
        BY <1>4, <2>2, ReturnTyped DEF PutWhole, TypeOK, chosen, row, files, counters, history
    <2>3. CASE Store(v) /\ Answered(req[c].op, req[c].v) /\ replaced' = TRUE
               /\ ThenFile(c, v, "file")
        <3>1. wanted' \in Values /\ savers' = {}
            BY <2>3, <1>r DEF Answered, TypeOK
        <3>. HIDE DEF v
        <3>. QED
            BY <1>4, <2>1, <2>3, <3>1, StoreTyped, ThenFileTyped
            DEF PutWhole, TypeOK, chosen, row, files, counters
    <2>. QED  BY <1>4, <2>2, <2>3 DEF PutWhole
<1>5. CASE Update(c)
    <2>1. Laid(req[c]) \in Values
        <3>1. Seen(req[c].held) \in Values
            BY <1>r, <1>v, Lost
        <3>. QED  BY <1>r, <3>1 DEF Laid
    <2>2. wanted' \in Values /\ savers' \subseteq Users
        BY <1>5, <1>r, <1>o DEF Update, Answered, TypeOK
    <2>3. object' \in K8sObject /\ clock' \in Nat
        BY <1>5, <1>o, <2>1, StoreTyped DEF Update
    <2>. QED
        BY <1>5, <2>2, <2>3, ReturnTyped DEF Update, TypeOK, chosen, row, files, counters
<1>6. CASE ScaleReplica(c)
    <2>1. (IF Asking("scale") THEN req[c].v ELSE object.val) \in Values
        BY <1>r, <1>o
    <2>2. wanted' \in Values /\ savers' \subseteq Users
        BY <1>6, <1>r, <1>o DEF ScaleReplica, Answered, TypeOK
    <2>3. object' \in K8sObject /\ clock' \in Nat
        BY <1>6, <1>o, <2>1, StoreTyped DEF ScaleReplica
    <2>4. pc' \in [Clients -> PCs] /\ req' \in [Clients -> Request]
        BY <1>6, GotoTyped, ReturnTyped DEF ScaleReplica, TypeOK, PCs
    <2>. QED
        BY <1>6, <2>2, <2>3, <2>4 DEF ScaleReplica, TypeOK, chosen, row, files, counters
<1>7. CASE GetDeployment(c)
    <2>1. pc' \in [Clients -> PCs] /\ req' \in [Clients -> Request]
        BY <1>7, <1>o, ThenFileTyped, ReturnTyped DEF GetDeployment
    <2>. QED
        BY <1>7, <2>1 DEF GetDeployment, TypeOK, chosen, row, files, counters, history
<1>8. CASE GetConfigMapK8s(c)
    <2>1. pc' \in [Clients -> PCs] /\ req' \in [Clients -> Request]
        BY <1>8, GotoTyped, ReturnTyped DEF GetConfigMapK8s, TypeOK, PCs
    <2>. QED
        BY <1>8, <2>1 DEF GetConfigMapK8s, TypeOK, chosen, row, files, counters, history
<1>9. CASE GenerateFile(c)
    <2>1. pc' \in [Clients -> PCs] /\ req' \in [Clients -> Request]
        BY <1>9, GotoTyped, ReturnTyped DEF GenerateFile, TypeOK, PCs
    <2>2. local' \in [Users -> File]
        BY <1>9, <1>r, <1>o, <1>v DEF GenerateFile
    <2>. QED
        BY <1>9, <2>1, <2>2 DEF GenerateFile, TypeOK, chosen, row, counters, history
<1>10. CASE PushItemsToRepo(c)
    <2>1. pc' \in [Clients -> PCs] /\ req' \in [Clients -> Request]
        BY <1>10, GotoTyped, ReturnTyped DEF PushItemsToRepo, TypeOK, PCs
    <2>2. repo' \in [Users -> File] /\ savers' \subseteq Users
        BY <1>10, <1>r, <1>o DEF PushItemsToRepo
    <2>. QED
        BY <1>10, <2>1, <2>2 DEF PushItemsToRepo, TypeOK, chosen, row, counters
<1>11. CASE CollaborateWithPullRequest(c)
    <2>1. pc' \in [Clients -> PCs]
        BY <1>11, GotoTyped DEF CollaborateWithPullRequest, PCs
    <2>. QED
        BY <1>11, <2>1 DEF CollaborateWithPullRequest, TypeOK, chosen, row, counters, history
<1>12. CASE UpdateStatus(c)
    BY <1>12, ReturnTyped DEF UpdateStatus, TypeOK, chosen, files, counters, history
<1>13. CASE Delete(c)
    <2>1. pc' \in [Clients -> PCs] /\ req' \in [Clients -> Request]
        BY <1>13, GotoTyped, ReturnTyped DEF Delete, TypeOK, PCs
    <2>. QED
        BY <1>13, <2>1, NullTyped DEF Delete, TypeOK, chosen, row, files, counters, history
<1>14. CASE MergeCollaborativePullRequest(c)
    <2>1. pc' \in [Clients -> PCs]
        BY <1>14, GotoTyped DEF MergeCollaborativePullRequest, PCs
    <2>2. Owner \in Users /\ Member \in Users
        BY DEF Users
    <2>m. Merged \in File
        BY <1>o, <2>2 DEF Merged
    <2>a. repo' \in [Users -> File]
        BY <1>14, <1>o, <2>2, <2>m DEF MergeCollaborativePullRequest
    <2>b. base' \in File /\ merging' \in BOOLEAN
        <3>1. base \in File /\ merging \in BOOLEAN
            BY DEF TypeOK
        <3>2. base' \in {base, repo[Member]}
            BY <1>14 DEF MergeCollaborativePullRequest
        <3>3. merging' = FALSE \/ merging' = merging
            BY <1>14 DEF MergeCollaborativePullRequest
        <3>. QED  BY <3>1, <3>2, <3>3, <1>o, <2>2
    <2>c. savers' \subseteq Users
        BY <1>14, <1>o, <2>2 DEF MergeCollaborativePullRequest
    <2>3. repo' \in [Users -> File] /\ base' \in File /\ merging' \in BOOLEAN /\ savers' \subseteq Users
        BY <2>a, <2>b, <2>c
    <2>. QED
        BY <1>14, <2>1, <2>3 DEF MergeCollaborativePullRequest, TypeOK, chosen, row, counters
<1>15. CASE DeployServiceByYaml(c)
    <2>. DEFINE v == repo[req[c].u]
    <2>1. CASE Return(c) /\ UNCHANGED <<object, clock, history>>
        BY <1>15, <2>1, ReturnTyped
        DEF DeployServiceByYaml, TypeOK, chosen, row, files, counters, history
    <2>2. CASE v # NoFile /\ Store(v) /\ Restarted(req[c].u, v) /\ UNCHANGED req
               /\ Goto(c, IF creator = req[c].u THEN "push" ELSE "running")
        <3>1. v \in Values
            BY <1>r, <1>o, <2>2 DEF File
        <3>. HIDE DEF v
        <3>2. wanted' \in Values /\ savers' \subseteq Users /\ UNCHANGED replaced
            BY <2>2, <3>1, <1>r DEF Restarted, TypeOK
        <3>3. pc' \in [Clients -> PCs]
            BY <2>2, GotoTyped DEF PCs
        <3>. QED
            BY <1>15, <2>2, <3>1, <3>2, <3>3, StoreTyped
            DEF DeployServiceByYaml, TypeOK, chosen, row, files, counters
    <2>. QED  BY <1>15, <2>1, <2>2 DEF DeployServiceByYaml
<1>. QED
    BY <1>1, <1>2, <1>3, <1>4, <1>5, <1>6, <1>7, <1>8, <1>9, <1>10, <1>11, <1>12, <1>13,
       <1>14, <1>15 DEF Step
\* A step is of one request.
LEMMA StepOfOne ==
    ASSUME TypeInv, NEW c \in Clients, Step(c) \/ CallFails(c)
    PROVE  /\ UNCHANGED <<kind, field, asks, others, overlap>>
           /\ \A d \in Clients \ {c} : pc'[d] = pc[d] /\ req'[d] = req[d]
           /\ pc[c] # "idle"
<1>. TypeOK
    BY DEF TypeInv
<1>1. UNCHANGED <<kind, field, asks, others, overlap>> /\ pc[c] # "idle"
    BY DEF Step, CallFails, Create, Get, PatchToK8s, PutWhole, Update, ScaleReplica, GetDeployment,
           GetConfigMapK8s, GenerateFile, PushItemsToRepo, CollaborateWithPullRequest, UpdateStatus,
           Delete, MergeCollaborativePullRequest, DeployServiceByYaml, chosen, counters
<1>2. ASSUME NEW d \in Clients \ {c} PROVE pc'[d] = pc[d] /\ req'[d] = req[d]
    <2>1. CASE CallFails(c) \/ Create(c) \/ Get(c) \/ PatchToK8s(c) \/ PutWhole(c)
        BY <2>1 DEF CallFails, Create, Get, PatchToK8s, PutWhole, ThenFile, Return, Goto, TypeOK
    <2>2. CASE \/ Update(c) \/ ScaleReplica(c) \/ GetDeployment(c) \/ GetConfigMapK8s(c)
               \/ GenerateFile(c) \/ PushItemsToRepo(c)
        BY <2>2 DEF Update, ScaleReplica, GetDeployment, GetConfigMapK8s, GenerateFile,
                    PushItemsToRepo, ThenFile, Return, Goto, TypeOK
    <2>3. CASE \/ CollaborateWithPullRequest(c) \/ UpdateStatus(c) \/ Delete(c)
               \/ MergeCollaborativePullRequest(c) \/ DeployServiceByYaml(c)
        BY <2>3 DEF CollaborateWithPullRequest, UpdateStatus, Delete,
                    MergeCollaborativePullRequest, DeployServiceByYaml, Return, Goto, TypeOK
    <2>. QED  BY <2>1, <2>2, <2>3 DEF Step
<1>. QED  BY <1>1, <1>2

\* What is asked for stays what the request has, until it is answered.
LEMMA RequestOfOne ==
    ASSUME TypeInv, NEW c \in Clients, Step(c) \/ CallFails(c)
    PROVE  /\ pc'[c] # "idle" => req'[c].op = req[c].op /\ req'[c].v = req[c].v /\ req'[c].u = req[c].u
           /\ pc'[c] = "idle" => req'[c] = NullRequest
           /\ pc'[c] # "find" /\ (pc'[c] = "get" => pc[c] = "find")
           /\ pc'[c] = "put" => pc[c] = "get"
           /\ pc'[c] = "deploy" => pc[c] = "merge"
           /\ pc'[c] # "merge"
<1>. TypeOK
    BY DEF TypeInv
<1>r. req[c] \in Request
    BY DEF TypeOK
<1>1. CASE CallFails(c) \/ Create(c) \/ PatchToK8s(c) \/ PutWhole(c)
    BY <1>1, <1>r DEF CallFails, Create, Get, PatchToK8s, PutWhole, ThenFile, Return, Goto, TypeOK,
                      Request
<1>2. CASE Get(c)
    BY <1>2, <1>r DEF Get, Return, Goto, TypeOK, Request
<1>3. CASE \/ Update(c) \/ ScaleReplica(c) \/ GetDeployment(c) \/ GetConfigMapK8s(c)
           \/ GenerateFile(c)
    BY <1>3, <1>r DEF Update, ScaleReplica, GetDeployment, GetConfigMapK8s, GenerateFile,
                      ThenFile, Return, Goto, TypeOK, Request
<1>4. CASE \/ PushItemsToRepo(c) \/ CollaborateWithPullRequest(c) \/ UpdateStatus(c)
           \/ Delete(c) \/ MergeCollaborativePullRequest(c) \/ DeployServiceByYaml(c)
    BY <1>4, <1>r DEF PushItemsToRepo, CollaborateWithPullRequest, UpdateStatus, Delete,
                      MergeCollaborativePullRequest, DeployServiceByYaml, Return, Goto, TypeOK
<1>. QED  BY <1>1, <1>2, <1>3, <1>4 DEF Step

LEMMA TypeInvInit == Init => TypeInv
<1>. SUFFICES ASSUME Init PROVE TypeInv
    OBVIOUS
<1>1. PICK probe \in Probes : kind = probe[1] /\ field = probe[2]
    BY DEF Init
<1>2. kind \in Kinds /\ <<kind, field>> \in Probes
    BY <1>1, ClusterObjectsAssumption
<1>3. Owner \in Users /\ NoFile \in File /\ "idle" \in PCs
    BY DEF Users, File, PCs
<1>4. asks \in 0..MaxAsks /\ others \in 0..MaxOthers /\ clock \in Nat
    BY ClusterObjectsAssumption DEF Init
<1>5. TypeOK
    <2>1. overlap \in BOOLEAN
        <3>1. CASE kind \in Shared
            BY <3>1 DEF Init
        <3>2. CASE kind \notin Shared
            BY <3>2 DEF Init
        <3>. QED  BY <3>1, <3>2
    <2>. QED  BY <2>1, <1>2, <1>3, <1>4, NullTyped DEF Init, TypeOK
<1>6. RequestInv
    BY DEF Init, RequestInv
<1>. QED  BY <1>5, <1>6 DEF TypeInv

LEMMA TypeInvNext ==
    ASSUME TypeInv, [Next]_vars
    PROVE  TypeInv'
<1>. TypeOK /\ RequestInv
    BY DEF TypeInv
<1>1. ASSUME NEW c \in Clients, NEW u \in Users, Asks(c, u) PROVE TypeInv'
    <2>1. PICK op, v, p : NewRequest(c, u, op, v, p)
        BY <1>1, AsksForOne
    <2>2. asks < MaxAsks /\ RowTyped'
        BY <1>1, AsksForOne DEF Ready
    <2>3. /\ pc' \in [Clients -> PCs] /\ req' \in [Clients -> Request] /\ asks' \in 0..MaxAsks
          /\ pc'[c] = p /\ req'[c].op = op /\ req'[c].v = v
          /\ \A d \in Clients \ {c} : pc'[d] = pc[d] /\ req'[d] = req[d]
          /\ UNCHANGED <<chosen, object, clock, files, others, overlap, history>>
        BY <2>1, <2>2, BeginTyped
    <2>4. TypeOK'
        BY <2>2, <2>3 DEF TypeOK, RowTyped, chosen, files, history
    <2>5. Asking(op)' <=> Asking(op)
        BY <2>3 DEF Asking, chosen
    <2>6. RequestInv'
        <3>. SUFFICES ASSUME NEW d \in Clients
                      PROVE  /\ pc'[d] # "idle" => req'[d].op \in OpsOf(kind)
                             /\ pc'[d] \in {"find", "get", "put"} /\ req'[d].op \in Edits
                                /\ Asking(req[d].op)' => req'[d].v # 0
                             /\ pc'[d] \in {"merge", "deploy"} => req'[d].op = "start"
            BY <2>3 DEF RequestInv, chosen
        <3>1. CASE d = c
            BY <3>1, <2>1, <2>3 DEF NewRequest, FirstSteps, Asking, chosen
        <3>2. CASE d # c
            BY <3>2, <2>3 DEF RequestInv, Asking, chosen
        <3>. QED  BY <3>1, <3>2
    <2>. QED  BY <2>4, <2>6 DEF TypeInv
<1>2. ASSUME NEW c \in Clients, Step(c) \/ CallFails(c) PROVE TypeInv'
    <2>1. TypeOK'
        <3>1. CASE Step(c)
            BY <3>1, TypeStep
        <3>2. CASE CallFails(c)
            BY <3>2, ReturnTyped DEF CallFails, TypeOK, chosen, row, files, counters, history
        <3>. QED  BY <1>2, <3>1, <3>2
    <2>2. UNCHANGED <<kind, field>> /\ pc[c] # "idle"
          /\ \A d \in Clients \ {c} : pc'[d] = pc[d] /\ req'[d] = req[d]
        BY <1>2, StepOfOne
    <2>3. RequestInv'
        <3>. SUFFICES ASSUME NEW d \in Clients
                      PROVE  /\ pc'[d] # "idle" => req'[d].op \in OpsOf(kind)
                             /\ pc'[d] \in {"find", "get", "put"} /\ req'[d].op \in Edits
                                /\ Asking(req[d].op)' => req'[d].v # 0
                             /\ pc'[d] \in {"merge", "deploy"} => req'[d].op = "start"
            BY <2>2 DEF RequestInv
        <3>1. CASE d # c
            BY <3>1, <2>2 DEF RequestInv, Asking
        <3>2. CASE d = c
            BY <3>2, <1>2, <2>2, RequestOfOne DEF RequestInv, Asking
        <3>. QED  BY <3>1, <3>2
    <2>. QED  BY <2>1, <2>3 DEF TypeInv
<1>3. CASE GetServiceListAction
    <2>1. TypeOK'
        BY <1>3 DEF GetServiceListAction, TypeOK, chosen, files, procVars, counters, history
    <2>2. RequestInv'
        BY <1>3 DEF GetServiceListAction, RequestInv, Asking, chosen, procVars
    <2>. QED  BY <2>1, <2>2 DEF TypeInv
<1>4. CASE OthersWrite
    <2>1. Fresh \in Values
        BY <1>4, ValuesTyped DEF OthersWrite
    <2>2. others' \in 0..MaxOthers
        BY <1>4, ClusterObjectsAssumption DEF OthersWrite, TypeOK
    <2>3. TypeOK'
        BY <1>4, <2>1, <2>2, StoreTyped DEF OthersWrite, TypeOK, chosen, row, files, procVars
    <2>4. RequestInv'
        BY <1>4 DEF OthersWrite, RequestInv, Asking, chosen, procVars
    <2>. QED  BY <2>3, <2>4 DEF TypeInv
<1>5. CASE UNCHANGED vars
    <2>1. TypeOK'
        BY <1>5 DEF vars, TypeOK, chosen, row, files, procVars, counters, history
    <2>2. RequestInv'
        BY <1>5 DEF vars, RequestInv, Asking, chosen, procVars
    <2>. QED  BY <2>1, <2>2 DEF TypeInv
<1>. QED  BY <1>1, <1>2, <1>3, <1>4, <1>5 DEF Next
\* Whatever requests overlap and fail, and whoever else writes, every variable has its type
\* (all operations of ClusterObjects).
THEOREM ObjectsTypeCorrect == Spec => []TypeOK
<1>1. TypeInv => TypeOK
    BY DEF TypeInv
<1>. QED  BY <1>1, TypeInvInit, TypeInvNext, PTL DEF Spec

-----------------------------------------------------------------------------
(* Versions. *)

\* What a step does to the object: nothing, or a value is stored, or the object is deleted.
LEMMA ObjectMoves ==
    ASSUME TypeInv, [Next]_vars
    PROVE  \/ UNCHANGED <<object, clock>>
           \/ \E v \in Values : Store(v)
           \/ object' = Null /\ UNCHANGED clock
<1>. TypeOK
    BY DEF TypeInv
<1>1. ASSUME NEW c \in Clients, NEW u \in Users, Asks(c, u) PROVE UNCHANGED <<object, clock>>
    BY <1>1, AsksForOne DEF NewRequest, Begin
<1>2. ASSUME NEW c \in Clients, Step(c)
      PROVE  \/ UNCHANGED <<object, clock>>
             \/ \E v \in Values : Store(v)
             \/ object' = Null /\ UNCHANGED clock
    <2>r. /\ req[c].u \in Users /\ req[c].v \in Values /\ req[c].held.val \in Values
          /\ object.val \in Values /\ repo \in [Users -> File]
        BY DEF TypeOK, Request, K8sObject
    <2>v. 0 \in Values /\ \A v \in Values : Sent(v) \in Values
        BY NullTyped, ValuesTyped
    <2>w. Copy(req[c]) \in Values /\ Laid(req[c]) \in Values
        BY <2>r, <2>v, Lost DEF Copy, Laid
    <2>1. CASE Create(c) \/ PatchToK8s(c) \/ PutWhole(c) \/ Update(c) \/ ScaleReplica(c)
        BY <2>1, <2>r, <2>v, <2>w DEF Create, PatchToK8s, PutWhole, Update, ScaleReplica
    <2>2. CASE DeployServiceByYaml(c)
        BY <2>2, <2>r DEF DeployServiceByYaml, File
    <2>3. CASE \/ Get(c) \/ GetDeployment(c) \/ GetConfigMapK8s(c) \/ GenerateFile(c)
               \/ PushItemsToRepo(c) \/ CollaborateWithPullRequest(c) \/ UpdateStatus(c)
               \/ Delete(c) \/ MergeCollaborativePullRequest(c)
        BY <2>3 DEF Get, GetDeployment, GetConfigMapK8s, GenerateFile, PushItemsToRepo,
                    CollaborateWithPullRequest, UpdateStatus, Delete, MergeCollaborativePullRequest
    <2>. QED  BY <1>2, <2>1, <2>2, <2>3 DEF Step
<1>3. CASE OthersWrite
    BY <1>3, ValuesTyped DEF OthersWrite
<1>4. CASE GetServiceListAction \/ UNCHANGED vars
    BY <1>4 DEF GetServiceListAction, vars
<1>5. ASSUME NEW c \in Clients, CallFails(c) PROVE UNCHANGED <<object, clock>>
    BY <1>5 DEF CallFails
<1>. QED  BY <1>1, <1>2, <1>3, <1>4, <1>5 DEF Next

\* A request that comes to put something has just read the object.
LEMMA PutAfterGet ==
    ASSUME TypeInv, NEW c \in Clients, Step(c) \/ CallFails(c), pc'[c] = "put"
    PROVE  /\ object.there /\ UNCHANGED <<object, clock>>
           /\ req'[c].op = req[c].op
           /\ req'[c].held = IF req[c].op = "update" THEN object
                             ELSE [object EXCEPT !.val = Seen(object)]
<1>. TypeOK
    BY DEF TypeInv
<1>1. pc[c] = "get" /\ req'[c].op = req[c].op
    BY RequestOfOne
<1>2. Get(c) \/ CallFails(c)
    BY <1>1 DEF Step, Create, PatchToK8s, PutWhole, Update, ScaleReplica, GetDeployment,
           GetConfigMapK8s, GenerateFile, PushItemsToRepo, CollaborateWithPullRequest, UpdateStatus,
           Delete, MergeCollaborativePullRequest, DeployServiceByYaml
<1>3. ~Return(c)
    BY ReturnTyped
<1>4. Get(c) /\ pc' # [pc EXCEPT ![c] = "create"]
    BY <1>2, <1>3 DEF CallFails, TypeOK
<1>5. /\ object.there /\ UNCHANGED <<object, clock>>
      /\ req' = [req EXCEPT ![c].held = IF req[c].op = "update" THEN object
                                        ELSE [object EXCEPT !.val = Seen(object)]]
    BY <1>3, <1>4 DEF Get, Goto
<1>6. req[c] \in Request
    BY DEF TypeOK
<1>7. req'[c].held = IF req[c].op = "update" THEN object ELSE [object EXCEPT !.val = Seen(object)]
    BY <1>5, <1>6 DEF TypeOK, Request
<1>. QED  BY <1>1, <1>5, <1>7

LEMMA VersionNext ==
    ASSUME TypeInv, TypeInv', VersionInv, [Next]_vars
    PROVE  VersionInv'
<1>. TypeOK /\ TypeOK'
    BY DEF TypeInv
<1>1. /\ object \in K8sObject /\ object.version \in Nat /\ clock \in Nat
      /\ \A c \in Clients : req[c].held.version \in Nat
    BY DEF TypeOK, Request, K8sObject
<1>2. object'.there => object'.version = clock'
    <2>1. CASE \E v \in Values : Store(v)
        BY <2>1, StoreTyped
    <2>. QED  BY <2>1, ObjectMoves DEF VersionInv, Null
\* What was read before stays older than what is stored now.
<1>3. ASSUME NEW d \in Clients, pc'[d] = pc[d], req'[d] = req[d], pc'[d] = "put"
      PROVE  /\ req'[d].held.version <= clock'
             /\ req'[d].op = "update" /\ object'.there /\ req'[d].held.version = object'.version =>
                    req'[d].held.val = object'.val
    <2>1. CASE UNCHANGED <<object, clock>>
        BY <2>1, <1>3 DEF VersionInv
    <2>2. CASE \E v \in Values : Store(v)
        <3>1. clock' = clock + 1 /\ object'.version = clock + 1
            BY <2>2, StoreTyped
        <3>2. req[d].held.version <= clock
            BY <1>3 DEF VersionInv
        <3>. QED  BY <3>1, <3>2, <1>1, <1>3
    <2>3. CASE object' = Null /\ UNCHANGED clock
        BY <2>3, <1>3 DEF VersionInv, Null
    <2>. QED  BY <2>1, <2>2, <2>3, ObjectMoves
<1>4. ASSUME NEW d \in Clients, pc'[d] = "put"
      PROVE  /\ req'[d].held.version <= clock'
             /\ req'[d].op = "update" /\ object'.there /\ req'[d].held.version = object'.version =>
                    req'[d].held.val = object'.val
    <2>1. ASSUME NEW c \in Clients, NEW u \in Users, Asks(c, u)
          PROVE  pc'[d] = pc[d] /\ req'[d] = req[d]
        <3>1. PICK op, v, p : NewRequest(c, u, op, v, p)
            BY <2>1, AsksForOne
        <3>2. asks < MaxAsks /\ p # "put"
            BY <2>1, <3>1, AsksForOne DEF Ready, NewRequest, FirstSteps
        <3>. QED  BY <3>1, <3>2, <1>4, BeginTyped
    <2>2. ASSUME NEW c \in Clients, Step(c) \/ CallFails(c), d # c
          PROVE  pc'[d] = pc[d] /\ req'[d] = req[d]
        BY <2>2, StepOfOne
    <2>3. ASSUME Step(d) \/ CallFails(d)
          PROVE  /\ req'[d].held.version <= clock'
                 /\ req'[d].op = "update" => req'[d].held.val = object'.val
        <3>1. /\ object.there /\ UNCHANGED <<object, clock>>
              /\ req'[d].op = req[d].op
              /\ req'[d].held = IF req[d].op = "update" THEN object
                                ELSE [object EXCEPT !.val = Seen(object)]
            BY <1>4, <2>3, PutAfterGet
        <3>2. req'[d].held.version = object.version
            BY <3>1, <1>1 DEF K8sObject
        <3>. QED  BY <3>1, <3>2, <1>1 DEF VersionInv
    <2>4. CASE GetServiceListAction \/ OthersWrite \/ UNCHANGED vars
        BY <2>4, <1>3, <1>4 DEF GetServiceListAction, OthersWrite, vars, procVars
    <2>. QED  BY <2>1, <2>2, <2>3, <2>4, <1>3, <1>4 DEF Next
<1>. QED  BY <1>2, <1>4 DEF VersionInv
-----------------------------------------------------------------------------
(* Files, and requests that do not overlap. *)

LEMMA FileNext ==
    ASSUME TypeInv, TypeInv', FileInv, [Next]_vars
    PROVE  FileInv'
<1>. TypeOK /\ TypeOK'
    BY DEF TypeInv
<1>w. UNCHANGED <<kind, field>>
    <2>1. ASSUME NEW c \in Clients, NEW u \in Users, Asks(c, u) PROVE UNCHANGED <<kind, field>>
        BY <2>1, AsksForOne DEF NewRequest, Begin, chosen
    <2>. QED
        BY <2>1, StepOfOne DEF Next, vars, chosen, GetServiceListAction, OthersWrite
<1>. SUFFICES ASSUME ~Within(field, ThisClient.file)
              PROVE  /\ \A c \in Clients : req'[c].file = 0
                     /\ \A u \in Users : local'[u] \in {0, NoFile} /\ repo'[u] \in {0, NoFile}
    BY <1>w DEF FileInv, ThisClient
<1>f. /\ \A c \in Clients : req[c].file = 0
      /\ \A u \in Users : local[u] \in {0, NoFile} /\ repo[u] \in {0, NoFile}
    BY DEF FileInv
<1>u. Owner \in Users /\ Member \in Users
    BY DEF Users
<1>1. ASSUME NEW c \in Clients, NEW u \in Users, Asks(c, u)
      PROVE  UNCHANGED files /\ \A d \in Clients : req'[d].file = 0
    <2>1. PICK op, v, p : NewRequest(c, u, op, v, p)
        BY <1>1, AsksForOne
    <2>2. asks < MaxAsks
        BY <1>1, AsksForOne DEF Ready
    <2>. QED  BY <2>1, <2>2, <1>f, BeginTyped
<1>2. ASSUME NEW c \in Clients, Step(c) \/ CallFails(c)
      PROVE  \A d \in Clients : req'[d].file = 0
    <2>1. \A d \in Clients \ {c} : req'[d].file = 0
        BY <1>2, <1>f, StepOfOne
    <2>. SUFFICES req'[c].file = 0
        BY <2>1
    <2>2. req[c] \in Request /\ object.val \in Values /\ req[c].file = 0
        BY <1>f DEF TypeOK, K8sObject
    <2>3. ASSUME NEW v, ThenFile(c, v, "file") PROVE req'[c].file = 0
        <3>1. CASE OfService
            <4>1. ConfigOf(v) = 0
                BY <3>1 DEF ConfigOf, Written
            <4>2. req' = [req EXCEPT ![c].file = 0]
                BY <2>3, <3>1, <4>1 DEF ThenFile
            <4>3. 0 \in Values
                BY NullTyped
            <4>. QED  BY <4>2, <4>3, FileTyped
        <3>2. CASE ~OfService
            BY <2>3, <3>2, ReturnTyped, NullFields DEF ThenFile
        <3>. QED  BY <3>1, <3>2
    <2>4. CASE Return(c) \/ req' = req
        BY <2>2, <2>4, ReturnTyped, NullFields
    <2>5. CASE Get(c)
        <3>1. ASSUME NEW h, req' = [req EXCEPT ![c].held = h] PROVE req'[c].file = 0
            BY <3>1, <2>2 DEF Request, TypeOK
        <3>. QED  BY <2>4, <2>5, <3>1 DEF Get
    <2>6. CASE Create(c) \/ PatchToK8s(c) \/ PutWhole(c)
        BY <2>6, <2>3, <2>4 DEF Create, PatchToK8s, PutWhole
    <2>7. CASE CallFails(c) \/ Update(c) \/ ScaleReplica(c) \/ GetConfigMapK8s(c)
        BY <2>7, <2>4 DEF CallFails, Update, ScaleReplica, GetConfigMapK8s
    <2>8. CASE GetDeployment(c)
        BY <2>8, <2>3, <2>4 DEF GetDeployment
    <2>9. CASE GenerateFile(c) \/ PushItemsToRepo(c) \/ CollaborateWithPullRequest(c)
        BY <2>9, <2>4 DEF GenerateFile, PushItemsToRepo, CollaborateWithPullRequest
    <2>10. CASE \/ UpdateStatus(c) \/ Delete(c) \/ MergeCollaborativePullRequest(c)
                \/ DeployServiceByYaml(c)
        BY <2>10, <2>4 DEF UpdateStatus, Delete, MergeCollaborativePullRequest, DeployServiceByYaml
    <2>. QED  BY <1>2, <2>5, <2>6, <2>7, <2>8, <2>9, <2>10 DEF Step
<1>3. ASSUME NEW c \in Clients, Step(c) \/ CallFails(c)
      PROVE  \A u \in Users : local'[u] \in {0, NoFile} /\ repo'[u] \in {0, NoFile}
    <2>1. req[c].file = 0 /\ req[c].u \in Users
        BY <1>f DEF TypeOK, Request
    <2>2. CASE GenerateFile(c)
        BY <2>2, <2>1, <1>f DEF GenerateFile, TypeOK
    <2>3. CASE PushItemsToRepo(c)
        BY <2>3, <2>1, <1>f DEF PushItemsToRepo, TypeOK
    <2>4. CASE MergeCollaborativePullRequest(c)
        BY <2>4, <1>u, <1>f DEF MergeCollaborativePullRequest, Merged, TypeOK
    <2>5. CASE CollaborateWithPullRequest(c)
        BY <2>5, <1>f DEF CollaborateWithPullRequest
    <2>6. CASE UNCHANGED files
        BY <2>6, <1>f DEF files
    <2>7. CASE \/ CallFails(c) \/ Create(c) \/ Get(c) \/ PatchToK8s(c) \/ PutWhole(c) \/ Update(c)
               \/ ScaleReplica(c) \/ GetDeployment(c) \/ GetConfigMapK8s(c) \/ UpdateStatus(c)
               \/ Delete(c) \/ DeployServiceByYaml(c)
        BY <2>6, <2>7 DEF CallFails, Create, Get, PatchToK8s, PutWhole, Update, ScaleReplica,
           GetDeployment, GetConfigMapK8s, UpdateStatus, Delete, DeployServiceByYaml
    <2>. QED  BY <1>3, <2>2, <2>3, <2>4, <2>5, <2>7 DEF Step
<1>4. CASE GetServiceListAction \/ OthersWrite \/ UNCHANGED vars
    BY <1>4, <1>f DEF GetServiceListAction, OthersWrite, vars, procVars, files
<1>. QED  BY <1>1, <1>2, <1>3, <1>4, <1>f DEF Next, files

LEMMA OneNext ==
    ASSUME TypeInv, OneAtATime, [Next]_vars
    PROVE  OneAtATime'
<1>. TypeOK
    BY DEF TypeInv
<1>1. ASSUME NEW c \in Clients, NEW u \in Users, Asks(c, u) PROVE OneAtATime'
    <2>1. PICK op, v, p : NewRequest(c, u, op, v, p)
        BY <1>1, AsksForOne
    <2>2. Ready(c)
        BY <1>1, AsksForOne
    <2>3. UNCHANGED overlap /\ \A d \in Clients \ {c} : pc'[d] = pc[d]
        BY <2>1, <2>2, BeginTyped DEF Ready
    <2>. QED  BY <2>2, <2>3 DEF Ready, OneAtATime
<1>2. ASSUME NEW c \in Clients, Step(c) \/ CallFails(c) PROVE OneAtATime'
    BY <1>2, StepOfOne DEF OneAtATime
<1>3. CASE GetServiceListAction \/ OthersWrite \/ UNCHANGED vars
    BY <1>3 DEF GetServiceListAction, OthersWrite, vars, procVars, counters, OneAtATime
<1>. QED  BY <1>1, <1>2, <1>3 DEF Next

\* While requests do not overlap, what a request knows of the object and of its file is so.
LEMMA CopyNext ==
    ASSUME TypeInv, TypeInv', ObjectInv, [Next]_vars
    PROVE  CopyInv'
<1>. TypeOK /\ TypeOK' /\ OneAtATime /\ CopyInv
    BY DEF TypeInv, ObjectInv
<1>. DEFINE
    Good(c) == /\ pc'[c] = "put" /\ req'[c].op # "update" =>
                      object'.there /\ req'[c].held.val = Seen(object)'
               /\ pc'[c] = "file" => /\ object'.there
                                     /\ req'[c].file = Written(object.val, ThisClient.file)'
               /\ pc'[c] = "push" /\ req'[c].op # "start" =>
                      object'.there /\ local'[req'[c].u] = Written(object.val, ThisClient.file)'
<1>. SUFFICES ASSUME ~overlap', NEW d \in Clients PROVE Good(d)
    BY DEF CopyInv
<1>1. ASSUME NEW c \in Clients, NEW u \in Users, Asks(c, u) PROVE Good(d)
    <2>1. PICK op, v, p : NewRequest(c, u, op, v, p)
        BY <1>1, AsksForOne
    <2>2. Ready(c)
        BY <1>1, AsksForOne
    <2>3. UNCHANGED overlap /\ pc'[c] = p /\ \A e \in Clients \ {c} : pc'[e] = pc[e]
        BY <2>1, <2>2, BeginTyped DEF Ready
    <2>4. pc'[d] \in FirstSteps \cup {"idle"}
        BY <2>1, <2>2, <2>3 DEF Ready, NewRequest
    <2>. QED  BY <2>4 DEF FirstSteps
<1>2. ASSUME NEW c \in Clients, Step(c) \/ CallFails(c) PROVE Good(d)
    <2>o. /\ UNCHANGED <<kind, field, overlap>> /\ pc[c] # "idle"
          /\ \A e \in Clients \ {c} : pc'[e] = pc[e]
        BY <1>2, StepOfOne
    <2>i. CASE d # c
        <3>1. pc'[d] = "idle"
            BY <2>i, <2>o DEF OneAtATime
        <3>. QED  BY <3>1
    <2>w. \A v : Written(v, ThisClient.file)' = Written(v', ThisClient.file)
        BY <2>o DEF Written, ThisClient
    <2>r. /\ pc'[c] # "idle" => req'[c].op = req[c].op /\ req'[c].u = req[c].u
          /\ req[c] \in Request /\ req[c].u \in Users /\ object \in K8sObject
        BY <1>2, RequestOfOne DEF TypeOK, Request
    <2>p. ASSUME pc'[c] = "put", req'[c].op # "update"
          PROVE  object'.there /\ req'[c].held.val = Seen(object)'
        <3>1. /\ object.there /\ UNCHANGED object
              /\ req'[c].held = [object EXCEPT !.val = Seen(object)]
            BY <1>2, <2>p, PutAfterGet
        <3>2. Seen(object)' = Seen(object)
            BY <3>1, <2>o DEF Seen, Written, ThisClient
        <3>. QED  BY <3>1, <3>2, <2>r DEF K8sObject
    <2>f. ASSUME pc'[c] = "file"
          PROVE  object'.there /\ req'[c].file = Written(object.val, ThisClient.file)'
        <3>1. ~Return(c) /\ Step(c)
            BY <1>2, <2>f, ReturnTyped DEF CallFails
        <3>2. ASSUME NEW v \in Values, Store(v), ThenFile(c, v, "file")
              PROVE  object'.there /\ req'[c].file = Written(object.val, ThisClient.file)'
            BY <3>2, <2>f, <2>o, StoreTyped, ThenFileTyped DEF Written, ThisClient
        <3>v. /\ 0 \in Values /\ object.val \in Values /\ req[c].v \in Values
              /\ req[c].held.val \in Values /\ \A v \in Values : Sent(v) \in Values
            BY NullTyped, ValuesTyped, <2>r DEF Request, K8sObject
        <3>x. Copy(req[c]) \in Values
            BY <3>v DEF Copy
        <3>3. CASE Create(c) \/ PatchToK8s(c) \/ PutWhole(c)
            BY <3>1, <3>2, <3>3, <3>v, <3>x DEF Create, PatchToK8s, PutWhole
        <3>4. CASE GetDeployment(c)
            BY <3>1, <3>4, <3>v, <2>f, <2>o, ThenFileTyped DEF GetDeployment, Written, ThisClient
        <3>5. CASE \/ Get(c) \/ Update(c) \/ ScaleReplica(c) \/ GetConfigMapK8s(c)
                   \/ GenerateFile(c) \/ PushItemsToRepo(c) \/ CollaborateWithPullRequest(c)
            BY <3>1, <3>5, <2>f DEF Get, Update, ScaleReplica, GetConfigMapK8s, GenerateFile,
                              PushItemsToRepo, CollaborateWithPullRequest, Goto, TypeOK
        <3>6. CASE \/ UpdateStatus(c) \/ Delete(c) \/ MergeCollaborativePullRequest(c)
                   \/ DeployServiceByYaml(c)
            BY <3>1, <3>6, <2>f DEF UpdateStatus, Delete, MergeCollaborativePullRequest,
                              DeployServiceByYaml, Goto, TypeOK
        <3>. QED  BY <3>1, <3>3, <3>4, <3>5, <3>6 DEF Step
    <2>u. ASSUME pc'[c] = "push", req'[c].op # "start"
          PROVE  object'.there /\ local'[req'[c].u] = Written(object.val, ThisClient.file)'
        <3>1. ~Return(c) /\ Step(c) /\ req[c].op # "start"
            BY <1>2, <2>u, <2>r, ReturnTyped DEF CallFails
        <3>2. CASE GenerateFile(c)
            <4>1. /\ pc[c] = "file" /\ local' = [local EXCEPT ![req[c].u] = req[c].file]
                  /\ UNCHANGED <<object, req>>
                BY <3>1, <3>2 DEF GenerateFile
            <4>2. object.there /\ req[c].file = Written(object.val, ThisClient.file)
                BY <4>1, <2>o DEF CopyInv
            <4>. QED  BY <4>1, <4>2, <2>r, <2>o DEF TypeOK, Written, ThisClient
        <3>3. CASE DeployServiceByYaml(c)
            BY <3>1, <3>3 DEF DeployServiceByYaml, RequestInv, TypeInv
        <3>4. CASE Create(c) \/ PatchToK8s(c) \/ PutWhole(c) \/ GetDeployment(c)
            BY <3>1, <3>4, <2>u DEF Create, PatchToK8s, PutWhole, GetDeployment, ThenFile, Goto, TypeOK
        <3>5. CASE \/ Get(c) \/ Update(c) \/ ScaleReplica(c) \/ GetConfigMapK8s(c)
                   \/ PushItemsToRepo(c) \/ CollaborateWithPullRequest(c)
            BY <3>1, <3>5, <2>u DEF Get, Update, ScaleReplica, GetConfigMapK8s,
                              PushItemsToRepo, CollaborateWithPullRequest, Goto, TypeOK
        <3>6. CASE UpdateStatus(c) \/ Delete(c) \/ MergeCollaborativePullRequest(c)
            BY <3>1, <3>6, <2>u DEF UpdateStatus, Delete, MergeCollaborativePullRequest, Goto, TypeOK
        <3>. QED  BY <3>1, <3>2, <3>3, <3>4, <3>5, <3>6 DEF Step
    <2>. QED  BY <2>i, <2>p, <2>f, <2>u
<1>3. CASE OthersWrite
    <2>1. pc'[d] = "idle"
        BY <1>3 DEF OthersWrite, procVars
    <2>. QED  BY <2>1
<1>4. CASE GetServiceListAction \/ UNCHANGED vars
    <2>1. UNCHANGED <<kind, field, object, pc, req, local, overlap>>
        BY <1>4 DEF GetServiceListAction, vars, chosen, procVars, files, counters
    <2>. QED  BY <2>1 DEF CopyInv, Seen, Written, ThisClient
<1>. QED  BY <1>1, <1>2, <1>3, <1>4 DEF Next
-----------------------------------------------------------------------------
(* What the field should be. *)

\* A strategic merge of a copy that is the object changes nothing but what was asked for.
LEMMA PatchKeeps ==
    ASSUME TypeInv, ObjectInv, NEW c \in Clients, PatchToK8s(c), object.there,
           ~overlap \/ kind \in {"HorizontalPodAutoscaler", "ConfigMap"}
    PROVE  LET sent == Sent(Copy(req[c])) IN
           (IF sent # 0 THEN sent ELSE object.val) = IF Asking(req[c].op) THEN req[c].v ELSE object.val
<1>. TypeOK
    BY DEF TypeInv
<1>1. pc[c] = "put" /\ req[c].op \in Edits /\ req[c].op \in OpsOf(kind) /\ req[c].op # "update"
    BY DEF PatchToK8s, TypeInv, RequestInv, Edits
<1>2. ~overlap
    BY <1>1, VersionedOps DEF PatchToK8s
<1>3. req[c].held.val = Seen(object)
    BY <1>1, <1>2 DEF ObjectInv, CopyInv
<1>4. CASE Asking(req[c].op)
    <2>v. req[c].v # 0
        BY <1>1, <1>4 DEF TypeInv, RequestInv
    <2>1. Within(field, ThisClient.to)
        BY <1>1, <1>4, Conversions
    <2>2. Copy(req[c]) = req[c].v
        BY <1>4 DEF Copy
    <2>. QED  BY <1>4, <2>v, <2>1, <2>2, Kept
<1>5. CASE ~Asking(req[c].op)
    <2>1. Copy(req[c]) \in {0, object.val}
        BY <1>3, <1>5, Lost DEF Copy
    <2>2. Sent(Copy(req[c])) \in {0, object.val}
        BY <2>1, Lost
    <2>. QED  BY <1>5, <2>2
<1>. QED  BY <1>4, <1>5

\* A copy put in the place of the object changes nothing else of a field that is read and sent.
LEMMA PutKeeps ==
    ASSUME TypeInv, ObjectInv, NEW c \in Clients, PutWhole(c), object.there,
           ~overlap \/ kind \in {"HorizontalPodAutoscaler", "ConfigMap"},
           Within(field, RoundTrip)
    PROVE  Sent(Copy(req[c])) = IF Asking(req[c].op) THEN req[c].v ELSE object.val
<1>. TypeOK
    BY DEF TypeInv
<1>1. pc[c] = "put" /\ req[c].op \in OpsOf(kind) /\ req[c].op \in {"nodeGroup", "put", "touch"}
    BY DEF PutWhole, TypeInv, RequestInv
<1>2. ~overlap
    BY <1>1, VersionedOps
<1>3. req[c].held.val = Seen(object)
    BY <1>1, <1>2 DEF ObjectInv, CopyInv
<1>4. /\ Within(field, ThisClient.to) /\ Within(field, ThisClient.from)
      /\ Within(field, ThisClient.room)
    BY Conversions
<1>5. Copy(req[c]) = IF Asking(req[c].op) THEN req[c].v ELSE req[c].held.val
    BY <1>1 DEF Copy
<1>. QED  BY <1>3, <1>4, <1>5, Kept

\* What is laid over the object of the version that was read is what was asked for, or there.
LEMMA LaidKeeps ==
    ASSUME TypeInv, VersionInv, NEW c \in Clients, pc[c] = "put", req[c].op = "update",
           object.there, object.version = req[c].held.version
    PROVE  Laid(req[c]) = IF Asking("update") THEN req[c].v ELSE object.val
<1>. TypeOK
    BY DEF TypeInv
<1>1. req[c].held.val = object.val
    BY DEF VersionInv
<1>2. CASE kind = "Node" /\ Within(field, ThisClient.laid)
    <2>1. Seen(req[c].held) = req[c].held.val
        BY <1>2, Conversions, Kept
    <2>. QED  BY <1>1, <1>2, <2>1 DEF Laid
<1>3. CASE ~(kind = "Node" /\ Within(field, ThisClient.laid))
    BY <1>1, <1>3 DEF Laid
<1>. QED  BY <1>2, <1>3

\* What a new object has of the field is what was asked for.
LEMMA CreateKeeps ==
    ASSUME TypeInv, Asking("create"), NEW v
    PROVE  Sent(v) = v
<1>. TypeOK
    BY DEF TypeInv
<1>1. "create" \in OpsOf(kind)
    BY DEF OpsOf
<1>. QED  BY <1>1, Conversions, Kept

\* The file a service is started from has what its last user saved, or what it is to be.
LEMMA StartKeeps ==
    ASSUME TypeInv, ObjectInv, NEW c \in Clients, pc[c] = "deploy",
           ~overlap \/ kind \in {"HorizontalPodAutoscaler", "ConfigMap"},
           req[c].u \in savers, Within(field, ThisClient.file)
    PROVE  repo[req[c].u] = wanted \/ (replaced /\ ~Within(field, RoundTrip))
<1>. TypeOK
    BY DEF TypeInv
<1>1. req[c].op = "start" /\ req[c].op \in OpsOf(kind)
    BY DEF TypeInv, RequestInv
<1>2. ~overlap
    BY <1>1, VersionedOps
<1>. QED  BY <1>2 DEF ObjectInv, RepositoryHasObject, Written

LEMMA AskedNext ==
    ASSUME TypeInv, TypeInv', ObjectInv, [Next]_vars
    PROVE  AskedIsKept'
<1>. TypeOK /\ AskedIsKept /\ VersionInv
    BY DEF TypeInv, ObjectInv
<1>. DEFINE Lossy == replaced /\ ~Within(field, RoundTrip)
<1>1. ASSUME NEW c \in Clients, NEW u \in Users, Asks(c, u) PROVE AskedIsKept'
    BY <1>1, AsksForOne
    DEF NewRequest, Begin, AskedIsKept, chosen, history, RoundTrip, ThisClient
<1>2. ASSUME NEW c \in Clients, Step(c) PROVE AskedIsKept'
    <2>o. UNCHANGED <<kind, field, overlap>>
        BY <1>2, StepOfOne
    <2>w. Within(field, RoundTrip)' <=> Within(field, RoundTrip)
        BY <2>o DEF RoundTrip, ThisClient
    <2>. SUFFICES ASSUME object'.there, ~overlap \/ kind \in {"HorizontalPodAutoscaler", "ConfigMap"}
                  PROVE  object'.val = wanted' \/ (replaced' /\ ~Within(field, RoundTrip))
        BY <2>o, <2>w DEF AskedIsKept
    <2>k. object.there => object.val = wanted \/ Lossy
        BY DEF AskedIsKept
    <2>1. CASE UNCHANGED <<object, wanted, replaced>>
        BY <2>1, <2>k
    <2>2. CASE Create(c)
        <3>1. CASE ~object.there
            <4>. DEFINE v == IF Asking("create") THEN Sent(req[c].v) ELSE 0
            <4>1. Store(v) /\ wanted' = IF Asking("create") THEN req[c].v ELSE 0
                BY <2>2, <3>1 DEF Create
            <4>2. object'.val = v
                BY <4>1 DEF Store
            <4>. QED  BY <4>1, <4>2, CreateKeeps
        <3>2. CASE object.there
            BY <2>1, <2>2, <3>2 DEF Create, history
        <3>. QED  BY <3>1, <3>2
    <2>3. CASE PatchToK8s(c)
        <3>. DEFINE sent == Sent(Copy(req[c]))
        <3>1. CASE object.there
            <4>1. Store(IF sent # 0 THEN sent ELSE object.val) /\ Answered(req[c].op, req[c].v)
                  /\ UNCHANGED replaced
                BY <2>3, <3>1 DEF PatchToK8s
            <4>2. object'.val = IF Asking(req[c].op) THEN req[c].v ELSE object.val
                BY <2>3, <3>1, <4>1, PatchKeeps DEF Store
            <4>. QED  BY <3>1, <4>1, <4>2, <2>k DEF Answered
        <3>2. CASE ~object.there
            BY <2>1, <2>3, <3>2 DEF PatchToK8s, history
        <3>. QED  BY <3>1, <3>2
    <2>4. CASE PutWhole(c)
        <3>1. CASE object.there /\ Within(field, RoundTrip)
            <4>1. Store(Sent(Copy(req[c]))) /\ Answered(req[c].op, req[c].v) /\ replaced' = TRUE
                BY <2>4, <3>1 DEF PutWhole
            <4>2. object'.val = IF Asking(req[c].op) THEN req[c].v ELSE object.val
                BY <2>4, <3>1, <4>1, PutKeeps DEF Store
            <4>. QED  BY <3>1, <4>1, <4>2, <2>k DEF Answered
        <3>2. CASE object.there /\ ~Within(field, RoundTrip)
            BY <2>4, <3>2 DEF PutWhole
        <3>3. CASE ~object.there
            BY <2>1, <2>4, <3>3 DEF PutWhole, history
        <3>. QED  BY <3>1, <3>2, <3>3
    <2>5. CASE Update(c)
        <3>1. CASE object.there /\ object.version = req[c].held.version
            <4>1. Store(Laid(req[c])) /\ Answered("update", req[c].v) /\ UNCHANGED replaced
                BY <2>5, <3>1 DEF Update
            <4>2. object'.val = IF Asking("update") THEN req[c].v ELSE object.val
                BY <2>5, <3>1, <4>1, LaidKeeps DEF Store, Update
            <4>. QED  BY <3>1, <4>1, <4>2, <2>k DEF Answered
        <3>2. CASE ~(object.there /\ object.version = req[c].held.version)
            BY <2>1, <2>5, <3>2 DEF Update
        <3>. QED  BY <3>1, <3>2
    <2>6. CASE ScaleReplica(c)
        BY <2>1, <2>6, <2>k DEF ScaleReplica, Store, Answered
    <2>7. CASE DeployServiceByYaml(c)
        <3>. DEFINE u == req[c].u
        <3>1. CASE Store(repo[u]) /\ Restarted(u, repo[u])
            BY <2>7, <3>1, StartKeeps DEF Store, Restarted, DeployServiceByYaml
        <3>. QED  BY <2>1, <2>7, <3>1 DEF DeployServiceByYaml, history
    <2>8. CASE Delete(c)
        BY <2>8 DEF Delete, Null
    <2>9. CASE \/ Get(c) \/ GetDeployment(c) \/ GetConfigMapK8s(c) \/ GenerateFile(c)
               \/ PushItemsToRepo(c) \/ CollaborateWithPullRequest(c) \/ UpdateStatus(c)
               \/ MergeCollaborativePullRequest(c)
        BY <2>1, <2>9 DEF Get, GetDeployment, GetConfigMapK8s, GenerateFile, PushItemsToRepo,
           CollaborateWithPullRequest, UpdateStatus, MergeCollaborativePullRequest, history
    <2>. QED
        BY <1>2, <2>2, <2>3, <2>4, <2>5, <2>6, <2>7, <2>8, <2>9 DEF Step
<1>3. ASSUME NEW c \in Clients, CallFails(c) PROVE AskedIsKept'
    BY <1>3 DEF CallFails, AskedIsKept, chosen, counters, history, RoundTrip, ThisClient
<1>4. CASE OthersWrite
    BY <1>4 DEF OthersWrite, Store, AskedIsKept
<1>5. CASE GetServiceListAction \/ UNCHANGED vars
    BY <1>5 DEF GetServiceListAction, vars, AskedIsKept, chosen, counters, history, RoundTrip,
                ThisClient
<1>. QED  BY <1>1, <1>2, <1>3, <1>4, <1>5 DEF Next
-----------------------------------------------------------------------------
(* What the repositories have. *)

LEMMA RepositoryNext ==
    ASSUME TypeInv, TypeInv', ObjectInv, [Next]_vars
    PROVE  RepositoryHasObject'
<1>. TypeOK /\ RepositoryHasObject /\ FileInv
    BY DEF TypeInv, ObjectInv
<1>. DEFINE
    Saved(v) == v = Written(wanted, ThisClient.file) \/ (replaced /\ ~Within(field, RoundTrip))
<1>0. ASSUME UNCHANGED <<kind, field, overlap, repo, wanted, replaced, savers>>
      PROVE  RepositoryHasObject'
    <2>1. /\ Within(field, RoundTrip)' <=> Within(field, RoundTrip)
          /\ Written(wanted, ThisClient.file)' = Written(wanted, ThisClient.file)
        BY <1>0 DEF RoundTrip, ThisClient, Written
    <2>. QED  BY <1>0, <2>1 DEF RepositoryHasObject
<1>1. ASSUME NEW c \in Clients, NEW u \in Users, Asks(c, u) PROVE RepositoryHasObject'
    BY <1>0, <1>1, AsksForOne DEF NewRequest, Begin, chosen, files, history
<1>2. ASSUME NEW c \in Clients, Step(c) PROVE RepositoryHasObject'
    <2>o. UNCHANGED <<kind, field, overlap>>
        BY <1>2, StepOfOne
    <2>w. /\ Within(field, RoundTrip)' <=> Within(field, RoundTrip)
          /\ Written(wanted, ThisClient.file)' = Written(wanted', ThisClient.file)
        BY <2>o DEF RoundTrip, ThisClient, Written
    <2>. SUFFICES ASSUME ~overlap, NEW u \in Users, u \in savers'
                  PROVE  \/ repo'[u] = Written(wanted', ThisClient.file)
                         \/ replaced' /\ ~Within(field, RoundTrip)
        BY <2>o, <2>w, <1>2, TypeInvNext DEF RepositoryHasObject, TypeInv, TypeOK
    <2>k. \A s \in savers : Saved(repo[s])
        BY DEF RepositoryHasObject
    <2>r. /\ req[c].u \in Users /\ repo \in [Users -> File] /\ local \in [Users -> File]
          /\ Owner \in Users /\ Member \in Users
        BY DEF TypeOK, Request, Users
    <2>1. CASE UNCHANGED <<repo, history>>
        BY <2>1, <2>k DEF history
    <2>2. CASE savers' = {}
        BY <2>2
    <2>3. CASE Create(c) \/ PatchToK8s(c) \/ PutWhole(c)
        BY <2>1, <2>2, <2>3 DEF Create, PatchToK8s, PutWhole, Answered, files, history
    <2>4. CASE Update(c) \/ ScaleReplica(c)
        BY <2>1, <2>2, <2>4 DEF Update, ScaleReplica, Answered, files, history
    <2>5. CASE PushItemsToRepo(c)
        <3>1. CASE UNCHANGED <<repo, savers>>
            BY <2>1, <2>5, <3>1 DEF PushItemsToRepo, history
        <3>2. CASE /\ repo' = [repo EXCEPT ![req[c].u] = local[req[c].u]]
                   /\ req[c].op # "start" /\ savers' = {req[c].u}
            <4>1. object.there /\ local[req[c].u] = Written(object.val, ThisClient.file)
                BY <2>5, <3>2 DEF PushItemsToRepo, ObjectInv, CopyInv
            <4>2. object.val = wanted \/ (replaced /\ ~Within(field, RoundTrip))
                BY <4>1 DEF ObjectInv, AskedIsKept
            <4>3. UNCHANGED <<wanted, replaced>> /\ u = req[c].u
                BY <2>5, <3>2 DEF PushItemsToRepo
            <4>. QED  BY <3>2, <4>1, <4>2, <4>3, <2>r
        <3>3. CASE /\ repo' = [repo EXCEPT ![req[c].u] = local[req[c].u]]
                   /\ savers' = IF repo[req[c].u] = local[req[c].u] THEN savers
                                ELSE savers \ {req[c].u}
            <4>1. repo'[u] = repo[u] /\ u \in savers
                BY <3>3, <2>r
            <4>2. UNCHANGED <<wanted, replaced>>
                BY <2>5 DEF PushItemsToRepo
            <4>. QED  BY <4>1, <4>2, <2>k
        <3>. QED  BY <2>5, <3>1, <3>2, <3>3 DEF PushItemsToRepo
    <2>6. CASE MergeCollaborativePullRequest(c)
        <3>0. UNCHANGED <<wanted, replaced>>
            BY <2>6 DEF MergeCollaborativePullRequest
        <3>1. CASE UNCHANGED <<repo, savers>>
            BY <3>0, <3>1, <2>k
        <3>2. CASE /\ repo' = [repo EXCEPT ![Owner] = Merged]
                   /\ Merged = repo[Owner] /\ savers' = savers
            BY <3>0, <3>2, <2>k, <2>r
        \* What was merged is the fork's, and its user saved it or nobody did.
        <3>3. CASE /\ repo' = [repo EXCEPT ![Owner] = Merged]
                   /\ Merged # repo[Owner]
                   /\ savers' = (savers \ {Owner}) \cup (IF Member \in savers THEN {Owner} ELSE {})
            <4>1. Merged = repo[Member]
                BY <3>3 DEF Merged
            <4>2. CASE u = Owner
                BY <3>0, <3>3, <4>1, <4>2, <2>k, <2>r
            <4>3. CASE u # Owner
                BY <3>0, <3>3, <4>3, <2>k, <2>r
            <4>. QED  BY <4>2, <4>3
        <3>. QED  BY <2>6, <3>1, <3>2, <3>3 DEF MergeCollaborativePullRequest
    <2>7. CASE DeployServiceByYaml(c)
        <3>. DEFINE s == req[c].u
        <3>1. CASE UNCHANGED history
            BY <2>1, <2>7, <3>1 DEF DeployServiceByYaml, files
        <3>2. CASE repo[s] # NoFile /\ Restarted(s, repo[s])
            <4>0. UNCHANGED <<repo, replaced>>
                BY <2>7, <3>2 DEF DeployServiceByYaml, Restarted, files
            <4>1. CASE s \in savers
                <5>1. savers' = savers
                      /\ Written(wanted', ThisClient.file) = Written(wanted, ThisClient.file)
                    BY <3>2, <4>1 DEF Restarted, Written
                <5>. QED  BY <4>0, <5>1, <2>k
            <4>2. CASE s \notin savers
                <5>1. u = s /\ wanted' = repo[s]
                    BY <3>2, <4>2 DEF Restarted
                <5>2. ~Within(field, ThisClient.file) => repo[s] = 0
                    BY <3>2, <2>r DEF FileInv
                <5>. QED  BY <4>0, <5>1, <5>2 DEF Written
            <4>. QED  BY <4>1, <4>2
        <3>. QED  BY <2>7, <3>1, <3>2 DEF DeployServiceByYaml
    <2>8. CASE Get(c) \/ GetDeployment(c) \/ GetConfigMapK8s(c) \/ Delete(c) \/ UpdateStatus(c)
        BY <2>1, <2>8 DEF Get, GetDeployment, GetConfigMapK8s, Delete, UpdateStatus, files
    <2>9. CASE GenerateFile(c) \/ CollaborateWithPullRequest(c)
        BY <2>1, <2>9 DEF GenerateFile, CollaborateWithPullRequest
    <2>. QED  BY <1>2, <2>3, <2>4, <2>5, <2>6, <2>7, <2>8, <2>9 DEF Step
<1>3. ASSUME NEW c \in Clients, CallFails(c) PROVE RepositoryHasObject'
    BY <1>0, <1>3 DEF CallFails, chosen, files, counters, history
<1>4. CASE OthersWrite
    BY <1>4 DEF OthersWrite, RepositoryHasObject
<1>5. CASE GetServiceListAction \/ UNCHANGED vars
    BY <1>0, <1>5 DEF GetServiceListAction, vars, chosen, files, counters, history
<1>. QED  BY <1>1, <1>2, <1>3, <1>4, <1>5 DEF Next

-----------------------------------------------------------------------------
LEMMA ObjectInvInit == Init => ObjectInv
<1>. SUFFICES ASSUME Init PROVE ObjectInv
    OBVIOUS
<1>1. VersionInv /\ OneAtATime /\ CopyInv
    BY DEF Init, VersionInv, OneAtATime, CopyInv, Null
<1>2. FileInv
    BY NullFields DEF Init, FileInv
<1>3. AskedIsKept /\ RepositoryHasObject
    BY DEF Init, AskedIsKept, RepositoryHasObject, Null
<1>. QED  BY <1>1, <1>2, <1>3 DEF ObjectInv

LEMMA ObjectInvNext ==
    ASSUME TypeInv, TypeInv', ObjectInv, [Next]_vars
    PROVE  ObjectInv'
<1>1. VersionInv'
    BY VersionNext DEF ObjectInv
<1>2. FileInv'
    BY FileNext DEF ObjectInv
<1>3. OneAtATime'
    BY OneNext DEF ObjectInv
<1>. QED  BY <1>1, <1>2, <1>3, CopyNext, AskedNext, RepositoryNext DEF ObjectInv

\* What a request can rely on between its calls of Kubernetes and GitLab: the inductive
\* invariant (Get, PatchToK8s, PutWhole, Update, GenerateFile, PushItemsToRepo).
THEOREM ObjectsInvariant == Spec => [](TypeInv /\ ObjectInv)
<1>1. Init => TypeInv /\ ObjectInv
    BY TypeInvInit, ObjectInvInit
<1>2. (TypeInv /\ ObjectInv) /\ [Next]_vars => (TypeInv /\ ObjectInv)'
    BY TypeInvNext, ObjectInvNext
<1>. QED  BY <1>1, <1>2, PTL DEF Spec

\* The field is what the last one who set it made of it, through every patch, replacement,
\* restart and merge, unless a change of the node group met a field the copy has no room for;
\* of an autoscaler or a config map also when requests overlap (Create, PatchToK8s, PutWhole,
\* Update, ScaleReplica, DeployServiceByYaml).
THEOREM WhatWasAskedIsKept == Spec => []AskedIsKept
<1>1. ObjectInv => AskedIsKept
    BY DEF ObjectInv
<1>. QED  BY <1>1, ObjectsInvariant, PTL

\* The repository of whoever saved last has the object as it is, or as it was when it was
\* stopped (GenerateFile, PushItemsToRepo, MergeCollaborativePullRequest).
THEOREM RepositoriesHaveObjects == Spec => []RepositoryHasObject
<1>1. ObjectInv => RepositoryHasObject
    BY DEF ObjectInv
<1>. QED  BY <1>1, ObjectsInvariant, PTL

-----------------------------------------------------------------------------
(* RepoJob: the channels, the replies and what the goroutines hold. *)

LEMMA JobTypeNext ==
    ASSUME JobTypeOK, [JobNext]_jobVars
    PROVE  JobTypeOK'
<1>1. ASSUME NEW c \in Calls, CreateRepoAndJob(c) PROVE JobTypeOK'
    <2>1. caller' \in [Calls -> {"idle", "waiting", "returned", "lost"}]
        BY <1>1 DEF JobTypeOK, CreateRepoAndJob
    <2>2. worker' \in [Calls -> GitCalls \cup {"none", "select", "sendError", "sendNil"}]
        BY <1>1 DEF JobTypeOK, CreateRepoAndJob, GitCalls
    <2>. QED  BY <1>1, <2>1, <2>2 DEF JobTypeOK, CreateRepoAndJob, git
<1>2. ASSUME NEW c \in Calls, CreateRepo(c) PROVE JobTypeOK'
    <2>. name[c] \in Names
        BY DEF JobTypeOK
    <2>1. worker' \in [Calls -> GitCalls \cup {"none", "select", "sendError", "sendNil"}]
        BY <1>2 DEF JobTypeOK, CreateRepo, GitCalls
    <2>2. id' \in [Calls -> {"unset", "real", "zero"}]
        BY <1>2 DEF JobTypeOK, CreateRepo
    <2>3. closed' \in [Calls -> BOOLEAN]
        BY <1>2 DEF JobTypeOK, CreateRepo
    <2>4. repos' \subseteq Names
        BY <1>2 DEF JobTypeOK, CreateRepo
    <2>. QED  BY <1>2, <2>1, <2>2, <2>3, <2>4 DEF JobTypeOK, CreateRepo
<1>3. ASSUME NEW c \in Calls, CreateHook(c) PROVE JobTypeOK'
    <2>. name[c] \in Names
        BY DEF JobTypeOK
    <2>1. worker' \in [Calls -> GitCalls \cup {"none", "select", "sendError", "sendNil"}]
        BY <1>3 DEF JobTypeOK, CreateHook, GitCalls
    <2>2. cancelled' \in [Calls -> BOOLEAN] /\ hooks' \subseteq Names
        <3>1. hooks \subseteq Names /\ name[c] \in Names
            BY DEF JobTypeOK
        <3>2. hooks' \in {hooks, hooks \cup {name[c]}}
            BY <1>3 DEF CreateHook, Added
        <3>3. cancelled' = cancelled \/ cancelled' = [cancelled EXCEPT ![c] = TRUE]
            BY <1>3 DEF CreateHook, Fails
        <3>4. hooks' \subseteq Names
            BY ONLY <3>1, <3>2
        <3>. QED  BY <3>3, <3>4 DEF JobTypeOK
    <2>3. failed' \subseteq Calls
        BY <1>3 DEF JobTypeOK, CreateHook, Fails
    <2>. QED  BY <1>3, <2>1, <2>2, <2>3 DEF JobTypeOK, CreateHook
<1>4. ASSUME NEW c \in Calls, CreateFile(c) PROVE JobTypeOK'
    <2>. name[c] \in Names
        BY DEF JobTypeOK
    <2>1. worker' \in [Calls -> GitCalls \cup {"none", "select", "sendError", "sendNil"}]
        BY <1>4 DEF JobTypeOK, CreateFile
    <2>2. cancelled' \in [Calls -> BOOLEAN] /\ readmes' \subseteq Names
        <3>1. readmes \subseteq Names /\ name[c] \in Names
            BY DEF JobTypeOK
        <3>2. readmes' \in {readmes, readmes \cup {name[c]}}
            BY <1>4 DEF CreateFile, Added
        <3>3. cancelled' = cancelled \/ cancelled' = [cancelled EXCEPT ![c] = TRUE]
            BY <1>4 DEF CreateFile, Fails
        <3>4. readmes' \subseteq Names
            BY ONLY <3>1, <3>2
        <3>. QED  BY <3>3, <3>4 DEF JobTypeOK
    <2>3. failed' \subseteq Calls
        BY <1>4 DEF JobTypeOK, CreateFile, Fails
    <2>. QED  BY <1>4, <2>1, <2>2, <2>3 DEF JobTypeOK, CreateFile
<1>5. ASSUME NEW c \in Calls, Select(c) PROVE JobTypeOK'
    BY <1>5 DEF JobTypeOK, Select, git
<1>6. ASSUME NEW c \in Calls, Send(c) PROVE JobTypeOK'
    BY <1>6 DEF JobTypeOK, Send, Returns, git
<1>7. ASSUME NEW c \in Calls, SendOnClosed(c) PROVE JobTypeOK'
    BY <1>7 DEF JobTypeOK, SendOnClosed, git
<1>8. ASSUME NEW c \in Calls, ReceiveClosed(c) PROVE JobTypeOK'
    BY <1>8 DEF JobTypeOK, ReceiveClosed, Returns, git
<1>9. CASE Restart \/ UNCHANGED jobVars
    BY <1>9 DEF JobTypeOK, Restart, jobVars, git
<1>. QED  BY <1>1, <1>2, <1>3, <1>4, <1>5, <1>6, <1>7, <1>8, <1>9 DEF JobNext, Goroutine

LEMMA JobTypeInit == JobInit => JobTypeOK
BY DEF JobInit, JobTypeOK

\* The channels, the replies and what the goroutines hold have their types.
THEOREM RepoJobTypeCorrect == RepoJobSpec => []JobTypeOK
BY JobTypeInit, JobTypeNext, PTL DEF RepoJobSpec

-----------------------------------------------------------------------------
(* The inductive invariant, one call at a time. *)

Local(c) ==
    /\ CancelledByFailure(c) /\ Started(c)
    /\ reply[c] = "error" => c \in failed /\ ~closed[c]
    /\ caller[c] = "returned" /\ ~closed[c] => worker[c] \notin GitCalls

\* The process is down only after a failure, and takes its goroutines with it.
Down ==
    /\ OnlyFailureEndsServer
    /\ ~up => \A c \in Calls : worker[c] = "none"

JobInv == JobTypeOK /\ Down /\ \A c \in Calls : Local(c)

LEMMA InvIsRepoJobInv == JobInv <=> JobTypeOK /\ RepoJobInv
BY DEF JobInv, Down, RepoJobInv, ErrorMeansFailedCall, ReturnsLast, Local

\* What a call is in the hands of.
Same(c) ==
    /\ caller'[c] = caller[c] /\ worker'[c] = worker[c]
    /\ id'[c] = id[c] /\ closed'[c] = closed[c]
    /\ cancelled'[c] = cancelled[c] /\ reply'[c] = reply[c]
    /\ c \in failed => c \in failed'

\* A call that does not move keeps its part of the invariant.
LEMMA Undisturbed ==
    ASSUME NEW c \in Calls, Local(c), Same(c)
    PROVE  Local(c)'
BY DEF Local, CancelledByFailure, Started, Same

\* While a call's goroutine or its caller is at work, so is the process.
LEMMA Running ==
    ASSUME JobInv, NEW c \in Calls, worker[c] # "none" \/ caller[c] = "waiting"
    PROVE  up
BY DEF JobInv, Down, OnlyFailureEndsServer, JobTypeOK

LEMMA CreateRepoAndJobInv ==
    ASSUME JobInv, JobTypeOK', NEW c \in Calls, CreateRepoAndJob(c)
    PROVE  JobInv'
<1>1. up /\ up'
    BY Running DEF CreateRepoAndJob
<1>2. \A d \in Calls \ {c} : Local(d)'
    BY Undisturbed DEF CreateRepoAndJob, git, JobInv, JobTypeOK, Same
<1>3. Local(c)'
    BY DEF JobInv, Local, CreateRepoAndJob, git, JobTypeOK, CancelledByFailure, Started, GitCalls
<1>. QED  BY <1>1, <1>2, <1>3 DEF JobInv, Down, OnlyFailureEndsServer

LEMMA CreateRepoInv ==
    ASSUME JobInv, JobTypeOK', NEW c \in Calls, CreateRepo(c)
    PROVE  JobInv'
<1>1. up /\ up'
    BY Running DEF CreateRepo
<1>2. \A d \in Calls \ {c} : Local(d)'
    BY Undisturbed DEF CreateRepo, JobInv, JobTypeOK, Same
<1>3. Local(c)'
    BY DEF JobInv, Local, CreateRepo, JobTypeOK, CancelledByFailure, Started, GitCalls
<1>. QED  BY <1>1, <1>2, <1>3 DEF JobInv, Down, OnlyFailureEndsServer

LEMMA CreateHookInv ==
    ASSUME JobInv, JobTypeOK', NEW c \in Calls, CreateHook(c)
    PROVE  JobInv'
<1>1. up /\ up'
    BY Running DEF CreateHook
<1>2. \A d \in Calls \ {c} : Local(d)'
    BY Undisturbed DEF CreateHook, Fails, JobInv, JobTypeOK, Same
<1>3. Local(c)'
    BY DEF JobInv, Local, CreateHook, Fails, JobTypeOK, CancelledByFailure, Started, GitCalls
<1>. QED  BY <1>1, <1>2, <1>3 DEF JobInv, Down, OnlyFailureEndsServer

LEMMA CreateFileInv ==
    ASSUME JobInv, JobTypeOK', NEW c \in Calls, CreateFile(c)
    PROVE  JobInv'
<1>1. up /\ up'
    BY Running DEF CreateFile
<1>2. \A d \in Calls \ {c} : Local(d)'
    BY Undisturbed DEF CreateFile, Fails, JobInv, JobTypeOK, Same
<1>3. Local(c)'
    BY DEF JobInv, Local, CreateFile, Fails, JobTypeOK, CancelledByFailure, Started, GitCalls
<1>. QED  BY <1>1, <1>2, <1>3 DEF JobInv, Down, OnlyFailureEndsServer

LEMMA SelectInv ==
    ASSUME JobInv, JobTypeOK', NEW c \in Calls, Select(c)
    PROVE  JobInv'
<1>1. up /\ up'
    BY Running DEF Select
<1>2. \A d \in Calls \ {c} : Local(d)'
    BY Undisturbed DEF Select, git, JobInv, JobTypeOK, Same
<1>3. Local(c)'
    BY DEF JobInv, Local, Select, git, JobTypeOK, CancelledByFailure, Started, GitCalls
<1>. QED  BY <1>1, <1>2, <1>3 DEF JobInv, Down, OnlyFailureEndsServer

LEMMA SendInv ==
    ASSUME JobInv, JobTypeOK', NEW c \in Calls, Send(c)
    PROVE  JobInv'
<1>1. up /\ up'
    BY Running DEF Send
<1>2. \A d \in Calls \ {c} : Local(d)'
    <2>1. \A d \in Calls \ {c} : Same(d)
        BY DEF Send, Returns, git, JobInv, JobTypeOK, Same
    <2>. QED  BY <2>1, Undisturbed DEF JobInv
<1>3. Local(c)'
    BY DEF JobInv, Local, Send, Returns, git, JobTypeOK, CancelledByFailure, Started, GitCalls
<1>. QED  BY <1>1, <1>2, <1>3 DEF JobInv, Down, OnlyFailureEndsServer

LEMMA ReceiveClosedInv ==
    ASSUME JobInv, JobTypeOK', NEW c \in Calls, ReceiveClosed(c)
    PROVE  JobInv'
<1>1. up /\ up'
    BY Running DEF ReceiveClosed
<1>2. \A d \in Calls \ {c} : Local(d)'
    <2>1. \A d \in Calls \ {c} : Same(d)
        BY DEF ReceiveClosed, Returns, git, JobInv, JobTypeOK, Same
    <2>. QED  BY <2>1, Undisturbed DEF JobInv
<1>3. Local(c)'
    BY DEF JobInv, Local, ReceiveClosed, Returns, git, JobTypeOK, CancelledByFailure, Started, GitCalls
<1>. QED  BY <1>1, <1>2, <1>3 DEF JobInv, Down, OnlyFailureEndsServer

LEMMA SendOnClosedInv ==
    ASSUME JobInv, JobTypeOK', NEW c \in Calls, SendOnClosed(c)
    PROVE  JobInv'
<1>1. ASSUME NEW d \in Calls PROVE Local(d)'
    <2>1. Local(d) /\ caller[d] \in {"idle", "waiting", "returned", "lost"}
        BY DEF JobInv, JobTypeOK
    <2>2. /\ worker'[d] = "none"
          /\ caller'[d] = IF caller[d] = "waiting" THEN "lost" ELSE caller[d]
        BY DEF SendOnClosed
    <2>. QED  BY <2>1, <2>2 DEF Local, SendOnClosed, git, CancelledByFailure, Started, GitCalls
<1>2. closed[c] /\ id[c] = "zero"
    BY DEF JobInv, Local, Started, SendOnClosed
<1>3. Down'
    BY <1>2 DEF Down, OnlyFailureEndsServer, SendOnClosed
<1>. QED  BY <1>1, <1>3 DEF JobInv

LEMMA JobInvNext ==
    ASSUME JobInv, [JobNext]_jobVars
    PROVE  JobInv'
<1>1. JobTypeOK'
    BY JobTypeNext DEF JobInv
<1>2. ASSUME NEW c \in Calls, CreateRepoAndJob(c) \/ Goroutine(c) \/ ReceiveClosed(c)
      PROVE  JobInv'
    BY <1>1, <1>2, CreateRepoAndJobInv, CreateRepoInv, CreateHookInv, CreateFileInv, SelectInv,
       SendInv, SendOnClosedInv, ReceiveClosedInv DEF Goroutine
<1>3. CASE Restart \/ UNCHANGED jobVars
    <2>1. UNCHANGED <<caller, worker, id, closed, cancelled, reply, failed>> /\ (up' \/ up' = up)
        BY <1>3 DEF Restart, jobVars, git
    <2>2. \A d \in Calls : Local(d)'
        BY <2>1 DEF JobInv, Local, CancelledByFailure, Started
    <2>3. Down'
        BY <2>1 DEF JobInv, Down, OnlyFailureEndsServer
    <2>. QED  BY <1>1, <2>2, <2>3 DEF JobInv
<1>. QED  BY <1>2, <1>3 DEF JobNext

LEMMA JobInvInit == JobInit => JobInv
<1>. SUFFICES ASSUME JobInit PROVE JobInv
    OBVIOUS
<1>1. JobTypeOK
    BY JobTypeInit
<1>2. \A c \in Calls : Local(c)
    BY DEF JobInit, Local, CancelledByFailure, Started
<1>3. Down
    BY DEF JobInit, Down, OnlyFailureEndsServer
<1>. QED  BY <1>1, <1>2, <1>3 DEF JobInv

\* The invariant of the runs holds for any number of calls: a context is
\* cancelled before the reply only by a failure of the hook or the file, and
\* the process falls only to a repository that could not be created.
THEOREM RepoJobInvariant == RepoJobSpec => []RepoJobInv
<1>1. RepoJobSpec => []JobInv
    BY JobInvInit, JobInvNext, PTL DEF RepoJobSpec
<1>. QED  BY <1>1, InvIsRepoJobInv, PTL

\* CreateRepoAndJob returns an error only if its own hook or file failed, also
\* where GitLab made them and the answer was lost; never for the repository.
THEOREM ErrorsAreEarned == RepoJobSpec => []ErrorMeansFailedCall
<1>1. RepoJobInv => ErrorMeansFailedCall
    BY DEF RepoJobInv
<1>. QED  BY <1>1, RepoJobInvariant, PTL

\* CreateRepoAndJob returns after its calls of the git server, unless the
\* first of them failed.
THEOREM ReturnsAfterWork == RepoJobSpec => []ReturnsLast
<1>1. RepoJobInv => ReturnsLast
    BY DEF RepoJobInv
<1>. QED  BY <1>1, RepoJobInvariant, PTL

\* The API server ends, of all that can fail here, only by a repository that
\* could not be created.
THEOREM ServerEndsByFailure == RepoJobSpec => []OnlyFailureEndsServer
<1>1. RepoJobInv => OnlyFailureEndsServer
    BY DEF RepoJobInv
<1>. QED  BY <1>1, RepoJobInvariant, PTL
=============================================================================
