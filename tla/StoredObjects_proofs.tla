------------------------- MODULE StoredObjects_proofs -------------------------
(* What the proof system checks about StoredObjects: its invariants, for any  *)
(* number of names, rows and requests side by side, and any set of faults.    *)
EXTENDS StoredObjects, FiniteSetTheorems, TLAPS

-----------------------------------------------------------------------------
(* Types. *)

LEMMA NullTypes == NullKey \in Keys /\ NullRow \in Row /\ NullRequest \in Request
<1>1. NullKey \in Keys
    BY StoredObjectsAssumption DEF NullKey, Keys
<1>. QED  BY <1>1 DEF NullRow, Row, NullRequest, Request, Statuses, Reasons

\* How a client moves on: it does p next, with the local variables r.
Moves(c, p, r) == pc' = [pc EXCEPT ![c] = p] /\ req' = [req EXCEPT ![c] = r]

LEMMA Moved ==
    ASSUME TypeOK, NEW c \in Clients, NEW p, NEW r, Moves(c, p, r)
    PROVE  /\ pc'[c] = p /\ req'[c] = r
           /\ \A d \in Clients \ {c} : pc'[d] = pc[d] /\ req'[d] = req[d]
           /\ p \in PCs => pc' \in [Clients -> PCs]
           /\ r \in Request => req' \in [Clients -> Request]
BY DEF TypeOK, Moves

LEMMA MovesBy ==
    ASSUME TypeOK, NEW c \in Clients
    PROVE  /\ Return(c) => Moves(c, "idle", NullRequest)
           /\ \A p : Goto(c, p) /\ UNCHANGED req => Moves(c, p, req[c])
           /\ \A r, p : Begin(c, r, p) => Moves(c, p, r)
BY DEF TypeOK, Return, Goto, Moves, Begin

\* The types of what is not a request's own.
WorldOK ==
    /\ kind \in Kinds
    /\ rows \subseteq RowIds /\ row \in [RowIds -> Row] /\ options \subseteq RowIds
    /\ nextRow \in 1..(MaxRows + 1)
    /\ object \in [Keys -> Objects \cup {0}] /\ phase \in [Keys -> Phases]
    /\ nextObject \in 1..(MaxObjects + 1)
    /\ asks \in 0..MaxAsks
    /\ races \in BOOLEAN
    /\ ours \subseteq Objects /\ broken \subseteq Keys /\ parted \subseteq Keys

LEMMA TypeMove ==
    ASSUME TypeOK, NEW c \in Clients, NEW p \in PCs, NEW r \in Request, Moves(c, p, r), WorldOK'
    PROVE  TypeOK'
BY Moved DEF TypeOK, WorldOK

LEMMA TypeMoves ==
    ASSUME TypeOK, NEW c \in Clients, WorldOK'
    PROVE  /\ Return(c) => TypeOK'
           /\ \A p \in PCs : Goto(c, p) /\ UNCHANGED req => TypeOK'
           /\ \A p \in PCs, r \in Request : Moves(c, p, r) => TypeOK'
<1>1. NullRequest \in Request /\ req[c] \in Request /\ "idle" \in PCs
    BY NullTypes DEF TypeOK, PCs
<1>. QED  BY <1>1, MovesBy, TypeMove

LEMMA WorldStays ==
    ASSUME TypeOK, UNCHANGED <<chosen, table, cluster, asks, history>>
    PROVE  WorldOK'
BY DEF TypeOK, WorldOK, chosen, table, cluster, history

LEMMA RequestOf ==
    ASSUME TypeOK, NEW c \in Clients
    PROVE  /\ req[c] \in Request /\ req[c].key \in Keys /\ req[c].at \in Keys
           /\ req[c].id \in RowIds \cup {0}
           /\ req[c].object \in Objects \cup {0} /\ req[c].todo \subseteq RowIds
           /\ req[c].found \subseteq Keys /\ req[c].status \in Statuses /\ req[c].reason \in Reasons
           /\ pc[c] \in PCs
BY DEF TypeOK, Request

LEMMA InsertTypes ==
    ASSUME TypeOK, NEW key \in Keys, NEW status \in Statuses, NEW o \in Objects \cup {0},
           Insert(key, status, o)
    PROVE  /\ rows' \subseteq RowIds /\ row' \in [RowIds -> Row] /\ nextRow' \in 1..(MaxRows + 1)
           /\ nextRow \in RowIds
<1>. DEFINE new == [key |-> key, status |-> status, comment |-> "", object |-> o]
<1>1. /\ nextRow <= MaxRows /\ rows' = rows \cup {nextRow} /\ nextRow' = nextRow + 1
      /\ row' = [row EXCEPT ![nextRow] = new]
    BY DEF Insert
<1>2. new \in Row
    BY DEF Row, Reasons
<1>. HIDE DEF new
<1>3. nextRow \in 1..(MaxRows + 1) /\ MaxRows \in Nat
    BY StoredObjectsAssumption DEF TypeOK
<1>4. nextRow \in RowIds /\ nextRow' \in 1..(MaxRows + 1)
    BY <1>1, <1>3 DEF RowIds
<1>. QED  BY <1>1, <1>2, <1>4 DEF TypeOK

-----------------------------------------------------------------------------
(* How requests begin. *)

\* The requests that clients begin with.
Added(key, at, id) == [NullRequest EXCEPT !.key = key, !.at = at, !.id = id]
Removed(key, id) == [NullRequest EXCEPT !.op = "remove", !.key = key, !.id = id]
Stored(key)      == [NullRequest EXCEPT !.key = key, !.at = key]
Listed(todo)     == [NullRequest EXCEPT !.op = "list", !.todo = todo]
Synced(key)      == [NullRequest EXCEPT !.op = "sync", !.key = key]

LEMMA RemovedTypes ==
    ASSUME NEW key \in Keys, NEW id \in RowIds \cup {0}
    PROVE  /\ Removed(key, id) \in Request /\ Removed(key, id).op = "remove"
           /\ Removed(key, id).key = key /\ Removed(key, id).id = id /\ Removed(key, id).object = 0
<1>1. NullRequest \in Request /\ NullRequest.object = 0
    BY NullTypes DEF NullRequest
<1>. QED  BY <1>1 DEF Removed, Request

LEMMA BegunTypes ==
    ASSUME NEW key \in Keys, NEW id \in RowIds \cup {0}, NEW todo \in SUBSET RowIds
    PROVE  /\ \A at \in Keys :
                /\ Added(key, at, id) \in Request /\ Added(key, at, id).op = "add"
                /\ Added(key, at, id).key = key /\ Added(key, at, id).at = at
                /\ Added(key, at, id).id = id /\ Added(key, at, id).object = 0
           /\ Stored(key) \in Request /\ Stored(key).op = "add"
           /\ Stored(key).key = key /\ Stored(key).at = key /\ Stored(key).object = 0
           /\ Removed(key, id) \in Request /\ Removed(key, id).op = "remove"
           /\ Removed(key, id).key = key /\ Removed(key, id).id = id /\ Removed(key, id).object = 0
           /\ Listed(todo) \in Request /\ Listed(todo).op = "list" /\ Listed(todo).object = 0
           /\ Synced(key) \in Request /\ Synced(key).op = "sync" /\ Synced(key).object = 0
<1>1. NullRequest \in Request /\ NullRequest.op = "add" /\ NullRequest.object = 0
    BY NullTypes DEF NullRequest
<1>2. ASSUME NEW at \in Keys
      PROVE  /\ Added(key, at, id) \in Request /\ Added(key, at, id).op = "add"
             /\ Added(key, at, id).key = key /\ Added(key, at, id).at = at
             /\ Added(key, at, id).id = id /\ Added(key, at, id).object = 0
    BY <1>1 DEF Added, Request
<1>6. /\ Stored(key) \in Request /\ Stored(key).op = "add"
      /\ Stored(key).key = key /\ Stored(key).at = key /\ Stored(key).object = 0
    BY <1>1 DEF Stored, Request
<1>3. /\ Removed(key, id) \in Request /\ Removed(key, id).op = "remove"
      /\ Removed(key, id).key = key /\ Removed(key, id).id = id /\ Removed(key, id).object = 0
    BY RemovedTypes
<1>4. Listed(todo) \in Request /\ Listed(todo).op = "list" /\ Listed(todo).object = 0
    BY <1>1 DEF Listed, Request
<1>5. Synced(key) \in Request /\ Synced(key).op = "sync" /\ Synced(key).object = 0
    BY <1>1 DEF Synced, Request
<1>. QED  BY <1>2, <1>3, <1>4, <1>5, <1>6

LEMMA KeysOfKind == KeysOf \subseteq Keys
BY StoredObjectsAssumption DEF KeysOf, PlacesOf, Keys

\* A removal parts a name from its row that comes while the row's job is being made...
Hastened(id) ==
    parted' = IF \E d \in Clients : req[d].op = "add" /\ req[d].id = id
             THEN parted \cup {row[id].key} ELSE parted

\* ... and so does an addition whose row and object are of two projects.
Placed(key, at) == parted' = IF at = key THEN parted ELSE parted \cup {key, at}

LEMMA AskCases ==
    ASSUME NEW c \in Clients, Asks(c)
    PROVE  \/ \E key \in Keys, at \in Keys :
                /\ kind = "job" /\ Begin(c, Added(key, at, nextRow), "create")
                /\ Insert(key, "preparing", 0) /\ Placed(key, at)
           \/ /\ UNCHANGED <<rows, row, nextRow>>
              /\ \/ \E key \in Keys : /\ kind # "job" /\ Begin(c, Stored(key), "create")
                                      /\ parted' = parted
                 \/ \E id \in rows : /\ Begin(c, Removed(row[id].key, id), "deleteObject")
                                     /\ Hastened(id)
                 \/ \E todo \in SUBSET rows : Begin(c, Listed(todo), "next") /\ parted' = parted
                 \/ \E key \in Keys : /\ kind = "job" /\ Begin(c, Synced(key), "find")
                                      /\ parted' = parted
<1>0. ASSUME NEW key \in KeysOf, NEW at \in KeysOf, DeployJobAction(c, key, at)
      PROVE  /\ kind = "job" /\ Begin(c, Added(key, at, nextRow), "create")
             /\ Insert(key, "preparing", 0) /\ Placed(key, at)
    BY <1>0 DEF DeployJobAction, Added, Placed
<1>1. ASSUME NEW key \in KeysOf, AddPVolumeAction(c, key) \/ AddPVClaimAction(c, key)
      PROVE  /\ UNCHANGED <<rows, row, nextRow>> /\ kind # "job"
             /\ Begin(c, Stored(key), "create") /\ parted' = parted
    BY <1>1 DEF AddPVolumeAction, AddPVClaimAction, AddStored, Stored
<1>2. ASSUME NEW id \in RowIds,
             DeleteJobAction(c, id) \/ RemovePVolumeAction(c, id) \/ RemovePVClaimAction(c, id)
      PROVE  /\ UNCHANGED <<rows, row, nextRow>> /\ id \in rows /\ Hastened(id)
             /\ Begin(c, Removed(row[id].key, id), "deleteObject")
    BY <1>2 DEF DeleteJobAction, RemovePVolumeAction, RemovePVClaimAction, Remove, Removed, Hastened
<1>3. ASSUME ListJobs(c)
      PROVE  /\ UNCHANGED <<rows, row, nextRow, parted>>
             /\ \E todo \in SUBSET rows : Begin(c, Listed(todo), "next")
    <2>. DEFINE listed == {id \in rows : row[id].status # "preparing"}
    <2>1. listed \in SUBSET rows /\ Begin(c, Listed(listed), "next")
        BY <1>3 DEF ListJobs, Listed
    <2>. QED  BY <1>3, <2>1 DEF ListJobs
<1>4. ASSUME Sync(c)
      PROVE  /\ UNCHANGED <<rows, row, nextRow, parted>> /\ kind = "job"
             /\ \E key \in Keys : Begin(c, Synced(key), "find")
    <2>1. PICK key \in Places \X Names : Begin(c, Synced(key), "find")
        BY <1>4 DEF Sync, Synced
    <2>2. key \in Keys
        BY DEF Keys
    <2>. QED  BY <1>4, <2>1, <2>2 DEF Sync
<1>. QED  BY <1>0, <1>1, <1>2, <1>3, <1>4, KeysOfKind DEF Asks

\* The first steps of requests.
FirstPCs == {"create", "deleteObject", "next", "find"}

LEMMA AskTypes ==
    ASSUME TypeOK, NEW c \in Clients, Asks(c)
    PROVE  TypeOK'
<1>1. \A r, p : Begin(c, r, p) => asks' \in 0..MaxAsks
    BY StoredObjectsAssumption DEF Begin, TypeOK
<1>2. \A r, p : Begin(c, r, p) => Moves(c, p, r) /\ UNCHANGED <<chosen, cluster, options, ours, broken>>
    BY MovesBy DEF Begin
<1>3. ASSUME NEW r \in Request, NEW p \in FirstPCs, Begin(c, r, p),
             rows' \subseteq RowIds /\ row' \in [RowIds -> Row] /\ nextRow' \in 1..(MaxRows + 1),
             parted' \subseteq Keys
      PROVE  TypeOK'
    <2>1. WorldOK'
        BY <1>1, <1>2, <1>3 DEF TypeOK, WorldOK, chosen, cluster
    <2>2. p \in PCs
        BY DEF FirstPCs, PCs
    <2>. QED  BY <1>2, <1>3, <2>1, <2>2, TypeMoves
<1>4. 0 \in RowIds \cup {0} /\ "preparing" \in Statuses /\ 0 \in Objects \cup {0} /\ parted \subseteq Keys
      /\ rows \subseteq RowIds /\ (\A id \in rows : row[id].key \in Keys)
    BY DEF Statuses, TypeOK, Row
<1>5. UNCHANGED <<rows, row, nextRow>> =>
          rows' \subseteq RowIds /\ row' \in [RowIds -> Row] /\ nextRow' \in 1..(MaxRows + 1)
    BY DEF TypeOK
<1>6. ASSUME NEW key \in Keys, NEW at \in Keys, Begin(c, Added(key, at, nextRow), "create"),
             Insert(key, "preparing", 0), Placed(key, at)
      PROVE  TypeOK'
    <2>1. /\ rows' \subseteq RowIds /\ row' \in [RowIds -> Row] /\ nextRow' \in 1..(MaxRows + 1)
          /\ nextRow \in RowIds
        BY <1>4, <1>6, InsertTypes
    <2>2. Added(key, at, nextRow) \in Request
        BY <2>1, BegunTypes
    <2>3. parted' \subseteq Keys
        BY <1>4, <1>6 DEF Placed
    <2>. QED  BY <1>3, <1>4, <1>6, <2>1, <2>2, <2>3 DEF FirstPCs
<1>7. ASSUME NEW key \in Keys, Begin(c, Stored(key), "create"), UNCHANGED <<rows, row, nextRow, parted>>
      PROVE  TypeOK'
    BY <1>3, <1>4, <1>5, <1>7, BegunTypes DEF FirstPCs
<1>8. ASSUME NEW id \in rows, Begin(c, Removed(row[id].key, id), "deleteObject"), Hastened(id),
             UNCHANGED <<rows, row, nextRow>>
      PROVE  TypeOK'
    <2>1. parted' \subseteq Keys
        BY <1>4, <1>8 DEF Hastened
    <2>2. Removed(row[id].key, id) \in Request
        BY <1>4, BegunTypes
    <2>. QED  BY <1>3, <1>5, <1>8, <2>1, <2>2 DEF FirstPCs
<1>9. ASSUME NEW todo \in SUBSET rows, Begin(c, Listed(todo), "next"),
             UNCHANGED <<rows, row, nextRow, parted>>
      PROVE  TypeOK'
    <2>1. Listed(todo) \in Request
        BY <1>4, NullTypes, BegunTypes
    <2>. QED  BY <1>3, <1>4, <1>5, <1>9, <2>1 DEF FirstPCs
<1>10. ASSUME NEW key \in Keys, Begin(c, Synced(key), "find"), UNCHANGED <<rows, row, nextRow, parted>>
      PROVE  TypeOK'
    BY <1>3, <1>4, <1>5, <1>10, BegunTypes DEF FirstPCs
<1>. QED  BY <1>6, <1>7, <1>8, <1>9, <1>10, AskCases

-----------------------------------------------------------------------------
(* Type correctness of the steps. *)

\* An object is made, or the name is taken.
Made(c) ==
    LET at == req[c].at IN
    /\ object[at] = 0 /\ nextObject <= MaxObjects
    /\ object' = [object EXCEPT ![at] = nextObject]
    /\ phase' = [phase EXCEPT ![at] = "waiting"]
    /\ nextObject' = nextObject + 1
    /\ ours' = ours \cup {nextObject} /\ broken' = broken
    /\ Moves(c, IF kind = "job" THEN "update" ELSE "insert", [req[c] EXCEPT !.object = nextObject])

Refused(c) ==
    /\ object[req[c].at] # 0
    /\ broken' = IF kind = "job" THEN broken \cup {req[c].key} ELSE broken
    /\ Return(c) /\ UNCHANGED <<cluster, ours>>

LEMMA CreateCases ==
    ASSUME NEW c \in Clients, DeployJob(c) \/ CreatePVK8s(c) \/ CreatePVC(c)
    PROVE  /\ pc[c] = "create" /\ UNCHANGED <<chosen, table, asks, parted>>
           /\ Made(c) \/ Refused(c)
<1>1. CASE DeployJob(c)
    BY <1>1 DEF DeployJob, Create, HalfWay, Made, Refused, Goto, Moves
<1>2. CASE CreatePVK8s(c) \/ CreatePVC(c)
    BY <1>2 DEF CreatePVK8s, CreatePVC, Create, Made, Refused, Goto, Moves
<1>. QED  BY <1>1, <1>2

LEMMA DeleteCases ==
    ASSUME NEW c \in Clients, StopJobK8s(c) \/ DeletePVK8s(c) \/ DeletePVCK8s(c)
    PROVE  /\ pc[c] = "deleteObject" /\ UNCHANGED <<chosen, table, phase, nextObject, req, asks, ours, parted>>
           /\ Goto(c, IF kind = "pv" THEN "deleteOption" ELSE "deleteRow")
           /\ \/ object' = [object EXCEPT ![req[c].key] = 0] /\ broken' = broken
              \/ object' = object /\ broken' = broken \cup {req[c].key} /\ kind # "job"
<1>1. CASE StopJobK8s(c)
    BY <1>1 DEF StopJobK8s, DeleteObject, history
<1>2. CASE DeletePVK8s(c)
    BY <1>2 DEF DeletePVK8s, DeleteObject, FailUnseen, HalfWay, history, cluster
<1>3. CASE DeletePVCK8s(c)
    BY <1>3 DEF DeletePVCK8s, DeleteObject, FailUnseen, HalfWay, history, cluster
<1>. QED  BY <1>1, <1>2, <1>3

LEMMA ObjectSteps ==
    ASSUME TypeOK, NEW c \in Clients,
           \/ DeployJob(c) \/ CreatePVK8s(c) \/ CreatePVC(c)
           \/ StopJobK8s(c) \/ DeletePVK8s(c) \/ DeletePVCK8s(c)
    PROVE  TypeOK'
<1>0. req[c] \in Request /\ req[c].key \in Keys /\ req[c].at \in Keys
    BY RequestOf
<1>1. ASSUME DeployJob(c) \/ CreatePVK8s(c) \/ CreatePVC(c) PROVE TypeOK'
    <2>1. pc[c] = "create" /\ UNCHANGED <<chosen, table, asks, parted>>
        BY <1>1, CreateCases
    <2>2. CASE Made(c)
        <3>1. nextObject \in Objects /\ nextObject' \in 1..(MaxObjects + 1)
            BY <2>2, StoredObjectsAssumption DEF Made, TypeOK, Objects
        <3>2. [req[c] EXCEPT !.object = nextObject] \in Request
            BY <1>0, <3>1 DEF Request
        <3>3. WorldOK'
            BY <1>0, <2>1, <2>2, <3>1 DEF Made, TypeOK, WorldOK, chosen, table, Phases
        <3>4. "update" \in PCs /\ "insert" \in PCs
            BY DEF PCs
        <3>. QED  BY <2>2, <3>2, <3>3, <3>4, TypeMoves DEF Made
    <2>3. CASE Refused(c)
        <3>1. WorldOK'
            BY <1>0, <2>1, <2>3 DEF Refused, TypeOK, WorldOK, chosen, table, cluster
        <3>. QED  BY <2>3, <3>1, TypeMoves DEF Refused
    <2>. QED  BY <1>1, <2>2, <2>3, CreateCases
<1>2. ASSUME StopJobK8s(c) \/ DeletePVK8s(c) \/ DeletePVCK8s(c) PROVE TypeOK'
    <2>1. WorldOK'
        BY <1>0, <1>2, DeleteCases DEF TypeOK, WorldOK, chosen, table
    <2>2. "deleteOption" \in PCs /\ "deleteRow" \in PCs
        BY DEF PCs
    <2>. QED  BY <1>2, <2>1, <2>2, DeleteCases, TypeMoves
<1>. QED  BY <1>1, <1>2

\* Options are inserted with the id of a row.  TypeOK needs this to be inductive.
OptionInv == \A c \in Clients : pc[c] = "option" => req[c].id \in RowIds

LEMMA RowSteps ==
    ASSUME TypeOK, OptionInv, NEW c \in Clients,
           UpdateJob(c) \/ AddRow(c) \/ AddPVOption(c) \/ DeletePVOption(c) \/ DeleteRow(c)
    PROVE  TypeOK'
<1>0. /\ req[c] \in Request /\ req[c].key \in Keys /\ req[c].id \in RowIds \cup {0}
      /\ req[c].object \in Objects \cup {0}
    BY RequestOf
<1>1. CASE UpdateJob(c)
    <2>. DEFINE new == [row[req[c].id] EXCEPT !.status = "uncompleted", !.object = req[c].object]
    <2>1. row' = row \/ (req[c].id \in rows /\ row' = [row EXCEPT ![req[c].id] = new])
        BY <1>1 DEF UpdateJob
    <2>0. req[c].id \in rows => row[req[c].id] \in Row
        BY DEF TypeOK
    <2>2. req[c].id \in rows => new \in Row
        BY <1>0, <2>0 DEF Row, Statuses
    <2>. HIDE DEF new
    <2>3. row' \in [RowIds -> Row]
        BY <2>1, <2>2 DEF TypeOK
    <2>4. WorldOK'
        BY <1>1, <2>3 DEF UpdateJob, TypeOK, WorldOK, chosen, cluster, history
    <2>. QED  BY <1>1, <2>4, TypeMoves DEF UpdateJob
<1>2. CASE AddRow(c)
    <2>1. /\ rows' \subseteq RowIds /\ row' \in [RowIds -> Row] /\ nextRow' \in 1..(MaxRows + 1)
          /\ nextRow \in RowIds
        BY <1>0, <1>2, InsertTypes DEF AddRow, Statuses
    <2>2. WorldOK'
        BY <1>2, <2>1 DEF AddRow, TypeOK, WorldOK, chosen, cluster, history
    <2>3. [req[c] EXCEPT !.id = nextRow] \in Request
        BY <1>0, <2>1 DEF Request
    <2>4. Return(c) \/ Moves(c, "option", [req[c] EXCEPT !.id = nextRow])
        BY <1>2 DEF AddRow, Goto, Moves
    <2>. QED  BY <2>2, <2>3, <2>4, TypeMoves DEF PCs
<1>3. CASE AddPVOption(c)
    <2>1. req[c].id \in RowIds
        BY <1>3 DEF AddPVOption, OptionInv
    <2>2. WorldOK'
        BY <1>3, <2>1 DEF AddPVOption, TypeOK, WorldOK, chosen, cluster, history
    <2>. QED  BY <1>3, <2>2, TypeMoves DEF AddPVOption
<1>4. CASE DeletePVOption(c)
    <2>1. WorldOK'
        BY <1>4 DEF DeletePVOption, TypeOK, WorldOK, chosen, cluster, history
    <2>2. Goto(c, "deleteRow") /\ UNCHANGED req
        BY <1>4 DEF DeletePVOption
    <2>. QED  BY <2>1, <2>2, TypeMoves DEF PCs
<1>5. CASE DeleteRow(c)
    <2>1. WorldOK'
        BY <1>5 DEF DeleteRow, TypeOK, WorldOK, chosen, cluster, history
    <2>. QED  BY <1>5, <2>1, TypeMoves DEF DeleteRow
<1>. QED  BY <1>1, <1>2, <1>3, <1>4, <1>5

\* The steps that read jobs, write their status and take them over.
LEMMA StatusTypes ==
    ASSUME NEW p \in Phases
    PROVE  StatusOf(p).status \in Statuses /\ StatusOf(p).reason \subseteq Reasons
<1>1. CASE p = "waiting"
    BY <1>1 DEF StatusOf, Statuses, Reasons
<1>2. CASE p = "active"
    BY <1>2 DEF StatusOf, Statuses, Reasons
<1>3. CASE p = "backoff"
    BY <1>3 DEF StatusOf, Statuses, Reasons
<1>4. CASE p = "complete"
    BY <1>4 DEF StatusOf, Statuses, Reasons
<1>5. CASE p = "short"
    BY <1>5 DEF StatusOf, Statuses, Reasons
<1>. QED  BY <1>1, <1>2, <1>3, <1>4, <1>5 DEF Phases

\* What a listing knows after it has read a job.
LEMMA ReadMoves ==
    ASSUME TypeOK, NEW c \in Clients, SyncJobK8sStatus(c)
    PROVE  \E r \in Request : Moves(c, "write", r) /\ r.op = req[c].op /\ r.object = req[c].object
                              /\ r.key = req[c].key /\ r.found = req[c].found
<1>0. req[c] \in Request /\ req[c].todo \subseteq RowIds /\ req[c].reason \in Reasons
    BY RequestOf
<1>. DEFINE missing == [status |-> "uncompleted", reason |-> {"not established"}]
            Reads(id, found) ==
                req' = [req EXCEPT ![c].id = id, ![c].todo = @ \ {id}, ![c].status = found.status,
                    ![c].reason = CHOOSE w \in Reasons :
                        w \in (IF found.reason = {} THEN {req[c].reason} ELSE found.reason)]
<1>1. PICK id \in req[c].todo :
        \E found \in (IF object[row[id].key] = 0 THEN {missing} ELSE {StatusOf(phase[row[id].key])})
                     \cup (IF "call" \in Faults THEN {missing} ELSE {}) : Reads(id, found)
    BY Zenon DEF SyncJobK8sStatus
<1>2. PICK found : /\ found = missing \/ found = StatusOf(phase[row[id].key])
                   /\ Reads(id, found)
    <2>. HIDE DEF missing, Reads
    <2>. QED  BY <1>1
<1>. DEFINE reasons == IF found.reason = {} THEN {req[c].reason} ELSE found.reason
            chosenReason  == CHOOSE w \in Reasons : w \in reasons
<1>3. phase[row[id].key] \in Phases
    BY <1>0 DEF TypeOK, Row
<1>4. found.status \in Statuses /\ found.reason \subseteq Reasons
    <2>1. CASE found = missing
        BY <2>1 DEF Statuses, Reasons
    <2>2. CASE found = StatusOf(phase[row[id].key])
        BY <2>2, <1>3, StatusTypes
    <2>. QED  BY <1>2, <2>1, <2>2
<1>5. \E w \in Reasons : w \in reasons
    BY <1>0, <1>4
<1>6. chosenReason \in Reasons
    BY <1>5
<1>7. req' = [req EXCEPT ![c].id = id, ![c].todo = @ \ {id}, ![c].status = found.status,
                    ![c].reason = chosenReason]
    BY <1>2
<1>. HIDE DEF chosenReason
<1>8. /\ \A d \in Clients \ {c} : req'[d] = req[d]
      /\ req'[c] \in Request /\ req'[c].op = req[c].op /\ req'[c].object = req[c].object
      /\ req'[c].key = req[c].key /\ req'[c].found = req[c].found
    BY <1>0, <1>4, <1>6, <1>7 DEF TypeOK, Request
<1>9. req' = [req EXCEPT ![c] = req'[c]]
    BY <1>7, <1>8 DEF TypeOK
<1>. QED  BY <1>8, <1>9, SyncJobK8sStatus(c) DEF SyncJobK8sStatus, Goto, Moves

LEMMA SyncSteps ==
    ASSUME TypeOK, NEW c \in Clients,
           SyncJobK8sStatus(c) \/ WriteStatus(c) \/ ListK8sJobs(c) \/ SyncJobData(c)
    PROVE  TypeOK'
<1>0. req[c] \in Request
    BY RequestOf
<1>1. CASE SyncJobK8sStatus(c)
    <2>1. UNCHANGED <<chosen, table, cluster, asks, history>>
        BY <1>1 DEF SyncJobK8sStatus
    <2>. QED  BY <1>1, <2>1, ReadMoves, WorldStays, TypeMoves DEF PCs
<1>2. CASE WriteStatus(c)
    <2>. DEFINE new == [row[req[c].id] EXCEPT !.status = req[c].status, !.comment = req[c].reason]
    <2>1. row' = row \/ (req[c].id \in rows /\ row' = [row EXCEPT ![req[c].id] = new])
        BY <1>2 DEF WriteStatus
    <2>2. ASSUME req[c].id \in rows PROVE new \in Row
        <3>1. row[req[c].id] \in Row /\ req[c].status \in Statuses /\ req[c].reason \in Reasons
            BY <2>2, RequestOf DEF TypeOK
        <3>. QED  BY <3>1 DEF Row
    <2>. HIDE DEF new
    <2>3. row' \in [RowIds -> Row]
        BY <2>1, <2>2 DEF TypeOK
    <2>4. WorldOK'
        BY <1>2, <2>3 DEF WriteStatus, TypeOK, WorldOK, chosen, cluster, history
    <2>5. Return(c) \/ (Goto(c, "next") /\ UNCHANGED req)
        BY <1>2 DEF WriteStatus
    <2>. QED  BY <2>4, <2>5, TypeMoves DEF PCs
<1>3. CASE ListK8sJobs(c)
    <2>. DEFINE found == {key \in Keys : key[1] = req[c].key[1] /\ object[key] # 0}
                r == [req[c] EXCEPT !.found = found]
    <2>1. r \in Request
        BY <1>0 DEF Request
    <2>2. Return(c) \/ Moves(c, "adopt", r)
        BY <1>3 DEF ListK8sJobs, Goto, Moves
    <2>. HIDE DEF r
    <2>3. WorldOK'
        BY <1>3, WorldStays DEF ListK8sJobs
    <2>. QED  BY <2>1, <2>2, <2>3, TypeMoves DEF PCs
<1>4. CASE SyncJobData(c)
    <2>1. PICK key \in req[c].found :
            /\ UNCHANGED <<rows, row, nextRow>> \/ Insert(key, "running", object[key])
            /\ Return(c) \/ (req' = [req EXCEPT ![c].found = @ \ {key}] /\ UNCHANGED pc)
        BY <1>4 DEF SyncJobData
    <2>2. key \in Keys /\ object[key] \in Objects \cup {0} /\ "running" \in Statuses
        BY <1>0 DEF Request, TypeOK, Statuses
    <2>3. rows' \subseteq RowIds /\ row' \in [RowIds -> Row] /\ nextRow' \in 1..(MaxRows + 1)
        BY <2>1, <2>2, InsertTypes DEF TypeOK
    <2>4. WorldOK'
        BY <1>4, <2>3 DEF SyncJobData, TypeOK, WorldOK, chosen, cluster, history
    <2>. DEFINE r == [req[c] EXCEPT !.found = @ \ {key}]
    <2>5. r \in Request
        BY <1>0 DEF Request
    <2>6. Return(c) \/ Moves(c, pc[c], r)
        BY <2>1 DEF Moves, TypeOK
    <2>. HIDE DEF r
    <2>. QED  BY <2>4, <2>5, <2>6, RequestOf, TypeMoves
<1>. QED  BY <1>1, <1>2, <1>3, <1>4

LEMMA FailTypes ==
    ASSUME TypeOK, NEW c \in Clients, Fails(c)
    PROVE  TypeOK'
<1>1. broken' \subseteq Keys
    BY RequestOf DEF Fails, HalfWay, TypeOK
<1>2. WorldOK'
    BY <1>1 DEF Fails, TypeOK, WorldOK, chosen, table, cluster
<1>. QED  BY <1>2, TypeMoves DEF Fails

LEMMA ClusterTypes ==
    ASSUME TypeOK, NEW key \in Keys, JobRuns(key) \/ OthersDelete(key) \/ OthersCreate(key)
    PROVE  TypeOK'
<1>1. CASE JobRuns(key)
    BY <1>1 DEF JobRuns, TypeOK, chosen, table, procVars, history
<1>2. CASE OthersDelete(key)
    BY <1>2 DEF OthersDelete, HalfWay, TypeOK, chosen, table, procVars
<1>3. CASE OthersCreate(key)
    <2>1. nextObject \in Objects /\ nextObject' \in 1..(MaxObjects + 1)
        BY <1>3, StoredObjectsAssumption DEF OthersCreate, TypeOK, Objects
    <2>. QED  BY <1>3, <2>1 DEF OthersCreate, HalfWay, TypeOK, chosen, table, procVars, Phases
<1>. QED  BY <1>1, <1>2, <1>3

LEMMA TypeInit == Init => TypeOK
BY NullTypes, StoredObjectsAssumption DEF Init, TypeOK, PCs, Phases

LEMMA TypeNext == TypeOK /\ OptionInv /\ [Next]_vars => TypeOK'
<1>. SUFFICES ASSUME TypeOK, OptionInv, [Next]_vars PROVE TypeOK'
    OBVIOUS
<1>1. CASE UNCHANGED vars
    BY <1>1 DEF vars, chosen, table, cluster, procVars, history, TypeOK
<1>2. ASSUME NEW c \in Clients, Asks(c) \/ Step(c) \/ Fails(c) PROVE TypeOK'
    BY <1>2, AskTypes, ObjectSteps, RowSteps, SyncSteps, FailTypes DEF Step
<1>3. ASSUME NEW key \in KeysOf, JobRuns(key) \/ OthersDelete(key) \/ OthersCreate(key) PROVE TypeOK'
    BY <1>3, KeysOfKind, ClusterTypes
<1>. QED  BY <1>1, <1>2, <1>3 DEF Next

-----------------------------------------------------------------------------
(* Numbers are given out in order. *)

\* The operations, and the kinds, whose requests have p as their next step.
Shape(p, op) ==
    /\ p \in {"create", "update", "insert", "option"} => op = "add"
    /\ p \in {"deleteObject", "deleteOption", "deleteRow"} => op = "remove"
    /\ p \in {"next", "write"} => op = "list"
    /\ p \in {"find", "adopt"} => op = "sync"
    /\ p = "update" => kind = "job"
    /\ p \in {"insert", "option"} => kind # "job"
    /\ p \in {"option", "deleteOption"} => kind = "pv"

\* A request that is about one row.
HasRow(p) == p \in {"update", "option", "deleteObject", "deleteOption", "deleteRow"}
             \/ (p = "create" /\ kind = "job")

\* Ids and objects are numbers given out in order...
CountersInv ==
    /\ \A id \in rows : id < nextRow
    /\ \A id \in RowIds : row[id].object < nextObject
    /\ \A key \in Keys : object[key] < nextObject
    /\ \A o \in ours : o < nextObject

\* ... and the row of a request has its name.
RequestInv(p, r) ==
    /\ Shape(p, r.op)
    /\ r.object < nextObject
    /\ HasRow(p) => r.id \in 1..(nextRow - 1) /\ row[r.id].key = r.key

Numbered == CountersInv /\ \A c \in Clients : RequestInv(pc[c], req[c])

LEMMA NumberedOption == ASSUME TypeOK, Numbered PROVE OptionInv
BY StoredObjectsAssumption DEF TypeOK, Numbered, RequestInv, HasRow, OptionInv, RowIds

\* What the table and the counters keep when requests move on.
TableGrows ==
    /\ kind' = kind /\ nextRow <= nextRow' /\ nextObject <= nextObject'
    /\ \A id \in RowIds : id < nextRow => row'[id].key = row[id].key

\* A request may go on with the step p and the local variables r.
Fits(p, r) ==
    /\ Shape(p, r.op)
    /\ r.object < nextObject'
    /\ HasRow(p) => r.id \in 1..(nextRow' - 1) /\ row'[r.id].key = r.key

LEMMA NumberedMove ==
    ASSUME TypeOK, Numbered, TypeOK', NEW c \in Clients, NEW p, NEW r, Moves(c, p, r),
           TableGrows, CountersInv', Fits(p, r)
    PROVE  Numbered'
<1>1. ASSUME NEW d \in Clients, d # c PROVE RequestInv(pc[d], req[d])'
    <2>1. pc'[d] = pc[d] /\ req'[d] = req[d]
        BY <1>1, Moved
    <2>2. RequestInv(pc[d], req[d]) /\ req[d] \in Request
        BY RequestOf DEF Numbered
    <2>3. nextRow \in Nat /\ nextRow' \in Nat /\ nextObject \in Nat /\ nextObject' \in Nat
          /\ nextRow <= MaxRows + 1 /\ MaxRows \in Nat /\ req[d].object \in Nat /\ kind' = kind
        BY <2>2, StoredObjectsAssumption DEF TypeOK, Request, Objects, TableGrows
    <2>4. Shape(pc[d], req[d].op)' /\ (req[d].object < nextObject)' /\ (HasRow(pc[d])' => HasRow(pc[d]))
        BY <2>1, <2>2, <2>3 DEF RequestInv, Shape, HasRow, TableGrows
    <2>5. ASSUME HasRow(pc[d]) PROVE (req[d].id \in 1..(nextRow - 1) /\ row[req[d].id].key = req[d].key)'
        BY <2>1, <2>2, <2>3, <2>5 DEF RequestInv, TableGrows, RowIds
    <2>. QED  BY <2>1, <2>4, <2>5 DEF RequestInv
<1>2. pc'[c] = p /\ req'[c] = r
    BY Moved
<1>3. RequestInv(pc[c], req[c])'
    BY <1>2 DEF RequestInv, Fits, TableGrows, Shape, HasRow
<1>. QED  BY <1>1, <1>3 DEF Numbered

LEMMA NumberedStays ==
    ASSUME TypeOK, Numbered, NEW c \in Clients, UNCHANGED <<kind, table, nextObject, ours>>,
           \A key \in Keys : object'[key] \in {object[key], 0}
    PROVE  TableGrows /\ CountersInv' /\ Fits("idle", NullRequest)
<1>1. nextRow \in Nat /\ nextObject \in Nat /\ 0 < nextObject
    BY StoredObjectsAssumption DEF TypeOK
<1>2. TableGrows
    BY <1>1 DEF TableGrows, table
<1>3. CountersInv'
    BY <1>1 DEF Numbered, CountersInv, table
<1>. QED  BY <1>1, <1>2, <1>3 DEF Fits, Shape, HasRow, NullRequest

\* A row is inserted.
LEMMA NumberedInsert ==
    ASSUME TypeOK, Numbered, NEW key \in Keys, NEW status \in Statuses, NEW o \in Objects \cup {0},
           o < nextObject, Insert(key, status, o), UNCHANGED <<kind, cluster, ours>>
    PROVE  /\ TableGrows /\ CountersInv' /\ Fits("idle", NullRequest)
           /\ nextRow \in 1..(nextRow' - 1) /\ nextRow \in rows' /\ rows \subseteq rows'
           /\ row'[nextRow].key = key /\ row'[nextRow].object = o
           /\ \A id \in rows : row'[id] = row[id]
<1>. DEFINE new == [key |-> key, status |-> status, comment |-> "", object |-> o]
<1>1. /\ nextRow <= MaxRows /\ rows' = rows \cup {nextRow} /\ nextRow' = nextRow + 1
      /\ row' = [row EXCEPT ![nextRow] = new]
    BY DEF Insert
<1>2. new.key = key /\ new.object = o
    OBVIOUS
<1>. HIDE DEF new
<1>3. nextRow \in Nat /\ nextRow \in RowIds /\ nextObject \in Nat /\ 0 < nextObject
      /\ nextObject' = nextObject /\ object' = object
    BY InsertTypes, StoredObjectsAssumption DEF TypeOK, cluster, RowIds
<1>4. \A id \in RowIds : row'[id] = IF id = nextRow THEN new ELSE row[id]
    BY <1>1, <1>3 DEF TypeOK
<1>5. TableGrows
    BY <1>1, <1>3, <1>4 DEF TableGrows, RowIds
<1>6. CountersInv'
    BY <1>1, <1>2, <1>3, <1>4 DEF Numbered, CountersInv, TypeOK, RowIds
<1>7. \A id \in rows : row'[id] = row[id]
    BY <1>1, <1>3, <1>4 DEF Numbered, CountersInv, TypeOK, RowIds
<1>8. Fits("idle", NullRequest)
    BY <1>3 DEF Fits, Shape, HasRow, NullRequest
<1>9. nextRow \in 1..(nextRow' - 1)
    BY <1>1, <1>3 DEF RowIds
<1>10. nextRow \in rows' /\ rows \subseteq rows' /\ row'[nextRow].key = key /\ row'[nextRow].object = o
    BY <1>1, <1>2, <1>3, <1>4
<1>. QED  BY <1>5, <1>6, <1>7, <1>8, <1>9, <1>10

\* A row keeps its name when it is written.
LEMMA NumberedWrite ==
    ASSUME TypeOK, Numbered, TypeOK', UNCHANGED <<kind, rows, nextRow, cluster, ours>>,
           \A id \in RowIds : row'[id].key = row[id].key /\ row'[id].object < nextObject
    PROVE  TableGrows /\ CountersInv' /\ Fits("idle", NullRequest)
<1>1. nextRow \in Nat /\ nextObject \in Nat /\ 0 < nextObject
    BY StoredObjectsAssumption DEF TypeOK
<1>. QED  BY <1>1 DEF TableGrows, Numbered, CountersInv, cluster, Fits, Shape, HasRow, NullRequest

LEMMA NumberedAsk ==
    ASSUME TypeOK, Numbered, TypeOK', NEW c \in Clients, Asks(c)
    PROVE  Numbered'
<1>1. \A r, p : Begin(c, r, p) => Moves(c, p, r) /\ UNCHANGED <<kind, cluster, options, ours>>
    BY MovesBy DEF Begin, chosen
<1>2. nextRow \in Nat /\ nextObject \in Nat /\ 0 < nextObject /\ rows \subseteq RowIds
    BY StoredObjectsAssumption DEF TypeOK
<1>3. ASSUME NEW key \in Keys, NEW at \in Keys, kind = "job",
             Begin(c, Added(key, at, nextRow), "create"), Insert(key, "preparing", 0)
      PROVE  Numbered'
    <2>1. UNCHANGED <<kind, cluster, ours>> /\ Moves(c, "create", Added(key, at, nextRow))
        BY <1>1, <1>3
    <2>2. /\ TableGrows /\ CountersInv' /\ nextRow \in 1..(nextRow' - 1)
          /\ row'[nextRow].key = key /\ nextRow \in RowIds
        BY <1>2, <1>3, <2>1, NumberedInsert, InsertTypes DEF Statuses
    <2>3. /\ Added(key, at, nextRow).op = "add" /\ Added(key, at, nextRow).object = 0
          /\ Added(key, at, nextRow).id = nextRow /\ Added(key, at, nextRow).key = key
        BY <2>2, BegunTypes
    <2>4. Fits("create", Added(key, at, nextRow))
        BY <1>2, <1>3, <2>1, <2>2, <2>3 DEF Fits, Shape, HasRow, cluster
    <2>. QED  BY <2>1, <2>2, <2>4, NumberedMove
<1>4. ASSUME UNCHANGED <<rows, row, nextRow>>, NEW p \in PCs, NEW r \in Request, Begin(c, r, p),
             r.object = 0, Shape(p, r.op),
             HasRow(p) => r.id \in rows /\ row[r.id].key = r.key
      PROVE  Numbered'
    <2>1. UNCHANGED <<kind, table, cluster, ours>> /\ Moves(c, p, r)
        BY <1>1, <1>4 DEF table
    <2>2. TableGrows /\ CountersInv'
        BY <2>1, NumberedStays DEF cluster
    <2>3. HasRow(p) => r.id \in 1..(nextRow - 1) /\ row[r.id].key = r.key
        <3>1. \A id \in rows : id \in 1..(nextRow - 1)
            <4>1. \A id \in rows : id < nextRow
                BY DEF Numbered, CountersInv
            <4>2. \A id \in rows : id \in Nat /\ 1 <= id
                BY <1>2, StoredObjectsAssumption DEF RowIds
            <4>. QED  BY <1>2, <4>1, <4>2
        <3>. QED  BY <1>4, <3>1
    <2>4. nextRow' = nextRow /\ row' = row /\ nextObject' = nextObject
        BY <2>1 DEF cluster, table
    <2>5. Fits(p, r)
        BY <1>2, <1>4, <2>3, <2>4 DEF Fits
    <2>. QED  BY <2>1, <2>2, <2>5, NumberedMove
<1>5. ASSUME UNCHANGED <<rows, row, nextRow>>, NEW key \in Keys, kind # "job", Begin(c, Stored(key), "create")
      PROVE  Numbered'
    BY <1>4, <1>5, BegunTypes DEF PCs, Shape, HasRow
<1>6. ASSUME UNCHANGED <<rows, row, nextRow>>, NEW id \in rows, Begin(c, Removed(row[id].key, id), "deleteObject")
      PROVE  Numbered'
    <2>1. id \in RowIds \cup {0} /\ row[id].key \in Keys
        BY DEF TypeOK, Row
    <2>. DEFINE r == Removed(row[id].key, id)
    <2>2. r \in Request /\ r.op = "remove" /\ r.object = 0 /\ r.id = id /\ r.key = row[id].key
        BY <2>1, RemovedTypes
    <2>. HIDE DEF r
    <2>3. Begin(c, r, "deleteObject")
        BY <1>6 DEF r
    <2>. QED  BY <1>4, <1>6, <2>2, <2>3 DEF PCs, Shape, HasRow
<1>7. ASSUME UNCHANGED <<rows, row, nextRow>>, NEW todo \in SUBSET rows, Begin(c, Listed(todo), "next")
      PROVE  Numbered'
    <2>1. todo \in SUBSET RowIds
        BY <1>2
    <2>2. Listed(todo) \in Request /\ Listed(todo).op = "list" /\ Listed(todo).object = 0
        BY <2>1, NullTypes, BegunTypes
    <2>. QED  BY <1>4, <1>7, <2>2 DEF PCs, Shape, HasRow
<1>8. ASSUME UNCHANGED <<rows, row, nextRow>>, NEW key \in Keys, kind = "job", Begin(c, Synced(key), "find")
      PROVE  Numbered'
    BY <1>4, <1>8, BegunTypes DEF PCs, Shape, HasRow
<1>. QED  BY <1>3, <1>5, <1>6, <1>7, <1>8, AskCases

LEMMA NumberedRequest ==
    ASSUME TypeOK, Numbered, NEW c \in Clients
    PROVE  /\ Shape(pc[c], req[c].op) /\ req[c].object < nextObject
           /\ HasRow(pc[c]) => /\ req[c].id \in 1..(nextRow - 1) /\ req[c].id \in RowIds
                               /\ row[req[c].id].key = req[c].key
           /\ nextRow \in Nat /\ nextObject \in Nat /\ 0 < nextObject
<1>1. nextRow \in Nat /\ nextObject \in Nat /\ 0 < nextObject /\ nextRow <= MaxRows + 1 /\ MaxRows \in Nat
    BY StoredObjectsAssumption DEF TypeOK
<1>2. RequestInv(pc[c], req[c])
    BY DEF Numbered
<1>3. \A id \in 1..(nextRow - 1) : id \in RowIds
    BY <1>1 DEF RowIds
<1>. QED  BY <1>1, <1>2, <1>3 DEF RequestInv

\* A request that goes on with the same row, or ends, and leaves the table alone.
LEMMA NumberedOn ==
    ASSUME TypeOK, Numbered, TypeOK', NEW c \in Clients, NEW p, NEW r, Moves(c, p, r),
           UNCHANGED <<kind, table, nextObject, ours>>,
           \A key \in Keys : object'[key] \in {object[key], 0},
           Shape(p, r.op), r.object = req[c].object,
           HasRow(p) => HasRow(pc[c]) /\ r.id = req[c].id /\ r.key = req[c].key
    PROVE  Numbered'
<1>1. TableGrows /\ CountersInv'
    BY NumberedStays
<1>2. row' = row /\ nextRow' = nextRow /\ nextObject' = nextObject
    BY DEF table
<1>3. Fits(p, r)
    BY <1>2, NumberedRequest DEF Fits
<1>. QED  BY <1>1, <1>3, NumberedMove

LEMMA NumberedReturn ==
    ASSUME TypeOK, Numbered, TypeOK', NEW c \in Clients, Return(c),
           UNCHANGED <<kind, table, nextObject, ours>>,
           \A key \in Keys : object'[key] \in {object[key], 0}
    PROVE  Numbered'
BY NumberedStays, NumberedMove, MovesBy

LEMMA NumberedObjects ==
    ASSUME TypeOK, Numbered, TypeOK', NEW c \in Clients,
           \/ DeployJob(c) \/ CreatePVK8s(c) \/ CreatePVC(c)
           \/ StopJobK8s(c) \/ DeletePVK8s(c) \/ DeletePVCK8s(c)
    PROVE  Numbered'
<1>0. req[c] \in Request /\ req[c].key \in Keys
    BY RequestOf
<1>1. ASSUME DeployJob(c) \/ CreatePVK8s(c) \/ CreatePVC(c) PROVE Numbered'
    <2>1. pc[c] = "create" /\ UNCHANGED <<chosen, table, asks, parted>>
        BY <1>1, CreateCases
    <2>2. CASE Made(c)
        <3>. DEFINE p == IF kind = "job" THEN "update" ELSE "insert"
                    r == [req[c] EXCEPT !.object = nextObject]
        <3>1. Moves(c, p, r)
            BY <2>2 DEF Made
        <3>2. r.op = req[c].op /\ r.key = req[c].key /\ r.id = req[c].id /\ r.object = nextObject
            BY <1>0 DEF Request
        <3>. HIDE DEF r
        <3>3. /\ nextRow \in Nat /\ nextObject \in Nat /\ Shape(pc[c], req[c].op)
              /\ HasRow(pc[c]) => /\ req[c].id \in 1..(nextRow - 1)
                                  /\ row[req[c].id].key = req[c].key
            BY NumberedRequest
        <3>4. nextObject' = nextObject + 1 /\ row' = row /\ rows' = rows /\ nextRow' = nextRow /\ kind' = kind
            BY <2>1, <2>2 DEF Made, table, chosen
        <3>5. TableGrows
            BY <3>3, <3>4 DEF TableGrows
        <3>6. \A key \in Keys : object'[key] \in {object[key], nextObject}
            BY <2>2 DEF Made, TypeOK
        <3>7. CountersInv'
            <4>1. ours' = ours \cup {nextObject}
                BY <2>2 DEF Made
            <4>2. /\ \A id \in RowIds : row[id].object \in Nat
                  /\ \A key \in Keys : object[key] \in Nat
                  /\ \A o \in ours : o \in Nat
                BY DEF TypeOK, Row, Objects
            <4>3. CountersInv
                BY DEF Numbered
            <4>. QED  BY <3>3, <3>4, <3>6, <4>1, <4>2, <4>3 DEF CountersInv
        <3>8. Shape(p, r.op) /\ (HasRow(p) => HasRow(pc[c]))
            BY <2>1, <3>2, <3>3 DEF Shape, HasRow
        <3>9. Fits(p, r)
            BY <3>2, <3>3, <3>4, <3>8 DEF Fits
        <3>. QED  BY <3>1, <3>5, <3>7, <3>9, NumberedMove
    <2>3. CASE Refused(c)
        BY <2>1, <2>3, NumberedReturn DEF Refused, chosen, cluster
    <2>. QED  BY <1>1, <2>2, <2>3, CreateCases
<1>2. ASSUME StopJobK8s(c) \/ DeletePVK8s(c) \/ DeletePVCK8s(c) PROVE Numbered'
    <2>. DEFINE p == IF kind = "pv" THEN "deleteOption" ELSE "deleteRow"
    <2>1. /\ pc[c] = "deleteObject" /\ UNCHANGED <<kind, table, nextObject, ours>>
          /\ Moves(c, p, req[c])
        BY <1>2, DeleteCases, MovesBy DEF chosen
    <2>2. \A key \in Keys : object'[key] \in {object[key], 0}
        BY <1>2, DeleteCases DEF TypeOK
    <2>3. Shape(p, req[c].op) /\ (HasRow(p) => HasRow(pc[c]))
        BY <2>1, NumberedRequest DEF Shape, HasRow
    <2>. HIDE DEF p
    <2>. QED  BY <2>1, <2>2, <2>3, NumberedOn
<1>. QED  BY <1>1, <1>2

LEMMA NumberedRows ==
    ASSUME TypeOK, Numbered, TypeOK', NEW c \in Clients,
           UpdateJob(c) \/ AddRow(c) \/ AddPVOption(c) \/ DeletePVOption(c) \/ DeleteRow(c)
    PROVE  Numbered'
<1>0. /\ req[c] \in Request /\ req[c].key \in Keys /\ req[c].object \in Objects \cup {0}
      /\ req[c].object < nextObject /\ Shape(pc[c], req[c].op)
    BY RequestOf, NumberedRequest
<1>1. CASE UpdateJob(c)
    <2>1. \A id \in RowIds : row[id] \in Row /\ row[id].object < nextObject
        BY DEF TypeOK, Numbered, CountersInv
    <2>2. \A id \in RowIds : row'[id].key = row[id].key /\ row'[id].object < nextObject
        <3>1. \A id \in RowIds : row'[id] = row[id] \/
                 row'[id] = [row[id] EXCEPT !.status = "uncompleted", !.object = req[c].object]
            BY <1>1 DEF UpdateJob, TypeOK
        <3>. QED  BY <1>0, <2>1, <3>1 DEF Row
    <2>3. TableGrows /\ CountersInv' /\ Fits("idle", NullRequest)
        BY <1>1, <2>2, NumberedWrite DEF UpdateJob, chosen, history
    <2>. QED  BY <1>1, <2>3, NumberedMove, MovesBy DEF UpdateJob
<1>2. CASE AddRow(c)
    <2>. DEFINE r == [req[c] EXCEPT !.id = nextRow]
    <2>1. Insert(req[c].key, "stored", req[c].object) /\ UNCHANGED <<kind, cluster, ours>> /\ pc[c] = "insert"
        BY <1>2 DEF AddRow, chosen, history
    <2>2. /\ TableGrows /\ CountersInv' /\ Fits("idle", NullRequest)
          /\ nextRow \in 1..(nextRow' - 1) /\ row'[nextRow].key = req[c].key
        BY <1>0, <2>1, NumberedInsert DEF Statuses
    <2>3. r.op = req[c].op /\ r.key = req[c].key /\ r.id = nextRow /\ r.object = req[c].object
        BY <1>0 DEF Request
    <2>4. Moves(c, "idle", NullRequest) \/ (kind = "pv" /\ Moves(c, "option", r))
        BY <1>2, MovesBy DEF AddRow, Goto, Moves
    <2>. HIDE DEF r
    <2>5. kind = "pv" => Fits("option", r)
        BY <1>0, <2>1, <2>2, <2>3 DEF Fits, Shape, cluster
    <2>. QED  BY <2>2, <2>4, <2>5, NumberedMove
<1>3. CASE AddPVOption(c)
    <2>1. UNCHANGED <<kind, rows, nextRow, cluster, ours, row>>
        BY <1>3 DEF AddPVOption, chosen, history
    <2>2. \A id \in RowIds : row'[id].key = row[id].key /\ row'[id].object < nextObject
        BY <2>1 DEF Numbered, CountersInv
    <2>. QED  BY <1>3, <2>1, <2>2, NumberedWrite, NumberedMove, MovesBy DEF AddPVOption
<1>4. CASE DeletePVOption(c)
    <2>1. UNCHANGED <<kind, rows, nextRow, cluster, ours, row>> /\ Moves(c, "deleteRow", req[c])
          /\ pc[c] = "deleteOption"
        BY <1>4, MovesBy DEF DeletePVOption, chosen, history
    <2>2. \A id \in RowIds : row'[id].key = row[id].key /\ row'[id].object < nextObject
        BY <2>1 DEF Numbered, CountersInv
    <2>3. Fits("deleteRow", req[c])
        BY <1>0, <2>1, NumberedRequest DEF Fits, Shape, HasRow, cluster
    <2>. QED  BY <2>1, <2>2, <2>3, NumberedWrite, NumberedMove
<1>5. CASE DeleteRow(c)
    <2>1. UNCHANGED <<kind, nextRow, nextObject, object, ours, row>> /\ rows' \subseteq rows
        BY <1>5 DEF DeleteRow, chosen, history, cluster
    <2>2. TableGrows /\ CountersInv' /\ Fits("idle", NullRequest)
        BY <2>1, NumberedRequest DEF TableGrows, Numbered, CountersInv, Fits, Shape, HasRow, NullRequest
    <2>. QED  BY <1>5, <2>2, NumberedMove, MovesBy DEF DeleteRow
<1>. QED  BY <1>1, <1>2, <1>3, <1>4, <1>5

LEMMA NumberedSync ==
    ASSUME TypeOK, Numbered, TypeOK', NEW c \in Clients,
           SyncJobK8sStatus(c) \/ WriteStatus(c) \/ ListK8sJobs(c) \/ SyncJobData(c)
    PROVE  Numbered'
<1>0. req[c] \in Request /\ Shape(pc[c], req[c].op) /\ nextObject \in Nat
    BY RequestOf, NumberedRequest
<1>1. CASE SyncJobK8sStatus(c)
    <2>1. PICK r \in Request : Moves(c, "write", r) /\ r.op = req[c].op /\ r.object = req[c].object
        BY <1>1, ReadMoves
    <2>2. UNCHANGED <<kind, table, object, nextObject, ours>> /\ pc[c] = "next"
        BY <1>1 DEF SyncJobK8sStatus, chosen, cluster, history
    <2>3. Shape("write", r.op) /\ ~HasRow("write")
        BY <1>0, <2>1, <2>2 DEF Shape, HasRow
    <2>. QED  BY <2>1, <2>2, <2>3, NumberedOn
<1>2. CASE WriteStatus(c)
    <2>1. UNCHANGED <<kind, rows, nextRow, cluster, ours>> /\ pc[c] = "write"
        BY <1>2 DEF WriteStatus, chosen, history
    <2>2. \A id \in RowIds : row[id] \in Row /\ row[id].object < nextObject
        BY DEF TypeOK, Numbered, CountersInv
    <2>3. \A id \in RowIds : row'[id].key = row[id].key /\ row'[id].object = row[id].object
        BY <1>2, <2>2 DEF WriteStatus, TypeOK, Row
    <2>4. TableGrows /\ CountersInv' /\ Fits("idle", NullRequest)
        BY <2>1, <2>2, <2>3, NumberedWrite
    <2>5. Moves(c, "idle", NullRequest) \/ Moves(c, "next", req[c])
        BY <1>2, MovesBy DEF WriteStatus
    <2>6. Fits("next", req[c])
        BY <1>0, <2>1, NumberedRequest DEF Fits, Shape, HasRow, cluster
    <2>. QED  BY <2>4, <2>5, <2>6, NumberedMove
<1>3. CASE ListK8sJobs(c)
    <2>. DEFINE found == {key \in Keys : key[1] = req[c].key[1] /\ object[key] # 0}
                r == [req[c] EXCEPT !.found = found]
    <2>1. r.op = req[c].op /\ r.object = req[c].object
        BY <1>0 DEF Request
    <2>2. Return(c) \/ Moves(c, "adopt", r)
        BY <1>3 DEF ListK8sJobs, Goto, Moves
    <2>. HIDE DEF r
    <2>3. UNCHANGED <<kind, table, object, nextObject, ours>> /\ pc[c] = "find"
        BY <1>3 DEF ListK8sJobs, chosen, cluster, history
    <2>4. Shape("adopt", r.op) /\ ~HasRow("adopt")
        BY <1>0, <2>1, <2>3 DEF Shape, HasRow
    <2>. QED  BY <2>1, <2>2, <2>3, <2>4, NumberedOn, NumberedReturn
<1>4. CASE SyncJobData(c)
    <2>1. PICK key \in req[c].found :
            /\ UNCHANGED <<rows, row, nextRow>> \/ Insert(key, "running", object[key])
            /\ Return(c) \/ (req' = [req EXCEPT ![c].found = @ \ {key}] /\ UNCHANGED pc)
        BY <1>4 DEF SyncJobData
    <2>2. key \in Keys /\ object[key] \in Objects \cup {0} /\ "running" \in Statuses
          /\ object[key] < nextObject
        BY <1>0 DEF Request, TypeOK, Statuses, Numbered, CountersInv
    <2>3. UNCHANGED <<kind, options, cluster, nextObject, object, ours>> /\ pc[c] = "adopt"
        BY <1>4 DEF SyncJobData, chosen, history, cluster
    <2>4. TableGrows /\ CountersInv' /\ Fits("idle", NullRequest)
        BY <2>1, <2>2, <2>3, NumberedInsert, NumberedStays DEF table
    <2>. DEFINE r == [req[c] EXCEPT !.found = @ \ {key}]
    <2>5. r.op = req[c].op /\ r.object = req[c].object
        BY <1>0 DEF Request
    <2>6. Return(c) \/ Moves(c, "adopt", r)
        BY <2>1, <2>3 DEF Moves, TypeOK
    <2>. HIDE DEF r
    <2>7. Fits("adopt", r)
        BY <1>0, <2>3, <2>5, NumberedRequest DEF Fits, Shape, HasRow
    <2>. QED  BY <2>4, <2>6, <2>7, NumberedMove, MovesBy
<1>. QED  BY <1>1, <1>2, <1>3, <1>4

LEMMA NumberedCluster ==
    ASSUME TypeOK, Numbered, TypeOK', NEW key \in Keys,
           JobRuns(key) \/ OthersDelete(key) \/ OthersCreate(key)
    PROVE  Numbered'
<1>1. /\ UNCHANGED <<kind, rows, row, nextRow, pc, req, ours>>
      /\ nextObject' \in {nextObject, nextObject + 1}
      /\ \A k \in Keys : object'[k] \in {object[k], 0} \/ (object'[k] = nextObject /\ nextObject' = nextObject + 1)
    BY DEF JobRuns, OthersDelete, OthersCreate, chosen, table, procVars, history, TypeOK
<1>2. nextObject \in Nat /\ 0 < nextObject /\ nextRow \in Nat
    BY StoredObjectsAssumption DEF TypeOK
<1>3. CountersInv'
    <2>1. /\ \A id \in RowIds : row[id].object \in Nat
          /\ \A k \in Keys : object[k] \in Nat
          /\ \A o \in ours : o \in Nat
        BY DEF TypeOK, Row, Objects
    <2>2. CountersInv
        BY DEF Numbered
    <2>. QED  BY <1>1, <1>2, <2>1, <2>2 DEF CountersInv
<1>4. ASSUME NEW c \in Clients PROVE RequestInv(pc[c], req[c])'
    <2>1. req[c].object \in Nat
        BY RequestOf DEF Objects
    <2>2. RequestInv(pc[c], req[c])
        BY DEF Numbered
    <2>. QED  BY <1>1, <1>2, <2>1, <2>2 DEF RequestInv, Shape, HasRow
<1>. QED  BY <1>3, <1>4 DEF Numbered

LEMMA NumberedFail ==
    ASSUME TypeOK, Numbered, TypeOK', NEW c \in Clients, Fails(c)
    PROVE  Numbered'
BY NumberedReturn DEF Fails, chosen, cluster

LEMMA NumberedNext == TypeOK /\ Numbered /\ TypeOK' /\ [Next]_vars => Numbered'
<1>. SUFFICES ASSUME TypeOK, Numbered, TypeOK', [Next]_vars PROVE Numbered'
    OBVIOUS
<1>1. CASE UNCHANGED vars
    BY <1>1 DEF vars, chosen, table, cluster, procVars, history, Numbered, CountersInv,
                RequestInv, Shape, HasRow
<1>2. ASSUME NEW c \in Clients, Asks(c) \/ Step(c) \/ Fails(c) PROVE Numbered'
    BY <1>2, NumberedAsk, NumberedObjects, NumberedRows, NumberedSync, NumberedFail DEF Step
<1>3. ASSUME NEW key \in KeysOf, JobRuns(key) \/ OthersDelete(key) \/ OthersCreate(key) PROVE Numbered'
    BY <1>3, KeysOfKind, NumberedCluster
<1>. QED  BY <1>1, <1>2, <1>3 DEF Next

LEMMA NumberedInit == Init => Numbered
<1>. SUFFICES ASSUME Init PROVE Numbered
    OBVIOUS
<1>1. /\ rows = {} /\ nextRow = 1 /\ nextObject = 1 /\ ours = {}
      /\ \A id \in RowIds : row[id].object = 0
      /\ \A key \in Keys : object[key] = 0
    BY DEF Init, NullRow
<1>2. \A c \in Clients : pc[c] = "idle" /\ req[c] = NullRequest
    BY DEF Init
<1>3. CountersInv
    BY <1>1 DEF CountersInv
<1>4. RequestInv("idle", NullRequest)
    BY <1>1 DEF RequestInv, Shape, HasRow, NullRequest
<1>. QED  BY <1>2, <1>3, <1>4 DEF Numbered

LEMMA Typed == Spec => [](TypeOK /\ Numbered)
<1>1. Init => TypeOK /\ Numbered
    BY TypeInit, NumberedInit
<1>2. TypeOK /\ Numbered /\ [Next]_vars => (TypeOK /\ Numbered)'
    BY NumberedOption, TypeNext, NumberedNext
<1>. QED  BY <1>1, <1>2, PTL DEF Spec

\* Every variable keeps its type, whatever fails and however requests overlap: no id and no
\* object number is made up (StoredObjects as a whole).
THEOREM TypeCorrect == Spec => []TypeOK
BY Typed, PTL

-----------------------------------------------------------------------------
(* Where the object of a row is made. *)

\* A job is made under the name of its row, unless the names are known to be parted.
Sent ==
    \A c \in Clients : pc[c] = "create" /\ req[c].at # req[c].key => {req[c].at, req[c].key} \subseteq parted

-----------------------------------------------------------------------------
(* Jobs: the row goes in first, and goes last. *)

\* The row of a job that is being made is there, and nobody removes it.
MakersKeepRow(key) ==
    \A c \in Clients : pc[c] \in {"create", "update"} /\ req[c].key = key =>
        /\ req[c].id \in rows
        /\ \A d \in Clients : pc[d] \in {"deleteObject", "deleteRow"} => req[d].id # req[c].id

\* A job that the server made has a row that nobody is about to delete.
JobKeepsRow(key) ==
    object[key] \in ours =>
        \E id \in RowsOf(key) : \A d \in Clients : pc[d] = "deleteRow" => req[d].id # id

JobsInv == kind = "job" => \A key \in Keys \ parted : MakersKeepRow(key) /\ JobKeepsRow(key)

\* Rows stay, and the server makes no job, when requests move on that are not about rows.
LEMMA JobsQuiet ==
    ASSUME TypeOK, JobsInv, NEW c \in Clients, NEW p, NEW r, Moves(c, p, r),
           p \notin {"create", "update", "deleteObject", "deleteRow"},
           kind' = kind, parted' = parted, rows \subseteq rows',
           \A id \in rows : row'[id].key = row[id].key,
           \A key \in Keys : object'[key] \in ours' => object[key] \in ours
    PROVE  JobsInv'
<1>1. SUFFICES ASSUME kind = "job", NEW key \in Keys \ parted
               PROVE  MakersKeepRow(key)' /\ JobKeepsRow(key)'
    BY DEF JobsInv
<1>2. MakersKeepRow(key) /\ JobKeepsRow(key)
    BY <1>1 DEF JobsInv
<1>3. /\ pc'[c] = p /\ \A d \in Clients \ {c} : pc'[d] = pc[d] /\ req'[d] = req[d]
    BY Moved
<1>4. MakersKeepRow(key)'
    BY <1>2, <1>3 DEF MakersKeepRow
<1>5. JobKeepsRow(key)'
    BY <1>1, <1>2, <1>3 DEF JobKeepsRow, RowsOf
<1>. QED  BY <1>4, <1>5

LEMMA JobsAsk ==
    ASSUME TypeOK, Numbered, JobsInv, Numbered', NEW c \in Clients, Asks(c)
    PROVE  JobsInv'
<1>1. \A r, p : Begin(c, r, p) =>
          Moves(c, p, r) /\ UNCHANGED <<kind, object, ours>>
    BY MovesBy DEF Begin, chosen, cluster
<1>2. ASSUME NEW key \in Keys, NEW at \in Keys, kind = "job",
             Begin(c, Added(key, at, nextRow), "create"), Insert(key, "preparing", 0), Placed(key, at)
      PROVE  JobsInv'
    <2>1. SUFFICES ASSUME NEW k \in Keys \ parted' PROVE MakersKeepRow(k)' /\ JobKeepsRow(k)'
        BY <1>2 DEF JobsInv
    <2>2. MakersKeepRow(k) /\ JobKeepsRow(k)
        BY <1>2 DEF JobsInv, Placed
    <2>. DEFINE r == Added(key, at, nextRow)
    <2>3. nextRow \in RowIds /\ nextRow \in Nat /\ UNCHANGED <<kind, cluster, ours>>
        BY <1>2, InsertTypes, NumberedRequest DEF Statuses, Begin, chosen
    <2>4. r.id = nextRow /\ r.key = key
        BY <2>3, BegunTypes
    <2>. HIDE DEF r
    <2>5. /\ pc'[c] = "create" /\ req'[c] = r
          /\ \A d \in Clients \ {c} : pc'[d] = pc[d] /\ req'[d] = req[d]
        BY <1>1, <1>2, Moved DEF r
    <2>6. /\ nextRow \in rows' /\ rows \subseteq rows' /\ row'[nextRow].key = key
          /\ \A id \in rows : row'[id] = row[id]
        <3>1. 0 < nextObject /\ 0 \in Objects \cup {0} /\ "preparing" \in Statuses
            BY NumberedRequest DEF Statuses
        <3>. QED  BY <1>2, <2>3, <3>1, NumberedInsert
    <2>7. \A d \in Clients : pc[d] \in {"deleteObject", "deleteRow"} => req[d].id # nextRow
        BY <2>3, NumberedRequest DEF HasRow
    <2>8. \A d \in Clients : pc'[d] \in {"deleteObject", "deleteRow"} =>
              pc[d] = pc'[d] /\ req'[d] = req[d]
        BY <2>5
    <2>9. MakersKeepRow(k)'
        BY <2>2, <2>4, <2>5, <2>6, <2>7, <2>8 DEF MakersKeepRow
    <2>10. JobKeepsRow(k)'
        BY <2>2, <2>3, <2>6, <2>8 DEF JobKeepsRow, RowsOf, cluster
    <2>. QED  BY <2>9, <2>10
<1>3. ASSUME UNCHANGED <<rows, row, nextRow>>, NEW id \in rows,
             Begin(c, Removed(row[id].key, id), "deleteObject"), Hastened(id)
      PROVE  JobsInv'
    <2>1. SUFFICES ASSUME kind = "job", NEW k \in Keys \ parted' PROVE MakersKeepRow(k)' /\ JobKeepsRow(k)'
        BY <1>1, <1>3 DEF JobsInv
    <2>2. k \notin parted /\ MakersKeepRow(k) /\ JobKeepsRow(k)
        BY <1>3, <2>1 DEF JobsInv, Hastened
    <2>. DEFINE r == Removed(row[id].key, id)
    <2>3. id \in RowIds \cup {0} /\ row[id].key \in Keys
        BY DEF TypeOK, Row
    <2>4. r.id = id /\ r.key = row[id].key
        BY <2>3, BegunTypes
    <2>. HIDE DEF r
    <2>5. /\ pc'[c] = "deleteObject" /\ req'[c] = r
          /\ \A d \in Clients \ {c} : pc'[d] = pc[d] /\ req'[d] = req[d]
        BY <1>1, <1>3, Moved DEF r
    <2>6. ASSUME NEW d \in Clients, pc[d] \in {"create", "update"}, req[d].key = k
          PROVE  req[d].id # id
        <3>1. req[d].op = "add" /\ row[req[d].id].key = k
            BY <2>1, <2>6, NumberedRequest DEF Shape, HasRow
        <3>. QED  BY <1>3, <2>1, <3>1 DEF Hastened
    <2>7. MakersKeepRow(k)'
        BY <1>3, <2>2, <2>4, <2>5, <2>6 DEF MakersKeepRow
    <2>8. JobKeepsRow(k)'
        BY <1>1, <1>3, <2>2, <2>5 DEF JobKeepsRow, RowsOf
    <2>. QED  BY <2>7, <2>8
<1>4. ASSUME UNCHANGED <<rows, row, nextRow>>, NEW todo \in SUBSET rows, Begin(c, Listed(todo), "next"),
             parted' = parted
      PROVE  JobsInv'
    BY <1>1, <1>4, JobsQuiet
<1>5. ASSUME UNCHANGED <<rows, row, nextRow>>, NEW key \in Keys, Begin(c, Synced(key), "find"),
             parted' = parted
      PROVE  JobsInv'
    BY <1>1, <1>5, JobsQuiet
<1>6. ASSUME NEW key \in Keys, kind # "job", Begin(c, Stored(key), "create")
      PROVE  JobsInv'
    BY <1>1, <1>6 DEF JobsInv
<1>. QED  BY <1>2, <1>3, <1>4, <1>5, <1>6, AskCases

LEMMA JobsObjects ==
    ASSUME TypeOK, Numbered, Sent, JobsInv, NEW c \in Clients,
           \/ DeployJob(c) \/ CreatePVK8s(c) \/ CreatePVC(c)
           \/ StopJobK8s(c) \/ DeletePVK8s(c) \/ DeletePVCK8s(c)
    PROVE  JobsInv'
<1>0. req[c] \in Request /\ req[c].key \in Keys
    BY RequestOf
<1>1. ASSUME DeployJob(c) \/ CreatePVK8s(c) \/ CreatePVC(c) PROVE JobsInv'
    <2>1. pc[c] = "create" /\ UNCHANGED <<kind, table, rows, row, parted>>
        BY <1>1, CreateCases DEF chosen, table
    <2>2. CASE Made(c)
        <3>. DEFINE p == IF kind = "job" THEN "update" ELSE "insert"
                    r == [req[c] EXCEPT !.object = nextObject]
        <3>1. Moves(c, p, r)
            BY <2>2 DEF Made
        <3>2. r.key = req[c].key /\ r.id = req[c].id
            BY <1>0 DEF Request
        <3>. HIDE DEF r
        <3>3. SUFFICES ASSUME kind = "job", NEW k \in Keys \ parted PROVE MakersKeepRow(k)' /\ JobKeepsRow(k)'
            BY <2>1 DEF JobsInv
        <3>4. MakersKeepRow(k) /\ JobKeepsRow(k)
            BY <3>3 DEF JobsInv
        <3>5. /\ pc'[c] = "update" /\ req'[c] = r
              /\ \A d \in Clients \ {c} : pc'[d] = pc[d] /\ req'[d] = req[d]
            BY <3>1, <3>3, Moved
        <3>6. MakersKeepRow(k)'
            BY <2>1, <3>2, <3>4, <3>5 DEF MakersKeepRow
        <3>7. CASE k = req[c].at
            <4>0. k = req[c].key
                BY <2>1, <3>3, <3>7 DEF Sent
            <4>1. req[c].id \in RowsOf(k) /\ req[c].id \in rows
                BY <2>1, <3>3, <3>4, <4>0, NumberedRequest DEF MakersKeepRow, RowsOf, HasRow
            <4>. QED  BY <2>1, <3>4, <3>5, <3>6, <4>0, <4>1 DEF MakersKeepRow, JobKeepsRow, RowsOf
        <3>8. CASE k # req[c].at
            <4>1. object'[k] = object[k] /\ object[k] < nextObject /\ ours' = ours \cup {nextObject}
                  /\ object[k] \in Nat /\ nextObject \in Nat
                BY <2>2, <3>8, NumberedRequest DEF Made, TypeOK, Numbered, CountersInv, Objects
            <4>. QED  BY <2>1, <3>4, <3>5, <3>6, <4>1 DEF JobKeepsRow, RowsOf
        <3>. QED  BY <3>7, <3>8
    <2>3. CASE Refused(c)
        <3>1. Moves(c, "idle", NullRequest) /\ UNCHANGED <<object, ours>>
            BY <2>3, MovesBy DEF Refused, cluster
        <3>. QED  BY <2>1, <3>1, JobsQuiet
    <2>. QED  BY <1>1, <2>2, <2>3, CreateCases
<1>2. ASSUME StopJobK8s(c) \/ DeletePVK8s(c) \/ DeletePVCK8s(c) PROVE JobsInv'
    <2>1. SUFFICES ASSUME kind = "job", NEW k \in Keys \ parted PROVE MakersKeepRow(k)' /\ JobKeepsRow(k)'
        BY <1>2, DeleteCases DEF JobsInv, chosen
    <2>2. MakersKeepRow(k) /\ JobKeepsRow(k)
        BY <2>1 DEF JobsInv
    <2>3. /\ pc[c] = "deleteObject" /\ UNCHANGED <<rows, row, ours>>
          /\ object' = [object EXCEPT ![req[c].key] = 0]
          /\ Moves(c, "deleteRow", req[c])
        BY <1>2, <2>1, DeleteCases, MovesBy DEF table
    <2>4. /\ pc'[c] = "deleteRow" /\ req' = req
          /\ \A d \in Clients \ {c} : pc'[d] = pc[d]
        BY <1>2, <2>3, DeleteCases, Moved
    <2>5. MakersKeepRow(k)'
        BY <2>2, <2>3, <2>4 DEF MakersKeepRow
    <2>6. JobKeepsRow(k)'
        <3>1. CASE k = req[c].key
            <4>1. object'[k] = 0 /\ 0 \notin ours
                BY <1>0, <2>3, <3>1 DEF TypeOK, Objects
            <4>. QED  BY <2>3, <4>1 DEF JobKeepsRow
        <3>2. CASE k # req[c].key
            <4>1. object'[k] = object[k]
                BY <1>0, <2>3, <3>2 DEF TypeOK
            <4>2. row[req[c].id].key = req[c].key
                BY <2>3, NumberedRequest DEF HasRow
            <4>. QED  BY <2>2, <2>3, <2>4, <3>2, <4>1, <4>2 DEF JobKeepsRow, RowsOf
        <3>. QED  BY <3>1, <3>2
    <2>. QED  BY <2>5, <2>6
<1>. QED  BY <1>1, <1>2

\* What the writes of a request leave of the rows.
LEMMA RowsKept ==
    ASSUME TypeOK, Numbered, NEW c \in Clients,
           \/ UpdateJob(c) \/ AddRow(c) \/ AddPVOption(c) \/ DeletePVOption(c)
           \/ WriteStatus(c) \/ ListK8sJobs(c) \/ SyncJobData(c) \/ SyncJobK8sStatus(c)
    PROVE  /\ UNCHANGED <<chosen, cluster, asks, history>>
           /\ rows \subseteq rows' /\ \A id \in rows : row'[id].key = row[id].key
<1>1. UNCHANGED <<chosen, cluster, asks, history>>
    BY DEF UpdateJob, AddRow, AddPVOption, DeletePVOption, WriteStatus, ListK8sJobs, SyncJobData,
           SyncJobK8sStatus
<1>2. CASE UpdateJob(c) \/ WriteStatus(c)
    <2>1. \A id \in RowIds : row[id] \in Row
        BY DEF TypeOK
    <2>. QED  BY <1>1, <1>2, <2>1 DEF UpdateJob, WriteStatus, TypeOK, Row
<1>3. CASE AddPVOption(c) \/ DeletePVOption(c) \/ ListK8sJobs(c) \/ SyncJobK8sStatus(c)
    BY <1>1, <1>3 DEF AddPVOption, DeletePVOption, ListK8sJobs, SyncJobK8sStatus, table
<1>4. CASE AddRow(c)
    <2>1. Insert(req[c].key, "stored", req[c].object) /\ "stored" \in Statuses
          /\ req[c].key \in Keys /\ req[c].object \in Objects \cup {0} /\ req[c].object < nextObject
        BY <1>4, RequestOf, NumberedRequest DEF AddRow, Statuses
    <2>. QED  BY <1>1, <2>1, NumberedInsert DEF chosen, history
<1>5. CASE SyncJobData(c)
    <2>1. PICK key \in req[c].found : UNCHANGED <<rows, row, nextRow>> \/ Insert(key, "running", object[key])
        BY <1>5 DEF SyncJobData
    <2>2. key \in Keys /\ object[key] \in Objects \cup {0} /\ "running" \in Statuses
          /\ object[key] < nextObject
        BY RequestOf DEF TypeOK, Statuses, Numbered, CountersInv
    <2>. QED  BY <1>1, <2>1, <2>2, NumberedInsert DEF chosen, history
<1>. QED  BY <1>2, <1>3, <1>4, <1>5

\* How they go on.
LEMMA RowsMove ==
    ASSUME TypeOK, Numbered, NEW c \in Clients
    PROVE  /\ UpdateJob(c) \/ AddPVOption(c) => Moves(c, "idle", NullRequest)
           /\ AddRow(c) => \/ kind # "pv" /\ Moves(c, "idle", NullRequest)
                           \/ kind = "pv" /\ Moves(c, "option", [req[c] EXCEPT !.id = nextRow])
           /\ DeletePVOption(c) => Moves(c, "deleteRow", req[c])
           /\ WriteStatus(c) => Moves(c, "idle", NullRequest) \/ Moves(c, "next", req[c])
           /\ ListK8sJobs(c) =>
                \/ Moves(c, "idle", NullRequest)
                \/ Moves(c, "adopt", [req[c] EXCEPT !.found =
                                {key \in Keys : key[1] = req[c].key[1] /\ object[key] # 0}])
           /\ SyncJobData(c) =>
                \/ Moves(c, "idle", NullRequest)
                \/ \E key \in req[c].found : Moves(c, "adopt", [req[c] EXCEPT !.found = @ \ {key}])
<1>1. UpdateJob(c) \/ AddPVOption(c) => Moves(c, "idle", NullRequest)
    BY MovesBy DEF UpdateJob, AddPVOption
<1>2. AddRow(c) => \/ kind # "pv" /\ Moves(c, "idle", NullRequest)
                   \/ kind = "pv" /\ Moves(c, "option", [req[c] EXCEPT !.id = nextRow])
    BY MovesBy DEF AddRow, Goto, Moves
<1>3. DeletePVOption(c) => Moves(c, "deleteRow", req[c])
    BY MovesBy DEF DeletePVOption
<1>4. WriteStatus(c) => Moves(c, "idle", NullRequest) \/ Moves(c, "next", req[c])
    BY MovesBy DEF WriteStatus
<1>5. ListK8sJobs(c) =>
        \/ Moves(c, "idle", NullRequest)
        \/ Moves(c, "adopt", [req[c] EXCEPT !.found =
                        {key \in Keys : key[1] = req[c].key[1] /\ object[key] # 0}])
    BY MovesBy DEF ListK8sJobs, Goto, Moves
<1>6. SyncJobData(c) =>
        \/ Moves(c, "idle", NullRequest)
        \/ \E key \in req[c].found : Moves(c, "adopt", [req[c] EXCEPT !.found = @ \ {key}])
    BY MovesBy DEF SyncJobData, Moves, TypeOK
<1>. QED  BY <1>1, <1>2, <1>3, <1>4, <1>5, <1>6

LEMMA JobsRows ==
    ASSUME TypeOK, Numbered, JobsInv, NEW c \in Clients,
           \/ UpdateJob(c) \/ AddRow(c) \/ AddPVOption(c) \/ DeletePVOption(c)
           \/ WriteStatus(c) \/ ListK8sJobs(c) \/ SyncJobData(c) \/ SyncJobK8sStatus(c)
    PROVE  JobsInv'
<1>1. /\ kind' = kind /\ parted' = parted /\ rows \subseteq rows' /\ object' = object /\ ours' = ours
      /\ \A id \in rows : row'[id].key = row[id].key
    BY RowsKept DEF chosen, history, cluster
<1>2. CASE DeletePVOption(c)
    <2>1. kind # "job"
        BY <1>2, NumberedRequest DEF DeletePVOption, Shape
    <2>. QED  BY <1>1, <2>1 DEF JobsInv
<1>3. CASE SyncJobK8sStatus(c)
    BY <1>1, <1>3, ReadMoves, JobsQuiet
<1>4. CASE UpdateJob(c) \/ AddRow(c) \/ AddPVOption(c) \/ WriteStatus(c) \/ ListK8sJobs(c) \/ SyncJobData(c)
    <2>1. PICK p, r : Moves(c, p, r) /\ p \in {"idle", "option", "next", "adopt"}
        BY <1>4, RowsMove
    <2>. QED  BY <1>1, <2>1, JobsQuiet
<1>. QED  BY <1>2, <1>3, <1>4

LEMMA JobsDeleteRow ==
    ASSUME TypeOK, Numbered, JobsInv, NEW c \in Clients, DeleteRow(c)
    PROVE  JobsInv'
<1>1. SUFFICES ASSUME kind = "job", NEW k \in Keys \ parted PROVE MakersKeepRow(k)' /\ JobKeepsRow(k)'
    BY DEF JobsInv, DeleteRow, chosen, history
<1>2. MakersKeepRow(k) /\ JobKeepsRow(k)
    BY <1>1 DEF JobsInv
<1>3. /\ pc[c] = "deleteRow" /\ rows' = rows \ {req[c].id} /\ UNCHANGED <<row, object, ours>>
      /\ Moves(c, "idle", NullRequest)
    BY MovesBy DEF DeleteRow, cluster, history
<1>4. /\ pc'[c] = "idle" /\ \A d \in Clients \ {c} : pc'[d] = pc[d] /\ req'[d] = req[d]
    BY <1>3, Moved
<1>5. MakersKeepRow(k)'
    BY <1>2, <1>3, <1>4 DEF MakersKeepRow
<1>6. JobKeepsRow(k)'
    BY <1>2, <1>3, <1>4 DEF JobKeepsRow, RowsOf
<1>. QED  BY <1>5, <1>6

LEMMA JobsCluster ==
    ASSUME TypeOK, Numbered, JobsInv, NEW key \in Keys,
           JobRuns(key) \/ OthersDelete(key) \/ OthersCreate(key)
    PROVE  JobsInv'
<1>1. /\ UNCHANGED <<kind, rows, row, pc, req, ours, parted>>
      /\ \A k \in Keys : object'[k] \in {object[k], 0, nextObject}
    BY DEF JobRuns, OthersDelete, OthersCreate, chosen, table, procVars, history, TypeOK
<1>2. nextObject \notin ours /\ 0 \notin ours
    BY NumberedRequest, StoredObjectsAssumption DEF Numbered, CountersInv, TypeOK, Objects
<1>. QED  BY <1>1, <1>2 DEF JobsInv, MakersKeepRow, JobKeepsRow, RowsOf

LEMMA JobsFail ==
    ASSUME TypeOK, Numbered, JobsInv, NEW c \in Clients, Fails(c)
    PROVE  JobsInv'
<1>1. Moves(c, "idle", NullRequest) /\ UNCHANGED <<kind, parted, rows, row, object, ours>>
    BY MovesBy DEF Fails, chosen, table, cluster
<1>. QED  BY <1>1, JobsQuiet

LEMMA JobsNext == TypeOK /\ Numbered /\ Sent /\ JobsInv /\ Numbered' /\ [Next]_vars => JobsInv'
<1>. SUFFICES ASSUME TypeOK, Numbered, Sent, JobsInv, Numbered', [Next]_vars PROVE JobsInv'
    OBVIOUS
<1>1. CASE UNCHANGED vars
    BY <1>1 DEF vars, chosen, table, cluster, procVars, history, JobsInv, MakersKeepRow,
                JobKeepsRow, RowsOf
<1>2. ASSUME NEW c \in Clients, Asks(c) \/ Step(c) \/ Fails(c) PROVE JobsInv'
    BY <1>2, JobsAsk, JobsObjects, JobsRows, JobsDeleteRow, JobsFail DEF Step
<1>3. ASSUME NEW key \in KeysOf, JobRuns(key) \/ OthersDelete(key) \/ OthersCreate(key) PROVE JobsInv'
    BY <1>3, KeysOfKind, JobsCluster
<1>. QED  BY <1>1, <1>2, <1>3 DEF Next

LEMMA JobsInit == Init => JobsInv
BY DEF Init, JobsInv, MakersKeepRow, JobKeepsRow

-----------------------------------------------------------------------------
(* Names that no request left half-way, while removals do not overlap with others. *)

\* Two requests underway for one name are both additions, and a start of the server has
\* neither beside it.
Separate(c, d) ==
    c # d /\ pc[c] # "idle" /\ pc[d] # "idle" /\ req[d].op \in {"add", "remove"} =>
        /\ req[c].op = "remove" => req[d].key # req[c].key
        /\ req[c].op # "sync"

AllSeparate == \A c, d \in Clients : Separate(c, d)

\* The row id has the object of its name.
Owns(id, key) == row[id].object = object[key] /\ object[key] # 0

\* The request made an object, and is about to write it in its row.
Makes(c, key) == pc[c] \in {"update", "insert"} /\ req[c].key = key

\* A request that explains that the row id lacks its object, or its options.
Explains(c, id, key) ==
    /\ req[c].key = key /\ req[c].id = id
    /\ \/ pc[c] \in {"create", "update"} /\ kind = "job"
       \/ pc[c] = "option" /\ Owns(id, key)
       \/ pc[c] \in {"deleteOption", "deleteRow"}

Complete(id, key) == Owns(id, key) /\ (kind = "pv" => id \in options)

Accounted(key) ==
    \A id \in RowsOf(key) : Complete(id, key) \/ \E c \in Clients : Explains(c, id, key)

OneOwner(key) == \A id, other \in RowsOf(key) : Owns(id, key) /\ Owns(other, key) => id = other

OneMaker(key) ==
    \A c \in Clients : Makes(c, key) =>
        /\ object[key] # 0 /\ req[c].object = object[key]
        /\ \A id \in RowsOf(key) : ~Owns(id, key)
        /\ \A d \in Clients : Makes(d, key) => d = c

HasOwner(key) ==
    object[key] # 0 =>
        (\E id \in RowsOf(key) : Owns(id, key)) \/ (\E c \in Clients : Makes(c, key))

OneRemover(key) ==
    \A c \in Clients : pc[c] \in {"deleteObject", "deleteOption", "deleteRow"} /\ req[c].key = key =>
        /\ RowsOf(key) = {req[c].id}
        /\ pc[c] # "deleteObject" => object[key] = 0

FoundIsThere(key) == \A c \in Clients : pc[c] = "adopt" /\ key \in req[c].found => object[key] # 0

MakerHasRow(key) ==
    \A c \in Clients : pc[c] \in {"create", "update"} /\ kind = "job" /\ req[c].key = key =>
        req[c].id \in RowsOf(key)

KeyInv(key) ==
    /\ Accounted(key) /\ OneOwner(key) /\ OneMaker(key) /\ HasOwner(key)
    /\ OneRemover(key) /\ FoundIsThere(key) /\ MakerHasRow(key)

KeysInv == ~races => AllSeparate /\ \A key \in Keys \ (broken \cup parted) : KeyInv(key)

LEMMA SeparateMove ==
    ASSUME TypeOK, AllSeparate, NEW c \in Clients, NEW p, NEW r, Moves(c, p, r),
           p = "idle" \/ (pc[c] # "idle" /\ r.op = req[c].op /\ r.key = req[c].key)
    PROVE  AllSeparate'
<1>1. pc'[c] = p /\ req'[c] = r /\ \A d \in Clients \ {c} : pc'[d] = pc[d] /\ req'[d] = req[d]
    BY Moved
<1>. QED  BY <1>1 DEF AllSeparate, Separate

LEMMA SeparateAsk ==
    ASSUME TypeOK, AllSeparate, ~races, NEW c \in Clients, NEW p, NEW r, Begin(c, r, p),
           r.op \in {"add", "remove", "list", "sync"}, p # "idle"
    PROVE  AllSeparate'
<1>1. pc'[c] = p /\ req'[c] = r /\ \A d \in Clients \ {c} : pc'[d] = pc[d] /\ req'[d] = req[d]
    BY MovesBy, Moved
<1>2. Apart(r.op, r.key) /\ ~races
    BY DEF Begin
<1>3. \A d \in Clients : req[d].key \in Keys
    BY RequestOf
<1>4. ASSUME NEW d \in Clients \ {c} PROVE Separate(c, d)' /\ Separate(d, c)'
    <2>1. CASE r.op = "list"
        BY <1>1, <2>1 DEF Separate
    <2>2. CASE r.op = "sync"
        <3>1. ASSUME pc[d] # "idle" PROVE req[d].op \notin {"add", "remove"}
            BY <1>2, <1>3, <2>2, <3>1 DEF Apart, Underway
        <3>. QED  BY <1>1, <2>2, <3>1 DEF Separate
    <2>3. CASE r.op \in {"add", "remove"}
        <3>1. pc[d] # "idle" => req[d].op # "sync"
            BY <1>2, <2>3 DEF Apart
        <3>2. pc[d] # "idle" /\ req[d].op \in {"add", "remove"} /\ req[d].key = r.key =>
                  r.op = "add" /\ req[d].op = "add"
            BY <1>2, <2>3 DEF Apart, Underway
        <3>. QED  BY <1>1, <2>3, <3>1, <3>2 DEF Separate
    <2>. QED  BY <2>1, <2>2, <2>3
<1>5. ASSUME NEW d \in Clients \ {c}, NEW e \in Clients \ {c} PROVE Separate(d, e)'
    BY <1>1, <1>5 DEF AllSeparate, Separate
<1>6. Separate(c, c)'
    BY DEF Separate
<1>. QED  BY <1>4, <1>5, <1>6 DEF AllSeparate

\* The steps that a request may take to the end are its own: it keeps its operation and name.
LEMMA StepMoves ==
    ASSUME TypeOK, Numbered, NEW c \in Clients, Step(c) \/ Fails(c)
    PROVE  \E p, r : /\ Moves(c, p, r) /\ p # "create"
                     /\ p = "idle" \/ (pc[c] # "idle" /\ r.op = req[c].op /\ r.key = req[c].key)
<1>. DEFINE Goal == \E p, r : /\ Moves(c, p, r) /\ p # "create"
                              /\ p = "idle" \/ (pc[c] # "idle" /\ r.op = req[c].op /\ r.key = req[c].key)
<1>0. req[c] \in Request
    BY RequestOf
<1>1. Moves(c, "idle", NullRequest) => Goal
    OBVIOUS
<1>2. \A p, r : Moves(c, p, r) /\ p # "create" /\ pc[c] # "idle" /\ r.op = req[c].op /\ r.key = req[c].key => Goal
    OBVIOUS
<1>3. \A i : [req[c] EXCEPT !.id = i].op = req[c].op /\ [req[c] EXCEPT !.id = i].key = req[c].key
    BY <1>0 DEF Request
<1>4. \A o : [req[c] EXCEPT !.object = o].op = req[c].op /\ [req[c] EXCEPT !.object = o].key = req[c].key
    BY <1>0 DEF Request
<1>5. \A f : [req[c] EXCEPT !.found = f].op = req[c].op /\ [req[c] EXCEPT !.found = f].key = req[c].key
    BY <1>0 DEF Request
<1>. HIDE DEF Goal
<1>6. ASSUME DeployJob(c) \/ CreatePVK8s(c) \/ CreatePVC(c) PROVE Goal
    <2>1. pc[c] = "create" /\ (Made(c) \/ Refused(c))
        BY <1>6, CreateCases
    <2>2. CASE Made(c)
        BY <1>2, <1>4, <2>1, <2>2 DEF Made
    <2>3. CASE Refused(c)
        BY <1>1, <2>3, MovesBy DEF Refused
    <2>. QED  BY <2>1, <2>2, <2>3
<1>7. ASSUME StopJobK8s(c) \/ DeletePVK8s(c) \/ DeletePVCK8s(c) PROVE Goal
    BY <1>2, <1>7, DeleteCases, MovesBy
<1>8. ASSUME UpdateJob(c) \/ AddPVOption(c) PROVE Goal
    BY <1>1, <1>8, RowsMove
<1>9. ASSUME AddRow(c) PROVE Goal
    BY <1>1, <1>2, <1>3, <1>9, RowsMove DEF AddRow
<1>10. ASSUME DeletePVOption(c) PROVE Goal
    BY <1>2, <1>10, RowsMove DEF DeletePVOption
<1>11. ASSUME WriteStatus(c) PROVE Goal
    BY <1>1, <1>2, <1>11, RowsMove DEF WriteStatus
<1>12. ASSUME ListK8sJobs(c) PROVE Goal
    BY <1>1, <1>2, <1>5, <1>12, RowsMove DEF ListK8sJobs
<1>13. ASSUME SyncJobData(c) PROVE Goal
    BY <1>1, <1>2, <1>5, <1>13, RowsMove DEF SyncJobData
<1>14. ASSUME SyncJobK8sStatus(c) PROVE Goal
    BY <1>2, <1>14, ReadMoves DEF SyncJobK8sStatus
<1>15. ASSUME DeleteRow(c) \/ Fails(c) PROVE Goal
    BY <1>1, <1>15, MovesBy DEF DeleteRow, Fails
<1>16. Goal
    BY <1>6, <1>7, <1>8, <1>9, <1>10, <1>11, <1>12, <1>13, <1>14, <1>15 DEF Step
<1>. QED  BY <1>16 DEF Goal

LEMMA PartedGrows == [Next]_vars => parted \subseteq parted'
<1>. SUFFICES ASSUME [Next]_vars PROVE parted \subseteq parted'
    OBVIOUS
<1>1. CASE UNCHANGED vars
    BY <1>1 DEF vars, history
<1>2. ASSUME NEW c \in Clients, Asks(c) PROVE parted \subseteq parted'
    BY <1>2, AskCases DEF Hastened, Placed
<1>3. ASSUME NEW c \in Clients, Step(c) PROVE parted \subseteq parted'
    BY <1>3, CreateCases, DeleteCases
       DEF Step, history, UpdateJob, AddRow, AddPVOption, DeletePVOption, DeleteRow,
           SyncJobK8sStatus, WriteStatus, ListK8sJobs, SyncJobData
<1>4. ASSUME NEW c \in Clients, Fails(c) PROVE parted \subseteq parted'
    BY <1>4 DEF Fails
<1>5. ASSUME NEW k \in KeysOf, JobRuns(k) \/ OthersDelete(k) \/ OthersCreate(k)
      PROVE  parted \subseteq parted'
    BY <1>5 DEF JobRuns, OthersDelete, OthersCreate, history
<1>. QED  BY <1>1, <1>2, <1>3, <1>4, <1>5 DEF Next

LEMMA SentMove ==
    ASSUME TypeOK, Sent, NEW c \in Clients, NEW p, NEW r, Moves(c, p, r), parted \subseteq parted',
           p = "create" /\ r.at # r.key => {r.at, r.key} \subseteq parted'
    PROVE  Sent'
<1>1. pc'[c] = p /\ req'[c] = r /\ \A d \in Clients \ {c} : pc'[d] = pc[d] /\ req'[d] = req[d]
    BY Moved
<1>. QED  BY <1>1 DEF Sent

LEMMA SentNext == TypeOK /\ Numbered /\ Sent /\ [Next]_vars => Sent'
<1>. SUFFICES ASSUME TypeOK, Numbered, Sent, [Next]_vars PROVE Sent'
    OBVIOUS
<1>0. parted \subseteq parted'
    BY PartedGrows
<1>1. ASSUME UNCHANGED <<pc, req>> PROVE Sent'
    BY <1>0, <1>1 DEF Sent
<1>2. ASSUME NEW c \in Clients, Asks(c) PROVE Sent'
    <2>1. \A r, p : Begin(c, r, p) => Moves(c, p, r)
        BY MovesBy
    <2>2. ASSUME NEW key \in Keys, NEW at \in Keys, Begin(c, Added(key, at, nextRow), "create"),
                 Insert(key, "preparing", 0), Placed(key, at)
          PROVE  Sent'
        <3>. DEFINE r == Added(key, at, nextRow)
        <3>1. r.key = key /\ r.at = at
            BY <2>2, InsertTypes, BegunTypes DEF Statuses
        <3>2. Moves(c, "create", r)
            BY <2>1, <2>2
        <3>. HIDE DEF r
        <3>. QED  BY <1>0, <2>2, <3>1, <3>2, SentMove DEF Placed
    <2>3. ASSUME NEW key \in Keys, Begin(c, Stored(key), "create") PROVE Sent'
        <3>. DEFINE r == Stored(key)
        <3>1. r.key = key /\ r.at = key
            BY NullTypes DEF Stored, Request
        <3>2. Moves(c, "create", r)
            BY <2>1, <2>3
        <3>. HIDE DEF r
        <3>. QED  BY <1>0, <3>1, <3>2, SentMove
    <2>4. ASSUME NEW r, NEW p \in {"deleteObject", "next", "find"}, Begin(c, r, p) PROVE Sent'
        BY <1>0, <2>1, <2>4, SentMove
    <2>. QED  BY <1>2, <2>2, <2>3, <2>4, AskCases
<1>3. ASSUME NEW c \in Clients, Step(c) \/ Fails(c) PROVE Sent'
    BY <1>0, <1>3, StepMoves, SentMove
<1>4. ASSUME NEW key \in KeysOf, JobRuns(key) \/ OthersDelete(key) \/ OthersCreate(key) PROVE Sent'
    BY <1>1, <1>4 DEF JobRuns, OthersDelete, OthersCreate, procVars
<1>5. CASE UNCHANGED vars
    BY <1>1, <1>5 DEF vars, procVars
<1>. QED  BY <1>2, <1>3, <1>4, <1>5 DEF Next

LEMMA SentInit == Init => Sent
BY DEF Init, Sent

LEMMA SeparateNext == TypeOK /\ Numbered /\ AllSeparate /\ ~races /\ [Next]_vars => AllSeparate'
<1>. SUFFICES ASSUME TypeOK, Numbered, AllSeparate, ~races, [Next]_vars PROVE AllSeparate'
    OBVIOUS
<1>1. ASSUME UNCHANGED <<pc, req>> PROVE AllSeparate'
    BY <1>1 DEF AllSeparate, Separate
<1>2. ASSUME NEW c \in Clients, Asks(c) PROVE AllSeparate'
    <2>1. nextRow \in Nat /\ rows \subseteq RowIds /\ \A id \in rows : row[id].key \in Keys
        BY NumberedRequest, <1>2 DEF TypeOK, Row
    <2>2. PICK p, r : Begin(c, r, p) /\ p \in FirstPCs /\ r.op \in {"add", "remove", "list", "sync"}
        <3>1. \A key, at, id : Added(key, at, id).op = "add"
            BY DEF Added, NullRequest
        <3>2. \A key, id : Removed(key, id).op = "remove"
            BY DEF Removed, NullRequest
        <3>3. \A key : Stored(key).op = "add" /\ Synced(key).op = "sync" /\ Listed(key).op = "list"
            BY DEF Stored, Synced, Listed, NullRequest
        <3>. QED  BY <1>2, <3>1, <3>2, <3>3, AskCases DEF FirstPCs
    <2>. QED  BY <2>2, SeparateAsk DEF FirstPCs
<1>3. ASSUME NEW c \in Clients, Step(c) \/ Fails(c) PROVE AllSeparate'
    BY <1>3, StepMoves, SeparateMove
<1>4. ASSUME NEW key \in KeysOf, JobRuns(key) \/ OthersDelete(key) \/ OthersCreate(key) PROVE AllSeparate'
    BY <1>1, <1>4 DEF JobRuns, OthersDelete, OthersCreate, procVars
<1>5. CASE UNCHANGED vars
    BY <1>1, <1>5 DEF vars, procVars
<1>. QED  BY <1>2, <1>3, <1>4, <1>5 DEF Next

\* Steps of a request that is about a row, or has made an object.
Matters(p) == HasRow(p) \/ p = "insert"

\* The rows and the object of a name stay what they are.
Stays(key) ==
    /\ kind' = kind /\ object'[key] = object[key] /\ RowsOf(key)' = RowsOf(key)
    /\ \A id \in RowsOf(key) :
          row'[id].object = row[id].object /\ (id \in options => id \in options')

\* What is known of a name stays when a request moves on that is not about it.
LEMMA KeyElsewhere ==
    ASSUME TypeOK, NEW key \in Keys, KeyInv(key), Stays(key),
           NEW c \in Clients, NEW p, NEW r, Moves(c, p, r),
           Matters(pc[c]) => req[c].key # key,
           Matters(p) => r.key # key,
           p = "adopt" /\ key \in r.found => object[key] # 0
    PROVE  KeyInv(key)'
<1>1. pc'[c] = p /\ req'[c] = r /\ \A d \in Clients \ {c} : pc'[d] = pc[d] /\ req'[d] = req[d]
    BY Moved
<1>2. \A id \in RowsOf(key) : /\ Owns(id, key)' <=> Owns(id, key)
                              /\ Complete(id, key) => Complete(id, key)'
    BY DEF Owns, Complete, Stays
<1>3. \A d \in Clients : Makes(d, key)' <=> Makes(d, key)
    BY <1>1 DEF Makes, Matters, HasRow
<1>4. \A d \in Clients, id \in RowsOf(key) : Explains(d, id, key) => Explains(d, id, key)'
    BY <1>1, <1>2 DEF Explains, Matters, HasRow, Stays
<1>5. Accounted(key)'
    BY <1>2, <1>4 DEF KeyInv, Accounted, Stays
<1>6. OneOwner(key)'
    BY <1>2 DEF KeyInv, OneOwner, Stays
<1>7. \A d \in Clients : Makes(d, key) => req'[d] = req[d]
    BY <1>1 DEF Makes, Matters, HasRow
<1>8. OneMaker(key)'
    BY <1>2, <1>3, <1>7 DEF KeyInv, OneMaker, Stays
<1>9. HasOwner(key)'
    BY <1>2, <1>3 DEF KeyInv, HasOwner, Stays
<1>10. OneRemover(key)'
    BY <1>1 DEF KeyInv, OneRemover, Stays, Matters, HasRow
<1>11. FoundIsThere(key)'
    BY <1>1 DEF KeyInv, FoundIsThere, Stays
<1>12. MakerHasRow(key)'
    BY <1>1 DEF KeyInv, MakerHasRow, Stays, Matters, HasRow
<1>. QED  BY <1>5, <1>6, <1>8, <1>9, <1>10, <1>11, <1>12 DEF KeyInv

\* A row that is inserted leaves the other names alone.
LEMMA InsertElsewhere ==
    ASSUME TypeOK, Numbered, NEW key \in Keys, NEW status \in Statuses, NEW o \in Objects \cup {0},
           o < nextObject, Insert(key, status, o), UNCHANGED <<kind, options, cluster, ours>>,
           NEW k \in Keys, k # key
    PROVE  Stays(k)
<1>1. /\ row'[nextRow].key = key /\ \A id \in rows : row'[id] = row[id]
      /\ rows' = rows \cup {nextRow}
    BY NumberedInsert DEF Insert
<1>2. RowsOf(k)' = RowsOf(k)
    BY <1>1 DEF RowsOf
<1>. QED  BY <1>1, <1>2 DEF Stays, RowsOf, cluster

\* ... and adds one row to those of its own.
LEMMA InsertHere ==
    ASSUME TypeOK, Numbered, NEW key \in Keys, NEW status \in Statuses, NEW o \in Objects \cup {0},
           o < nextObject, Insert(key, status, o), UNCHANGED <<kind, options, cluster, ours>>
    PROVE  /\ RowsOf(key)' = RowsOf(key) \cup {nextRow} /\ nextRow \notin rows
           /\ row'[nextRow].object = o /\ object' = object /\ kind' = kind
           /\ \A id \in RowsOf(key) : row'[id] = row[id]
<1>1. /\ row'[nextRow].key = key /\ row'[nextRow].object = o /\ \A id \in rows : row'[id] = row[id]
      /\ rows' = rows \cup {nextRow}
    BY NumberedInsert DEF Insert
<1>2. nextRow \notin rows
    <2>1. nextRow \in Nat /\ \A id \in rows : id < nextRow
        BY StoredObjectsAssumption DEF TypeOK, Numbered, CountersInv
    <2>. QED  BY <2>1
<1>. QED  BY <1>1, <1>2 DEF RowsOf, cluster

\* A removal is alone with its name, and an addition has only additions beside it.
LEMMA Company ==
    ASSUME TypeOK, Numbered, AllSeparate, NEW c \in Clients, NEW d \in Clients, c # d, pc[c] # "idle"
    PROVE  /\ req[c].op \in {"add", "remove"} => pc[d] # "adopt"
           /\ req[c].op = "remove" => ~(Matters(pc[d]) /\ req[d].key = req[c].key)
           /\ req[c].op = "add" =>
                ~(pc[d] \in {"deleteObject", "deleteOption", "deleteRow"} /\ req[d].key = req[c].key)
<1>1. Separate(c, d) /\ Separate(d, c)
    BY DEF AllSeparate
<1>2. Shape(pc[d], req[d].op)
    BY NumberedRequest
<1>. QED  BY <1>1, <1>2 DEF Separate, Shape, Matters, HasRow

\* What a name looks like when its object is being made, or its row removed, follows from
\* what is known of the clients beside the one that moves.
LEMMA KeyUpdate ==
    ASSUME TypeOK, Numbered, AllSeparate, NEW c \in Clients, UpdateJob(c),
           NEW key \in Keys, key = req[c].key, KeyInv(key)
    PROVE  KeyInv(key)'
<1>0. PICK id : id = req[c].id
    OBVIOUS
<1>1. /\ pc[c] = "update" /\ kind = "job" /\ req[c].op = "add" /\ kind' = kind
      /\ UNCHANGED <<rows, options, object>>
    BY NumberedRequest DEF UpdateJob, Shape, chosen, cluster
<1>2. pc'[c] = "idle" /\ \A d \in Clients \ {c} : pc'[d] = pc[d] /\ req'[d] = req[d]
    BY RowsMove, Moved
<1>3. id \in RowsOf(key) /\ id \in rows /\ id \in RowIds
    BY <1>0, <1>1, NumberedRequest DEF KeyInv, MakerHasRow, RowsOf, HasRow
<1>4. /\ \A i \in RowIds : row'[i].key = row[i].key
      /\ \A i \in RowIds \ {id} : row'[i].object = row[i].object
      /\ row'[id].object = req[c].object
    <2>1. row' = [row EXCEPT ![id].status = "uncompleted", ![id].object = req[c].object]
        BY <1>0, <1>3 DEF UpdateJob
    <2>2. \A i \in RowIds : row[i] \in Row
        BY DEF TypeOK
    <2>. QED  BY <1>3, <2>1, <2>2 DEF TypeOK, Row
<1>5. Makes(c, key)
    BY <1>1 DEF Makes
<1>6. /\ object[key] # 0 /\ req[c].object = object[key]
      /\ \A i \in RowsOf(key) : ~Owns(i, key)
      /\ \A d \in Clients : Makes(d, key) => d = c
    BY <1>5 DEF KeyInv, OneMaker
<1>7. RowsOf(key)' = RowsOf(key) /\ RowsOf(key) \subseteq RowIds
    BY <1>1, <1>4 DEF RowsOf, TypeOK
<1>8. \A i \in RowsOf(key) : Owns(i, key)' <=> i = id
    BY <1>1, <1>3, <1>4, <1>6, <1>7 DEF Owns
<1>9. Accounted(key)'
    <2>1. Complete(id, key)'
        BY <1>1, <1>3, <1>8 DEF Complete
    <2>2. ASSUME NEW i \in RowsOf(key), i # id PROVE \E d \in Clients : Explains(d, i, key)'
        <3>1. PICK d \in Clients : Explains(d, i, key)
            BY <1>6 DEF KeyInv, Accounted, Complete
        <3>2. d # c
            BY <1>0, <2>2, <3>1 DEF Explains
        <3>3. Explains(d, i, key)'
            BY <1>1, <1>2, <1>6, <3>1, <3>2 DEF Explains
        <3>. QED  BY <3>3
    <2>. QED  BY <1>7, <2>1, <2>2 DEF Accounted
<1>10. OneOwner(key)'
    BY <1>7, <1>8 DEF OneOwner
<1>11. \A d \in Clients : ~Makes(d, key)'
    BY <1>2, <1>6 DEF Makes
<1>12. OneMaker(key)'
    BY <1>11 DEF OneMaker
<1>13. HasOwner(key)'
    BY <1>3, <1>7, <1>8 DEF HasOwner
<1>14. OneRemover(key)'
    BY <1>1, <1>2, Company DEF OneRemover
<1>15. FoundIsThere(key)'
    BY <1>1, <1>2 DEF KeyInv, FoundIsThere
<1>16. MakerHasRow(key)'
    BY <1>1, <1>2, <1>7 DEF KeyInv, MakerHasRow
<1>. QED  BY <1>9, <1>10, <1>12, <1>13, <1>14, <1>15, <1>16 DEF KeyInv

LEMMA KeyAddRow ==
    ASSUME TypeOK, Numbered, AllSeparate, NEW c \in Clients, AddRow(c),
           NEW key \in Keys, key = req[c].key, KeyInv(key)
    PROVE  KeyInv(key)'
<1>0. PICK new : new = nextRow
    OBVIOUS
<1>1. /\ pc[c] = "insert" /\ kind # "job" /\ req[c].op = "add"
      /\ UNCHANGED <<kind, options, cluster, ours>>
      /\ Insert(key, "stored", req[c].object)
    BY NumberedRequest DEF AddRow, Shape, chosen, history
<1>2. \A d \in Clients \ {c} : pc'[d] = pc[d] /\ req'[d] = req[d]
    BY RowsMove, Moved
<1>3. /\ kind # "pv" => pc'[c] = "idle"
      /\ kind = "pv" => pc'[c] = "option" /\ req'[c].key = key /\ req'[c].id = new
    <2>. DEFINE r == [req[c] EXCEPT !.id = new]
    <2>1. r.key = key /\ r.id = new
        BY RequestOf DEF Request
    <2>2. (kind # "pv" /\ Moves(c, "idle", NullRequest)) \/ (kind = "pv" /\ Moves(c, "option", r))
        BY <1>0, RowsMove
    <2>. HIDE DEF r
    <2>. QED  BY <2>1, <2>2, Moved
<1>4. Makes(c, key)
    BY <1>1 DEF Makes
<1>5. /\ object[key] # 0 /\ req[c].object = object[key]
      /\ \A i \in RowsOf(key) : ~Owns(i, key)
      /\ \A d \in Clients : Makes(d, key) => d = c
    BY <1>4 DEF KeyInv, OneMaker
<1>6. /\ RowsOf(key)' = RowsOf(key) \cup {new} /\ new \notin rows
      /\ row'[new].object = object[key] /\ object' = object /\ kind' = kind
      /\ \A i \in RowsOf(key) : row'[i] = row[i]
    <2>1. "stored" \in Statuses /\ req[c].object \in Objects \cup {0} /\ req[c].object < nextObject
        BY RequestOf, NumberedRequest DEF Statuses
    <2>. QED  BY <1>0, <1>1, <1>5, <2>1, InsertHere
<1>7. Owns(new, key)' /\ \A i \in RowsOf(key) : ~Owns(i, key)'
    BY <1>5, <1>6 DEF Owns
<1>8. Accounted(key)'
    <2>1. Complete(new, key)' \/ Explains(c, new, key)'
        BY <1>1, <1>3, <1>7 DEF Complete, Explains
    <2>2. ASSUME NEW i \in RowsOf(key) PROVE \E d \in Clients : Explains(d, i, key)'
        <3>1. PICK d \in Clients : Explains(d, i, key)
            BY <1>5 DEF KeyInv, Accounted, Complete
        <3>2. d # c
            BY <1>1, <3>1 DEF Explains
        <3>3. Explains(d, i, key)'
            BY <1>1, <1>2, <1>5, <3>1, <3>2 DEF Explains
        <3>. QED  BY <3>3
    <2>. QED  BY <1>6, <2>1, <2>2 DEF Accounted
<1>9. OneOwner(key)'
    BY <1>6, <1>7 DEF OneOwner
<1>10. OneMaker(key)'
    BY <1>2, <1>3, <1>5 DEF OneMaker, Makes
<1>11. HasOwner(key)'
    BY <1>6, <1>7 DEF HasOwner
<1>12. OneRemover(key)'
    BY <1>1, <1>2, <1>3, Company DEF OneRemover
<1>13. FoundIsThere(key)'
    BY <1>2, <1>3, <1>6 DEF KeyInv, FoundIsThere
<1>14. MakerHasRow(key)'
    BY <1>1 DEF MakerHasRow
<1>. QED  BY <1>8, <1>9, <1>10, <1>11, <1>12, <1>13, <1>14 DEF KeyInv

LEMMA KeyAddOption ==
    ASSUME TypeOK, Numbered, AllSeparate, NEW c \in Clients, AddPVOption(c),
           NEW key \in Keys, key = req[c].key, KeyInv(key)
    PROVE  KeyInv(key)'
<1>1. /\ pc[c] = "option" /\ kind = "pv" /\ req[c].op = "add"
      /\ UNCHANGED <<kind, rows, row, object>> /\ options' = options \cup {req[c].id}
    BY NumberedRequest DEF AddPVOption, Shape, chosen, cluster
<1>2. pc'[c] = "idle" /\ \A d \in Clients \ {c} : pc'[d] = pc[d] /\ req'[d] = req[d]
    BY RowsMove, Moved
<1>3. RowsOf(key)' = RowsOf(key) /\ \A i : Owns(i, key)' <=> Owns(i, key)
    BY <1>1 DEF RowsOf, Owns
<1>4. Accounted(key)'
    <2>1. ASSUME NEW i \in RowsOf(key), Complete(i, key) PROVE Complete(i, key)'
        BY <1>1, <1>3, <2>1 DEF Complete
    <2>2. ASSUME NEW i \in RowsOf(key), Explains(c, i, key) PROVE Complete(i, key)'
        BY <1>1, <1>3, <2>2 DEF Complete, Explains
    <2>3. ASSUME NEW i \in RowsOf(key), NEW d \in Clients \ {c}, Explains(d, i, key)
          PROVE  Explains(d, i, key)'
        BY <1>1, <1>2, <1>3, <2>3 DEF Explains
    <2>. QED  BY <1>3, <2>1, <2>2, <2>3 DEF KeyInv, Accounted
<1>5. OneOwner(key)'
    BY <1>3 DEF KeyInv, OneOwner
<1>6. \A d \in Clients : Makes(d, key)' <=> Makes(d, key)
    BY <1>1, <1>2 DEF Makes
<1>7. OneMaker(key)'
    BY <1>1, <1>2, <1>3, <1>6 DEF KeyInv, OneMaker, Makes
<1>8. HasOwner(key)'
    BY <1>1, <1>3, <1>6 DEF KeyInv, HasOwner
<1>9. OneRemover(key)' /\ FoundIsThere(key)' /\ MakerHasRow(key)'
    BY <1>1, <1>2, <1>3 DEF KeyInv, OneRemover, FoundIsThere, MakerHasRow
<1>. QED  BY <1>4, <1>5, <1>7, <1>8, <1>9 DEF KeyInv

LEMMA KeyMade ==
    ASSUME TypeOK, Numbered, AllSeparate, NEW c \in Clients, pc[c] = "create", Made(c),
           UNCHANGED <<chosen, table>>,
           NEW key \in Keys, key = req[c].key, key = req[c].at, KeyInv(key)
    PROVE  KeyInv(key)'
<1>0. PICK new : new = nextObject
    OBVIOUS
<1>. DEFINE p == IF kind = "job" THEN "update" ELSE "insert"
            r == [req[c] EXCEPT !.object = new]
<1>1. /\ UNCHANGED <<kind, rows, row, options>> /\ req[c].op = "add"
      /\ object[key] = 0 /\ object'[key] = new /\ new # 0
    BY <1>0, NumberedRequest DEF Made, Shape, chosen, table, TypeOK
<1>2. r.key = key /\ r.id = req[c].id /\ r.object = new
    BY RequestOf DEF Request
<1>. HIDE DEF r
<1>3. /\ pc'[c] = p /\ req'[c] = r
      /\ \A d \in Clients \ {c} : pc'[d] = pc[d] /\ req'[d] = req[d]
    BY <1>0, Moved DEF Made, r
<1>4. RowsOf(key)' = RowsOf(key) /\ RowsOf(key) \subseteq RowIds
    BY <1>1 DEF RowsOf, TypeOK
<1>5. \A i \in RowsOf(key) : ~Owns(i, key) /\ ~Owns(i, key)'
    <2>1. \A i \in RowIds : row[i].object # new
        <3>1. \A i \in RowIds : row[i].object < nextObject
            BY DEF Numbered, CountersInv
        <3>2. nextObject \in Nat
            BY NumberedRequest
        <3>. QED  BY <1>0, <3>1, <3>2
    <2>. QED  BY <1>1, <1>4, <2>1 DEF Owns
<1>6. \A d \in Clients : ~Makes(d, key)
    BY <1>1 DEF KeyInv, OneMaker
<1>7. \A d \in Clients : Makes(d, key)' <=> d = c
    BY <1>2, <1>3, <1>6 DEF Makes
<1>8. Accounted(key)'
    <2>1. ASSUME NEW i \in RowsOf(key) PROVE \E d \in Clients : Explains(d, i, key)'
        <3>1. PICK d \in Clients : Explains(d, i, key)
            BY <1>5 DEF KeyInv, Accounted, Complete
        <3>2. Explains(d, i, key)'
            <4>1. CASE d = c
                BY <1>1, <1>2, <1>3, <3>1, <4>1 DEF Explains
            <4>2. CASE d # c
                BY <1>1, <1>3, <1>5, <3>1, <4>2 DEF Explains
            <4>. QED  BY <4>1, <4>2
        <3>. QED  BY <3>2
    <2>. QED  BY <1>4, <2>1 DEF Accounted
<1>9. OneOwner(key)'
    BY <1>4, <1>5 DEF OneOwner
<1>10. OneMaker(key)'
    BY <1>1, <1>2, <1>3, <1>4, <1>5, <1>7 DEF OneMaker
<1>11. HasOwner(key)'
    BY <1>7 DEF HasOwner
<1>12. OneRemover(key)'
    <2>1. ASSUME NEW d \in Clients \ {c}
          PROVE  ~(pc[d] \in {"deleteObject", "deleteOption", "deleteRow"} /\ req[d].key = key)
        BY <1>1, Company
    <2>2. pc'[c] \notin {"deleteObject", "deleteOption", "deleteRow"}
        BY <1>3 DEF p
    <2>3. \A d \in Clients \ {c} : pc'[d] = pc[d] /\ req'[d] = req[d]
        BY <1>3
    <2>. QED  BY <2>1, <2>2, <2>3 DEF OneRemover
<1>13. FoundIsThere(key)'
    BY <1>1 DEF FoundIsThere
<1>14. MakerHasRow(key)'
    BY <1>1, <1>2, <1>3, <1>4 DEF KeyInv, MakerHasRow
<1>. QED  BY <1>8, <1>9, <1>10, <1>11, <1>12, <1>13, <1>14 DEF KeyInv

LEMMA KeyDeleteObject ==
    ASSUME TypeOK, Numbered, AllSeparate, NEW c \in Clients,
           StopJobK8s(c) \/ DeletePVK8s(c) \/ DeletePVCK8s(c),
           object' = [object EXCEPT ![req[c].key] = 0],
           NEW key \in Keys, key = req[c].key, KeyInv(key)
    PROVE  KeyInv(key)'
<1>1. /\ pc[c] = "deleteObject" /\ req[c].op = "remove" /\ req' = req
      /\ UNCHANGED <<kind, rows, row, options>> /\ object'[key] = 0
      /\ pc'[c] \in {"deleteOption", "deleteRow"}
      /\ \A d \in Clients \ {c} : pc'[d] = pc[d]
    <2>1. pc[c] = "deleteObject" /\ req' = req /\ UNCHANGED <<kind, rows, row, options>>
        BY DeleteCases DEF chosen, table
    <2>2. Goto(c, IF kind = "pv" THEN "deleteOption" ELSE "deleteRow")
        BY DeleteCases
    <2>3. req[c].op = "remove"
        BY <2>1, NumberedRequest DEF Shape
    <2>. QED  BY <2>1, <2>2, <2>3 DEF Goto, TypeOK
<1>2. RowsOf(key)' = RowsOf(key) /\ RowsOf(key) = {req[c].id}
    BY <1>1 DEF RowsOf, KeyInv, OneRemover
<1>3. \A i : ~Owns(i, key)'
    BY <1>1 DEF Owns
<1>4. \A d \in Clients \ {c} : Matters(pc[d]) => req[d].key # key
    BY <1>1, Company
<1>5. Accounted(key)'
    BY <1>1, <1>2 DEF Accounted, Explains
<1>6. \A d \in Clients : ~Makes(d, key)'
    BY <1>1, <1>4 DEF Makes, Matters, HasRow
<1>7. OneOwner(key)' /\ OneMaker(key)' /\ HasOwner(key)'
    BY <1>1, <1>3, <1>6 DEF OneOwner, OneMaker, HasOwner
<1>8. OneRemover(key)'
    BY <1>1, <1>2, <1>4 DEF OneRemover, Matters, HasRow
<1>9. FoundIsThere(key)'
    BY <1>1, Company DEF FoundIsThere
<1>10. MakerHasRow(key)'
    BY <1>1, <1>4 DEF MakerHasRow, Matters, HasRow
<1>. QED  BY <1>5, <1>7, <1>8, <1>9, <1>10 DEF KeyInv

LEMMA KeyDeleteOption ==
    ASSUME TypeOK, Numbered, AllSeparate, NEW c \in Clients, DeletePVOption(c),
           NEW key \in Keys, key = req[c].key, KeyInv(key)
    PROVE  KeyInv(key)'
<1>1. /\ pc[c] = "deleteOption" /\ req[c].op = "remove" /\ req' = req
      /\ UNCHANGED <<kind, rows, row, object>> /\ pc'[c] = "deleteRow"
      /\ \A d \in Clients \ {c} : pc'[d] = pc[d]
    BY NumberedRequest DEF DeletePVOption, Shape, chosen, cluster, Goto, TypeOK
<1>2. /\ RowsOf(key)' = RowsOf(key) /\ RowsOf(key) = {req[c].id} /\ object[key] = 0
    BY <1>1 DEF RowsOf, KeyInv, OneRemover
<1>3. \A i : ~Owns(i, key)'
    BY <1>1, <1>2 DEF Owns
<1>4. \A d \in Clients \ {c} : Matters(pc[d]) => req[d].key # key
    BY <1>1, Company
<1>5. Accounted(key)'
    BY <1>1, <1>2 DEF Accounted, Explains
<1>6. \A d \in Clients : ~Makes(d, key)'
    BY <1>1, <1>4 DEF Makes, Matters, HasRow
<1>7. OneOwner(key)' /\ OneMaker(key)' /\ HasOwner(key)'
    BY <1>1, <1>2, <1>3, <1>6 DEF OneOwner, OneMaker, HasOwner
<1>8. OneRemover(key)'
    BY <1>1, <1>2, <1>4 DEF OneRemover, Matters, HasRow
<1>9. FoundIsThere(key)'
    BY <1>1, Company DEF FoundIsThere
<1>10. MakerHasRow(key)'
    BY <1>1, <1>4 DEF MakerHasRow, Matters, HasRow
<1>. QED  BY <1>5, <1>7, <1>8, <1>9, <1>10 DEF KeyInv

LEMMA KeyDeleteRow ==
    ASSUME TypeOK, Numbered, AllSeparate, NEW c \in Clients, DeleteRow(c),
           NEW key \in Keys, key = req[c].key, KeyInv(key)
    PROVE  KeyInv(key)'
<1>1. /\ pc[c] = "deleteRow" /\ req[c].op = "remove"
      /\ UNCHANGED <<kind, row, object>> /\ rows' = rows \ {req[c].id}
    BY NumberedRequest DEF DeleteRow, Shape, chosen, cluster
<1>2. pc'[c] = "idle" /\ \A d \in Clients \ {c} : pc'[d] = pc[d] /\ req'[d] = req[d]
    BY MovesBy, Moved DEF DeleteRow
<1>3. RowsOf(key) = {req[c].id} /\ object[key] = 0
    BY <1>1 DEF KeyInv, OneRemover
<1>4. RowsOf(key)' = {}
    BY <1>1, <1>3 DEF RowsOf
<1>5. \A d \in Clients \ {c} : Matters(pc[d]) => req[d].key # key
    BY <1>1, Company
<1>6. Accounted(key)' /\ OneOwner(key)' /\ HasOwner(key)'
    BY <1>1, <1>3, <1>4 DEF Accounted, OneOwner, HasOwner
<1>7. \A d \in Clients : ~Makes(d, key)'
    BY <1>2, <1>5 DEF Makes, Matters, HasRow
<1>8. OneMaker(key)'
    BY <1>7 DEF OneMaker
<1>9. OneRemover(key)' /\ MakerHasRow(key)'
    BY <1>1, <1>2, <1>5 DEF OneRemover, MakerHasRow, Matters, HasRow
<1>10. FoundIsThere(key)'
    BY <1>1, <1>2, Company DEF FoundIsThere
<1>. QED  BY <1>6, <1>8, <1>9, <1>10 DEF KeyInv

\* Nothing but the request changes.
LEMMA StaysUnchanged ==
    ASSUME UNCHANGED <<kind, rows, row, options, object>>, NEW key
    PROVE  Stays(key)
BY DEF Stays, RowsOf

LEMMA BegunMoves ==
    ASSUME TypeOK, NEW c \in Clients, NEW p, NEW r, Begin(c, r, p)
    PROVE  /\ Moves(c, p, r) /\ pc[c] = "idle" /\ ~Matters(pc[c])
           /\ UNCHANGED <<kind, races, options, cluster, object, ours, broken>> /\ Apart(r.op, r.key)
BY MovesBy DEF Begin, chosen, cluster, Matters, HasRow

LEMMA KeyAdd ==
    ASSUME TypeOK, Numbered, ~races, NEW c \in Clients, NEW key \in Keys, KeyInv(key), NEW at \in Keys,
           kind = "job", Begin(c, Added(key, at, nextRow), "create"), Insert(key, "preparing", 0)
    PROVE  KeyInv(key)'
<1>0. PICK new : new = nextRow
    OBVIOUS
<1>. DEFINE r == Added(key, at, new)
<1>1. r.id = new /\ r.key = key /\ r.op = "add"
    BY <1>0, InsertTypes, BegunTypes DEF Statuses
<1>2. /\ Moves(c, "create", r) /\ pc[c] = "idle" /\ Apart(r.op, r.key)
      /\ UNCHANGED <<kind, options, cluster, object, ours>>
    BY <1>0, BegunMoves
<1>. HIDE DEF r
<1>3. /\ pc'[c] = "create" /\ req'[c] = r
      /\ \A d \in Clients \ {c} : pc'[d] = pc[d] /\ req'[d] = req[d]
    BY <1>2, Moved
<1>4. /\ RowsOf(key)' = RowsOf(key) \cup {new} /\ new \notin rows
      /\ row'[new].object = 0 /\ object' = object
      /\ \A i \in RowsOf(key) : row'[i] = row[i]
    <2>1. "preparing" \in Statuses /\ 0 \in Objects \cup {0} /\ 0 < nextObject
        BY NumberedRequest DEF Statuses
    <2>. QED  BY <1>0, <1>2, <2>1, InsertHere
<1>5. ~Owns(new, key)' /\ \A i \in RowsOf(key) : Owns(i, key)' <=> Owns(i, key)
    BY <1>4 DEF Owns
<1>6. \A d \in Clients : Makes(d, key)' <=> Makes(d, key)
    BY <1>2, <1>3 DEF Makes
<1>7. Accounted(key)'
    <2>1. Explains(c, new, key)'
        BY <1>1, <1>2, <1>3 DEF Explains
    <2>2. ASSUME NEW i \in RowsOf(key), Complete(i, key) PROVE Complete(i, key)'
        BY <1>2, <1>5, <2>2 DEF Complete
    <2>3. ASSUME NEW i \in RowsOf(key), NEW d \in Clients, Explains(d, i, key)
          PROVE  Explains(d, i, key)'
        BY <1>2, <1>3, <1>5, <2>3 DEF Explains
    <2>. QED  BY <1>4, <2>1, <2>2, <2>3 DEF KeyInv, Accounted
<1>8. OneOwner(key)'
    BY <1>4, <1>5 DEF KeyInv, OneOwner
<1>9. OneMaker(key)'
    <2>1. \A d \in Clients : Makes(d, key) => req'[d] = req[d]
        BY <1>2, <1>3 DEF Makes
    <2>. QED  BY <1>4, <1>5, <1>6, <2>1 DEF KeyInv, OneMaker
<1>10. HasOwner(key)'
    BY <1>4, <1>5, <1>6 DEF KeyInv, HasOwner
<1>11. OneRemover(key)'
    <2>1. ASSUME NEW d \in Clients, pc[d] \in {"deleteObject", "deleteOption", "deleteRow"}
          PROVE  req[d].key # key
        <3>1. req[d].op = "remove" /\ pc[d] # "idle"
            BY <2>1, NumberedRequest DEF Shape
        <3>2. req[d].key = key => d \in Underway(r.key)
            BY <1>1, <3>1 DEF Underway
        <3>. QED  BY <1>1, <1>2, <3>1, <3>2 DEF Apart
    <2>. QED  BY <1>3, <2>1 DEF OneRemover
<1>12. FoundIsThere(key)'
    BY <1>3, <1>4 DEF KeyInv, FoundIsThere
<1>13. MakerHasRow(key)'
    BY <1>1, <1>2, <1>3, <1>4 DEF KeyInv, MakerHasRow
<1>. QED  BY <1>7, <1>8, <1>9, <1>10, <1>11, <1>12, <1>13 DEF KeyInv

\* With no request underway for a name, each row has its object, and there is at most one.
LEMMA Quiet ==
    ASSUME TypeOK, Numbered, NEW key \in Keys, KeyInv(key), Underway(key) = {}
    PROVE  /\ \A id \in RowsOf(key) : Complete(id, key)
           /\ \A id, other \in RowsOf(key) : id = other
           /\ object[key] # 0 => RowsOf(key) # {}
           /\ \A c \in Clients : Matters(pc[c]) => req[c].key # key
<1>1. \A c \in Clients : Matters(pc[c]) => req[c].key # key
    <2>1. ASSUME NEW c \in Clients, Matters(pc[c]) PROVE req[c].key # key
        <3>1. pc[c] # "idle" /\ req[c].op \in {"add", "remove"}
            BY <2>1, NumberedRequest DEF Matters, HasRow, Shape
        <3>. QED  BY <3>1 DEF Underway
    <2>. QED  BY <2>1
<1>2. \A id \in RowsOf(key) : Complete(id, key)
    BY <1>1 DEF KeyInv, Accounted, Explains, Matters, HasRow
<1>3. \A id, other \in RowsOf(key) : id = other
    BY <1>2 DEF KeyInv, OneOwner, Complete
<1>4. object[key] # 0 => RowsOf(key) # {}
    BY <1>1 DEF KeyInv, HasOwner, Makes, Matters, HasRow
<1>. QED  BY <1>1, <1>2, <1>3, <1>4

LEMMA KeyRemove ==
    ASSUME TypeOK, Numbered, ~races, NEW c \in Clients, NEW id \in rows,
           NEW key \in Keys, key = row[id].key, KeyInv(key),
           Begin(c, Removed(row[id].key, id), "deleteObject"), UNCHANGED <<rows, row>>
    PROVE  KeyInv(key)'
<1>. DEFINE r == Removed(key, id)
<1>1. r.id = id /\ r.key = key /\ r.op = "remove"
    <2>1. id \in RowIds \cup {0}
        BY DEF TypeOK
    <2>. QED  BY <2>1, RemovedTypes
<1>2. /\ Moves(c, "deleteObject", r) /\ pc[c] = "idle" /\ Apart(r.op, r.key)
      /\ UNCHANGED <<kind, options, object>>
    BY BegunMoves
<1>. HIDE DEF r
<1>3. /\ pc'[c] = "deleteObject" /\ req'[c] = r
      /\ \A d \in Clients \ {c} : pc'[d] = pc[d] /\ req'[d] = req[d]
    BY <1>2, Moved
<1>4. Underway(key) = {}
    BY <1>1, <1>2 DEF Apart, Underway
<1>5. RowsOf(key)' = RowsOf(key) /\ RowsOf(key) = {id}
    BY <1>4, Quiet DEF RowsOf
<1>6. \A i \in RowsOf(key) : Complete(i, key)' /\ Owns(i, key)'
    BY <1>2, <1>4, Quiet DEF Complete, Owns
<1>7. \A d \in Clients \ {c} : Matters(pc[d]) => req[d].key # key
    BY <1>4, Quiet
<1>8. Accounted(key)' /\ OneOwner(key)' /\ HasOwner(key)'
    BY <1>5, <1>6 DEF Accounted, OneOwner, HasOwner
<1>9. \A d \in Clients : ~Makes(d, key)'
    BY <1>3, <1>7 DEF Makes, Matters, HasRow
<1>10. OneMaker(key)'
    BY <1>9 DEF OneMaker
<1>11. OneRemover(key)'
    BY <1>1, <1>3, <1>5, <1>7 DEF OneRemover, Matters, HasRow
<1>12. FoundIsThere(key)'
    BY <1>2, <1>3 DEF KeyInv, FoundIsThere
<1>13. MakerHasRow(key)'
    BY <1>2, <1>3, <1>7 DEF MakerHasRow, Matters, HasRow
<1>. QED  BY <1>8, <1>10, <1>11, <1>12, <1>13 DEF KeyInv

LEMMA KeyAsk ==
    ASSUME TypeOK, Numbered, ~races, NEW c \in Clients, Asks(c), NEW key \in Keys, KeyInv(key)
    PROVE  KeyInv(key)'
<1>1. ASSUME NEW k \in Keys, NEW at \in Keys, kind = "job", Begin(c, Added(k, at, nextRow), "create"),
             Insert(k, "preparing", 0)
      PROVE  KeyInv(key)'
    <2>1. CASE k = key
        BY <1>1, <2>1, KeyAdd
    <2>2. CASE k # key
        <3>1. "preparing" \in Statuses /\ 0 \in Objects \cup {0} /\ 0 < nextObject
            BY NumberedRequest DEF Statuses
        <3>2. nextRow \in RowIds
            BY <1>1, <3>1, InsertTypes
        <3>. DEFINE r == Added(k, at, nextRow)
        <3>3. r.key = k
            BY <3>2, BegunTypes
        <3>4. Moves(c, "create", r) /\ ~Matters(pc[c]) /\ UNCHANGED <<kind, options, cluster, ours>>
            BY <1>1, BegunMoves
        <3>. HIDE DEF r
        <3>5. Stays(key)
            BY <1>1, <2>2, <3>1, <3>4, InsertElsewhere
        <3>. QED  BY <2>2, <3>3, <3>4, <3>5, KeyElsewhere
    <2>. QED  BY <2>1, <2>2
<1>2. ASSUME UNCHANGED <<rows, row, nextRow>>, NEW p, NEW r, Begin(c, r, p), p # "adopt",
             Matters(p) => r.key # key
      PROVE  KeyInv(key)'
    <2>1. Moves(c, p, r) /\ ~Matters(pc[c]) /\ UNCHANGED <<kind, options, object>>
        BY <1>2, BegunMoves
    <2>2. Stays(key)
        BY <1>2, <2>1, StaysUnchanged
    <2>. QED  BY <1>2, <2>1, <2>2, KeyElsewhere
<1>3. ASSUME UNCHANGED <<rows, row, nextRow>>, NEW k \in Keys, kind # "job", Begin(c, Stored(k), "create")
      PROVE  KeyInv(key)'
    BY <1>2, <1>3 DEF Matters, HasRow
<1>4. ASSUME UNCHANGED <<rows, row, nextRow>>, NEW id \in rows, Begin(c, Removed(row[id].key, id), "deleteObject")
      PROVE  KeyInv(key)'
    <2>1. CASE key = row[id].key
        BY <1>4, <2>1, KeyRemove
    <2>2. CASE key # row[id].key
        <3>. DEFINE r == Removed(row[id].key, id)
        <3>0. id \in RowIds \cup {0} /\ row[id].key \in Keys
            BY DEF TypeOK, Row
        <3>1. r.key = row[id].key
            BY <3>0, BegunTypes
        <3>2. Begin(c, r, "deleteObject")
            BY <1>4
        <3>. HIDE DEF r
        <3>. QED  BY <1>2, <1>4, <2>2, <3>1, <3>2
    <2>. QED  BY <2>1, <2>2
<1>5. ASSUME UNCHANGED <<rows, row, nextRow>>, NEW todo, Begin(c, Listed(todo), "next")
      PROVE  KeyInv(key)'
    BY <1>2, <1>5 DEF Matters, HasRow
<1>6. ASSUME UNCHANGED <<rows, row, nextRow>>, NEW k \in Keys, Begin(c, Synced(k), "find")
      PROVE  KeyInv(key)'
    BY <1>2, <1>6 DEF Matters, HasRow
<1>. QED  BY <1>1, <1>3, <1>4, <1>5, <1>6, AskCases

LEMMA KeyObjects ==
    ASSUME TypeOK, Numbered, Sent, AllSeparate, NEW c \in Clients,
           \/ DeployJob(c) \/ CreatePVK8s(c) \/ CreatePVC(c)
           \/ StopJobK8s(c) \/ DeletePVK8s(c) \/ DeletePVCK8s(c),
           NEW key \in Keys, key \notin broken', key \notin parted, KeyInv(key)
    PROVE  KeyInv(key)'
<1>0. req[c] \in Request /\ req[c].key \in Keys /\ req[c].at \in Keys
    BY RequestOf
<1>1. ASSUME DeployJob(c) \/ CreatePVK8s(c) \/ CreatePVC(c) PROVE KeyInv(key)'
    <2>1. pc[c] = "create" /\ UNCHANGED <<chosen, table>> /\ UNCHANGED <<kind, rows, row, options>>
        BY <1>1, CreateCases DEF chosen, table
    <2>2. CASE Made(c)
        <3>0. key = req[c].at <=> key = req[c].key
            BY <2>1 DEF Sent
        <3>1. CASE key = req[c].key
            BY <2>1, <2>2, <3>0, <3>1, KeyMade
        <3>2. CASE key # req[c].key
            <4>. DEFINE p == IF kind = "job" THEN "update" ELSE "insert"
                        r == [req[c] EXCEPT !.object = nextObject]
            <4>1. Moves(c, p, r) /\ r.key = req[c].key
                BY <1>0, <2>2 DEF Made, Request
            <4>2. object'[key] = object[key]
                BY <1>0, <2>2, <3>0, <3>2 DEF Made, TypeOK
            <4>3. Stays(key)
                BY <2>1, <4>2 DEF Stays, RowsOf
            <4>4. p # "adopt"
                OBVIOUS
            <4>. HIDE DEF p, r
            <4>. QED  BY <3>2, <4>1, <4>3, <4>4, KeyElsewhere
        <3>. QED  BY <3>1, <3>2
    <2>3. CASE Refused(c)
        <3>1. Moves(c, "idle", NullRequest) /\ UNCHANGED object
              /\ (kind = "job" => key # req[c].key)
            BY <2>3, MovesBy DEF Refused, cluster
        <3>2. Stays(key)
            BY <2>1, <3>1, StaysUnchanged
        <3>. QED  BY <2>1, <3>1, <3>2, KeyElsewhere DEF Matters, HasRow
    <2>. QED  BY <1>1, <2>2, <2>3, CreateCases
<1>2. ASSUME StopJobK8s(c) \/ DeletePVK8s(c) \/ DeletePVCK8s(c) PROVE KeyInv(key)'
    <2>1. CASE key = req[c].key
        <3>1. object' = [object EXCEPT ![req[c].key] = 0]
            BY <1>2, <2>1, DeleteCases
        <3>. QED  BY <1>2, <2>1, <3>1, KeyDeleteObject
    <2>2. CASE key # req[c].key
        <3>. DEFINE p == IF kind = "pv" THEN "deleteOption" ELSE "deleteRow"
        <3>1. Moves(c, p, req[c]) /\ UNCHANGED <<kind, rows, row, options>>
            BY <1>2, DeleteCases, MovesBy DEF chosen, table
        <3>2. object'[key] = object[key]
            BY <1>0, <1>2, <2>2, DeleteCases DEF TypeOK
        <3>3. Stays(key)
            BY <3>1, <3>2 DEF Stays, RowsOf
        <3>4. p # "adopt"
            OBVIOUS
        <3>. HIDE DEF p
        <3>. QED  BY <2>2, <3>1, <3>3, <3>4, KeyElsewhere
    <2>. QED  BY <2>1, <2>2
<1>. QED  BY <1>1, <1>2

LEMMA KeyRows ==
    ASSUME TypeOK, Numbered, AllSeparate, NEW c \in Clients,
           UpdateJob(c) \/ AddRow(c) \/ AddPVOption(c) \/ DeletePVOption(c) \/ DeleteRow(c),
           NEW key \in Keys, KeyInv(key)
    PROVE  KeyInv(key)'
<1>1. CASE key = req[c].key
    BY <1>1, KeyUpdate, KeyAddRow, KeyAddOption, KeyDeleteOption, KeyDeleteRow
<1>2. CASE key # req[c].key
    <2>1. ASSUME Stays(key), NEW p, NEW r, Moves(c, p, r), p # "adopt",
                 Matters(p) => r.key = req[c].key
          PROVE  KeyInv(key)'
        BY <1>2, <2>1, KeyElsewhere
    <2>2. ~Matters("idle")
        BY DEF Matters, HasRow
    <2>3. HasRow(pc[c]) => req[c].id \notin RowsOf(key)
        BY <1>2, NumberedRequest DEF RowsOf
    <2>4. CASE UpdateJob(c)
        <3>1. /\ UNCHANGED <<kind, rows, options, object>> /\ req[c].id \notin RowsOf(key)
              /\ RowsOf(key) \subseteq RowIds
            BY <2>3, <2>4 DEF UpdateJob, chosen, cluster, HasRow, RowsOf, TypeOK
        <3>2. \A i \in RowIds : row'[i].key = row[i].key /\ (i # req[c].id => row'[i].object = row[i].object)
            BY <2>4, RequestOf DEF UpdateJob, TypeOK, Row
        <3>3. RowsOf(key)' = RowsOf(key)
            BY <3>1, <3>2 DEF RowsOf, TypeOK
        <3>4. Stays(key)
            BY <3>1, <3>2, <3>3 DEF Stays
        <3>. QED  BY <2>1, <2>2, <2>4, <3>4, RowsMove
    <2>5. CASE AddRow(c)
        <3>1. Insert(req[c].key, "stored", req[c].object) /\ UNCHANGED <<kind, options, cluster, ours>>
            BY <2>5 DEF AddRow, chosen, history
        <3>2. "stored" \in Statuses /\ req[c].object \in Objects \cup {0} /\ req[c].object < nextObject
              /\ req[c].key \in Keys
            BY RequestOf, NumberedRequest DEF Statuses
        <3>3. Stays(key)
            BY <1>2, <3>1, <3>2, InsertElsewhere
        <3>. DEFINE r == [req[c] EXCEPT !.id = nextRow]
        <3>4. r.key = req[c].key
            BY RequestOf DEF Request
        <3>5. Moves(c, "idle", NullRequest) \/ Moves(c, "option", r)
            BY <2>5, RowsMove
        <3>. HIDE DEF r
        <3>. QED  BY <2>1, <2>2, <3>3, <3>4, <3>5
    <2>6. CASE AddPVOption(c)
        <3>1. Stays(key)
            BY <2>6 DEF AddPVOption, Stays, RowsOf, chosen, cluster
        <3>. QED  BY <2>1, <2>2, <2>6, <3>1, RowsMove
    <2>7. CASE DeletePVOption(c)
        <3>1. Stays(key)
            BY <2>3, <2>7 DEF DeletePVOption, Stays, RowsOf, chosen, cluster, HasRow
        <3>. QED  BY <2>1, <2>7, <3>1, RowsMove
    <2>8. CASE DeleteRow(c)
        <3>1. Stays(key) /\ Moves(c, "idle", NullRequest)
            BY <2>3, <2>8, MovesBy DEF DeleteRow, Stays, RowsOf, chosen, cluster, HasRow
        <3>. QED  BY <2>1, <2>2, <3>1
    <2>. QED  BY <2>4, <2>5, <2>6, <2>7, <2>8
<1>. QED  BY <1>1, <1>2

LEMMA KeySync ==
    ASSUME TypeOK, Numbered, AllSeparate, NEW c \in Clients,
           SyncJobK8sStatus(c) \/ WriteStatus(c) \/ ListK8sJobs(c) \/ SyncJobData(c),
           NEW key \in Keys, KeyInv(key)
    PROVE  KeyInv(key)'
<1>1. ~Matters(pc[c]) /\ ~Matters("write") /\ ~Matters("next") /\ ~Matters("adopt") /\ ~Matters("idle")
    BY DEF SyncJobK8sStatus, WriteStatus, ListK8sJobs, SyncJobData, Matters, HasRow
<1>2. UNCHANGED <<kind, cluster, object, ours>>
    BY RowsKept DEF chosen, cluster, history
<1>3. CASE SyncJobK8sStatus(c)
    <2>1. UNCHANGED <<rows, row, options>>
        BY <1>3 DEF SyncJobK8sStatus, table
    <2>2. Stays(key)
        BY <1>2, <2>1, StaysUnchanged
    <2>. QED  BY <1>1, <1>3, <2>2, ReadMoves, KeyElsewhere
<1>4. CASE WriteStatus(c)
    <2>1. \A i \in RowIds : row'[i].key = row[i].key /\ row'[i].object = row[i].object
        BY <1>4 DEF WriteStatus, TypeOK, Row
    <2>2. UNCHANGED <<rows, options>> /\ rows \subseteq RowIds
        BY <1>4 DEF WriteStatus, TypeOK
    <2>3. Stays(key)
        BY <1>2, <2>1, <2>2 DEF Stays, RowsOf
    <2>. QED  BY <1>1, <1>4, <2>3, RowsMove, KeyElsewhere
<1>5. CASE ListK8sJobs(c)
    <2>1. UNCHANGED <<rows, row, options>>
        BY <1>5 DEF ListK8sJobs, table
    <2>2. Stays(key)
        BY <1>2, <2>1, StaysUnchanged
    <2>. DEFINE found == {k \in Keys : k[1] = req[c].key[1] /\ object[k] # 0}
                r == [req[c] EXCEPT !.found = found]
    <2>3. r.found = found
        BY RequestOf DEF Request
    <2>4. Moves(c, "idle", NullRequest) \/ Moves(c, "adopt", r)
        BY <1>5, RowsMove
    <2>. HIDE DEF r
    <2>. QED  BY <1>1, <2>2, <2>3, <2>4, KeyElsewhere
<1>6. CASE SyncJobData(c)
    <2>1. PICK k \in req[c].found :
            IF \E id \in rows : row[id].key[2] = k[2]
            THEN UNCHANGED <<rows, row, nextRow>>
            ELSE Insert(k, "running", object[k])
        BY <1>6 DEF SyncJobData
    <2>2. pc[c] = "adopt" /\ UNCHANGED options
        BY <1>6 DEF SyncJobData
    <2>3. k \in Keys /\ object[k] \in Objects \cup {0} /\ "running" \in Statuses /\ object[k] < nextObject
        BY RequestOf DEF TypeOK, Statuses, Numbered, CountersInv
    <2>4. ASSUME \E id \in rows : row[id].key[2] = k[2] PROVE Stays(key)
        BY <1>2, <2>1, <2>2, <2>4, StaysUnchanged
    <2>5. ASSUME ~\E id \in rows : row[id].key[2] = k[2] PROVE Stays(key)
        <3>1. key # k
            <4>1. SUFFICES ASSUME key = k PROVE FALSE
                OBVIOUS
            <4>2. object[key] # 0 /\ RowsOf(key) = {}
                BY <2>2, <2>5, <4>1 DEF KeyInv, FoundIsThere, RowsOf
            <4>3. PICK d \in Clients : Makes(d, key)
                BY <4>2 DEF KeyInv, HasOwner
            <4>4. d # c /\ pc[d] # "idle" /\ req[d].op = "add"
                BY <2>2, <4>3, NumberedRequest DEF Makes, Shape
            <4>. QED  BY <2>2, <4>4, Company
        <3>. QED  BY <1>2, <2>1, <2>2, <2>3, <2>5, <3>1, InsertElsewhere
    <2>6. Stays(key)
        BY <2>4, <2>5
    <2>7. Moves(c, "idle", NullRequest) \/ \E f \in req[c].found : Moves(c, "adopt", [req[c] EXCEPT !.found = @ \ {f}])
        BY <1>6, RowsMove
    <2>8. ASSUME NEW f \in req[c].found, Moves(c, "adopt", [req[c] EXCEPT !.found = @ \ {f}]) PROVE KeyInv(key)'
        <3>. DEFINE r == [req[c] EXCEPT !.found = @ \ {f}]
        <3>1. r.found \subseteq req[c].found
            BY RequestOf DEF Request
        <3>2. Moves(c, "adopt", r)
            BY <2>8
        <3>. HIDE DEF r
        <3>3. key \in r.found => object[key] # 0
            BY <2>2, <3>1 DEF KeyInv, FoundIsThere
        <3>. QED  BY <1>1, <2>6, <3>2, <3>3, KeyElsewhere
    <2>9. ASSUME Moves(c, "idle", NullRequest) PROVE KeyInv(key)'
        BY <1>1, <2>6, <2>9, KeyElsewhere
    <2>. QED  BY <2>7, <2>8, <2>9
<1>. QED  BY <1>3, <1>4, <1>5, <1>6

LEMMA KeyFail ==
    ASSUME TypeOK, Numbered, NEW c \in Clients, Fails(c),
           NEW key \in Keys, key \notin broken', KeyInv(key)
    PROVE  KeyInv(key)'
<1>1. Moves(c, "idle", NullRequest) /\ UNCHANGED <<kind, rows, row, options, object>>
    BY MovesBy DEF Fails, chosen, table, cluster
<1>2. Matters(pc[c]) => req[c].key # key
    BY NumberedRequest DEF Fails, HalfWay, Matters, HasRow, Shape
<1>3. Stays(key) /\ ~Matters("idle")
    BY <1>1, StaysUnchanged DEF Matters, HasRow
<1>. QED  BY <1>1, <1>2, <1>3, KeyElsewhere

LEMMA KeyCluster ==
    ASSUME TypeOK, NEW k \in Keys, JobRuns(k) \/ OthersDelete(k) \/ OthersCreate(k),
           NEW key \in Keys, key \notin broken', KeyInv(key)
    PROVE  KeyInv(key)'
<1>1. UNCHANGED <<kind, rows, row, options, pc, req>>
    BY DEF JobRuns, OthersDelete, OthersCreate, chosen, table, procVars
<1>2. object'[key] = object[key]
    BY DEF JobRuns, OthersDelete, OthersCreate, HalfWay, TypeOK
<1>3. /\ RowsOf(key)' = RowsOf(key)
      /\ \A id : (Owns(id, key)' <=> Owns(id, key)) /\ (Complete(id, key)' <=> Complete(id, key))
      /\ \A d : Makes(d, key)' <=> Makes(d, key)
    BY <1>1, <1>2 DEF RowsOf, Owns, Complete, Makes
<1>4. \A d, id : Explains(d, id, key)' <=> Explains(d, id, key)
    BY <1>1, <1>3 DEF Explains
<1>. QED  BY <1>1, <1>2, <1>3, <1>4 DEF KeyInv, Accounted, OneOwner, OneMaker, HasOwner, OneRemover,
                                        FoundIsThere, MakerHasRow

KeysKnown == \A key \in Keys \ (broken \cup parted) : KeyInv(key)

LEMMA KeysNext ==
    TypeOK /\ Numbered /\ Sent /\ AllSeparate /\ KeysKnown /\ ~races /\ [Next]_vars => KeysKnown'
<1>. SUFFICES ASSUME TypeOK, Numbered, Sent, AllSeparate, KeysKnown, ~races, [Next]_vars,
                     NEW key \in Keys, key \notin broken', key \notin parted'
              PROVE  KeyInv(key)'
    BY DEF KeysKnown
<1>0. key \notin parted
    BY PartedGrows
<1>1. broken \subseteq broken'
    <2>1. CASE UNCHANGED vars
        BY <2>1 DEF vars, history
    <2>2. ASSUME NEW c \in Clients, Asks(c) PROVE broken \subseteq broken'
        BY <2>2, AskCases DEF Begin
    <2>3. ASSUME NEW c \in Clients, Step(c) PROVE broken \subseteq broken'
        BY <2>3, CreateCases, DeleteCases, RowsKept DEF Step, Made, Refused, history, DeleteRow
    <2>4. ASSUME NEW c \in Clients, Fails(c) PROVE broken \subseteq broken'
        BY <2>4 DEF Fails, HalfWay
    <2>5. ASSUME NEW k \in KeysOf, JobRuns(k) \/ OthersDelete(k) \/ OthersCreate(k)
          PROVE  broken \subseteq broken'
        BY <2>5 DEF JobRuns, OthersDelete, OthersCreate, HalfWay, history
    <2>. QED  BY <2>1, <2>2, <2>3, <2>4, <2>5 DEF Next
<1>2. KeyInv(key)
    BY <1>0, <1>1 DEF KeysKnown
<1>3. CASE UNCHANGED vars
    BY <1>2, <1>3 DEF vars, chosen, table, cluster, procVars, KeyInv, Accounted, OneOwner, OneMaker,
                      HasOwner, OneRemover, FoundIsThere, MakerHasRow, RowsOf, Owns, Complete,
                      Makes, Explains
<1>4. ASSUME NEW c \in Clients, Asks(c) PROVE KeyInv(key)'
    BY <1>2, <1>4, KeyAsk
<1>5. ASSUME NEW c \in Clients, Step(c) PROVE KeyInv(key)'
    BY <1>0, <1>2, <1>5, KeyObjects, KeyRows, KeySync DEF Step
<1>6. ASSUME NEW c \in Clients, Fails(c) PROVE KeyInv(key)'
    BY <1>2, <1>6, KeyFail
<1>7. ASSUME NEW k \in KeysOf, JobRuns(k) \/ OthersDelete(k) \/ OthersCreate(k) PROVE KeyInv(key)'
    BY <1>2, <1>7, KeysOfKind, KeyCluster
<1>. QED  BY <1>3, <1>4, <1>5, <1>6, <1>7 DEF Next

LEMMA RacesStay == [Next]_vars => races' = races
<1>. SUFFICES ASSUME [Next]_vars PROVE races' = races
    OBVIOUS
<1>1. CASE UNCHANGED vars
    BY <1>1 DEF vars, chosen
<1>2. ASSUME NEW c \in Clients, Asks(c) PROVE races' = races
    BY <1>2, AskCases DEF Begin, chosen
<1>3. ASSUME NEW c \in Clients, Step(c) PROVE races' = races
    BY <1>3, CreateCases, DeleteCases
       DEF Step, chosen, UpdateJob, AddRow, AddPVOption, DeletePVOption, DeleteRow,
           SyncJobK8sStatus, WriteStatus, ListK8sJobs, SyncJobData
<1>4. ASSUME NEW c \in Clients, Fails(c) PROVE races' = races
    BY <1>4 DEF Fails, chosen
<1>5. ASSUME NEW k \in KeysOf, JobRuns(k) \/ OthersDelete(k) \/ OthersCreate(k) PROVE races' = races
    BY <1>5 DEF JobRuns, OthersDelete, OthersCreate, chosen
<1>. QED  BY <1>1, <1>2, <1>3, <1>4, <1>5 DEF Next

-----------------------------------------------------------------------------
(* The invariants. *)

Inv == TypeOK /\ Numbered /\ Sent /\ JobsInv /\ KeysInv

LEMMA InvInit == Init => Inv
<1>. SUFFICES ASSUME Init PROVE Inv
    OBVIOUS
<1>1. TypeOK /\ Numbered /\ Sent /\ JobsInv
    BY TypeInit, NumberedInit, SentInit, JobsInit
<1>2. rows = {} /\ (\A key \in Keys : object[key] = 0) /\ (\A c \in Clients : pc[c] = "idle")
    BY DEF Init
<1>3. AllSeparate
    BY <1>2 DEF AllSeparate, Separate
<1>4. ASSUME NEW key \in Keys PROVE KeyInv(key)
    BY <1>2 DEF KeyInv, Accounted, OneOwner, OneMaker, HasOwner, OneRemover, FoundIsThere,
                MakerHasRow, RowsOf, Makes
<1>. QED  BY <1>1, <1>3, <1>4 DEF Inv, KeysInv

LEMMA InvNext == Inv /\ [Next]_vars => Inv'
<1>. SUFFICES ASSUME Inv, [Next]_vars PROVE Inv'
    OBVIOUS
<1>1. TypeOK' /\ Numbered' /\ Sent'
    BY NumberedOption, TypeNext, NumberedNext, SentNext DEF Inv
<1>2. JobsInv'
    BY <1>1, JobsNext DEF Inv
<1>3. KeysInv'
    BY RacesStay, SeparateNext, KeysNext DEF Inv, KeysInv, KeysKnown
<1>. QED  BY <1>1, <1>2, <1>3 DEF Inv

LEMMA Invariance == Spec => []Inv
BY InvInit, InvNext, PTL DEF Spec

LEMMA InvOwned == Inv => ObjectsAreOwned
<1>. SUFFICES ASSUME Inv, NEW key \in Keys, object[key] \in ours, key \notin parted,
                     kind = "job" \/ (~races /\ key \notin broken /\ Underway(key) = {})
              PROVE  RowsOf(key) # {}
    BY DEF ObjectsAreOwned
<1>1. CASE kind = "job"
    BY <1>1 DEF Inv, JobsInv, JobKeepsRow
<1>2. CASE ~races /\ key \notin broken /\ Underway(key) = {}
    <2>1. object[key] # 0
        BY DEF Inv, TypeOK, Objects
    <2>. QED  BY <1>2, <2>1, Quiet DEF Inv, KeysInv
<1>. QED  BY <1>1, <1>2

LEMMA InvRows == Inv => RowsHaveTheirObject
<1>. SUFFICES ASSUME Inv, ~races, NEW key \in Keys \ (broken \cup parted), Underway(key) = {}
              PROVE  /\ \A id \in RowsOf(key) :
                          /\ row[id].object = object[key] /\ object[key] # 0
                          /\ kind = "pv" => id \in options
                     /\ Cardinality(RowsOf(key)) <= 1
    BY DEF RowsHaveTheirObject
<1>1. /\ \A id \in RowsOf(key) : Complete(id, key)
      /\ \A id, other \in RowsOf(key) : id = other
    BY Quiet DEF Inv, KeysInv
<1>2. RowsOf(key) = {} \/ \E id : RowsOf(key) = {id}
    BY <1>1
<1>3. Cardinality(RowsOf(key)) <= 1
    <2>1. CASE RowsOf(key) = {}
        BY <2>1, FS_EmptySet
    <2>2. ASSUME NEW id, RowsOf(key) = {id} PROVE Cardinality(RowsOf(key)) = 1
        BY <2>2, FS_Singleton
    <2>. QED  BY <1>2, <2>1, <2>2
<1>. QED  BY <1>1, <1>3 DEF Complete, Owns

\* However requests overlap or end half-way, a job that the server made has a row to remove it
\* by, unless a row was removed while its job was being made or a request had the id of one
\* project and the name of another (DeployJobAction); and so has a volume or a claim, if requests for its name neither fail nor overlap a removal (Remove, DeleteObject, DeleteRow).
THEOREM ObjectsStayOwned == Spec => []ObjectsAreOwned
BY Invariance, InvOwned, PTL

\* Additions of one name may overlap: as long as removals do not, and no request ends half-way or
\* has two projects, the rows have the object they were made with, and no two rows share it (Create, AddRow,
\* AddPVOption, UpdateJob, SyncJobData).
THEOREM RowsKeepTheirObject == Spec => []RowsHaveTheirObject
BY Invariance, InvRows, PTL

=============================================================================
