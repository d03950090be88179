----------------------------- MODULE StoredObjects -----------------------------
(***************************************************************************)
(* Jobs, persistent volumes and their claims: rows of a table beside       *)
(* objects of the cluster with the same name (v1/controller/job.go,        *)
(* pvolume.go and pvclaim.go, the services and tables under them).  Which  *)
(* of the three is followed is chosen in the initial state.                *)
(*                                                                         *)
(* A job's row is inserted before its object is made, the row of a volume  *)
(* or a claim after; all are removed object first.  No table has a key but *)
(* the id, and no request looks whether its name is taken: that check is a *)
(* request of its own (JobExists, CheckPVolumeNameExistingAction and       *)
(* GetPVCNameExisting), so that the object is what makes a name unique.    *)
(* A step is one call of the cluster or one query of the database.         *)
(***************************************************************************)
EXTENDS Integers, FiniteSets

CONSTANTS
    Kinds,      \* which of "job", "pv", "pvc" may be followed
    Places,     \* projects, each a namespace
    Cluster,    \* where persistent volumes are
    Names,      \* names of objects
    Clients,    \* requests that can be underway at a time
    Faults,     \* what may fail: "call" of the cluster, "query" of the database
    Outsiders,  \* BOOLEAN: do others make and delete objects?
    MaxRows,    \* bound: rows ever inserted
    MaxObjects, \* bound: objects ever made
    MaxAsks     \* bound: requests ever made

ASSUME StoredObjectsAssumption ==
    /\ Kinds \subseteq {"job", "pv", "pvc"} /\ Kinds # {}
    /\ Places # {} /\ Names # {}
    /\ Outsiders \in BOOLEAN
    /\ MaxRows \in Nat /\ MaxObjects \in Nat /\ MaxAsks \in Nat

VARIABLES
    kind,     \* what is followed
    rows,     \* ids of the rows of the table
    row,      \* id -> the row, and which object it was made with
    options,  \* ids with a row in the table of a volume's options
    nextRow,  \* the auto-increment counter
    object,   \* place and name -> which object is there, 0 for none
    phase,    \* place and name -> how far the job is
    nextObject, \* the number of the next object
    pc,       \* client -> the next step of its request
    req,      \* client -> the local variables of its request
    asks,     \* requests made so far
    races,    \* may removals overlap with other requests for a name?  Chosen once
    ours,     \* history: the objects that the server made
    broken,   \* history: names for which a request ended half-way, or that others touched
    parted    \* history: names whose row was removed while its object was being made, or
              \* was inserted in another project than its object is made in

table    == <<rows, row, options, nextRow>>
cluster  == <<object, phase, nextObject>>
procVars == <<pc, req>>
chosen   == <<kind, races>>
history  == <<ours, broken, parted>>
vars     == <<chosen, table, cluster, procVars, asks, history>>

-----------------------------------------------------------------------------
RowIds  == 1..MaxRows
Objects == 1..MaxObjects
Keys    == (Places \cup {Cluster}) \X Names

PlacesOf(k) == IF k = "pv" THEN {Cluster} ELSE Places

Statuses == {"preparing", "uncompleted", "running", "completed", "failed", "stored"}
Reasons  == {"", "not established", "does not complete", "reached", "not reached"}
Phases   == {"waiting", "active", "backoff", "complete", "short"}

Row == [key : Keys, status : Statuses, comment : Reasons, object : Objects \cup {0}]

Request == [op : {"add", "remove", "list", "sync"}, key : Keys, at : Keys,
            id : RowIds \cup {0}, object : Objects \cup {0}, todo : SUBSET RowIds, found : SUBSET Keys,
            status : Statuses, reason : Reasons]

PCs == {"idle", "insert", "create", "update", "option", "deleteObject", "deleteOption",
        "deleteRow", "next", "write", "find", "adopt"}

NullKey == <<Cluster, CHOOSE n \in Names : TRUE>>

NullRow == [key |-> NullKey, status |-> "preparing", comment |-> "", object |-> 0]

NullRequest == [op |-> "add", key |-> NullKey, at |-> NullKey, id |-> 0, object |-> 0,
                todo |-> {}, found |-> {}, status |-> "uncompleted", reason |-> ""]

TypeOK ==
    /\ kind \in Kinds
    /\ rows \subseteq RowIds /\ row \in [RowIds -> Row] /\ options \subseteq RowIds
    /\ nextRow \in 1..(MaxRows + 1)
    /\ object \in [Keys -> Objects \cup {0}] /\ phase \in [Keys -> Phases]
    /\ nextObject \in 1..(MaxObjects + 1)
    /\ pc \in [Clients -> PCs] /\ req \in [Clients -> Request]
    /\ asks \in 0..MaxAsks
    /\ races \in BOOLEAN
    /\ ours \subseteq Objects /\ broken \subseteq Keys /\ parted \subseteq Keys

Init ==
    /\ kind \in Kinds
    /\ rows = {} /\ row = [id \in RowIds |-> NullRow] /\ options = {} /\ nextRow = 1
    /\ object = [key \in Keys |-> 0] /\ phase = [key \in Keys |-> "waiting"] /\ nextObject = 1
    /\ pc = [c \in Clients |-> "idle"] /\ req = [c \in Clients |-> NullRequest]
    /\ asks = 0 /\ races \in BOOLEAN
    /\ ours = {} /\ broken = {} /\ parted = {}

-----------------------------------------------------------------------------
(* Requests. *)

Goto(c, p) == pc' = [pc EXCEPT ![c] = p]

Return(c) == Goto(c, "idle") /\ req' = [req EXCEPT ![c] = NullRequest]

Underway(key) == {c \in Clients : pc[c] # "idle" /\ req[c].op \in {"add", "remove"}
                                  /\ req[c].key = key}

\* Additions of one name may always overlap.
Apart(op, key) ==
    \/ races
    \/ op = "list"
    \/ /\ op = "sync"
       /\ \A k \in Keys : Underway(k) = {}
    \/ /\ op \in {"add", "remove"}
       /\ \A c \in Clients : pc[c] # "idle" => req[c].op # "sync"
       /\ \A c \in Underway(key) : op = "add" /\ req[c].op = "add"

Begin(c, r, p) ==
    /\ pc[c] = "idle" /\ asks < MaxAsks
    /\ Apart(r.op, r.key)
    /\ asks' = asks + 1
    /\ Goto(c, p)
    /\ req' = [req EXCEPT ![c] = r]
    /\ UNCHANGED <<chosen, cluster, options, ours, broken>>

HalfWay(key) == broken' = broken \cup {key}

\* A call or a query fails and its request ends, or the server stops.
Fails(c) ==
    /\ \/ /\ "call" \in Faults
          /\ pc[c] \in {"create", "find"} \/ (pc[c] = "deleteObject" /\ kind = "job")
       \/ /\ "query" \in Faults
          /\ pc[c] \in {"insert", "update", "option", "deleteOption", "deleteRow", "write",
                       "adopt"}
    /\ IF req[c].op \in {"add", "remove"} THEN HalfWay(req[c].key) ELSE UNCHANGED broken
    /\ Return(c)
    /\ UNCHANGED <<chosen, table, cluster, asks, ours, parted>>

Insert(key, status, o) ==
    /\ nextRow <= MaxRows
    /\ rows' = rows \cup {nextRow}
    /\ row' = [row EXCEPT ![nextRow] = [key |-> key, status |-> status, comment |-> "",
                                        object |-> o]]
    /\ nextRow' = nextRow + 1

-----------------------------------------------------------------------------
(* Adding. *)

\* The row is of the project whose id the body has, the object goes to the project
\* whose name it has, and the two are not compared.
DeployJobAction(c, key, at) ==
    /\ kind = "job" /\ at[2] = key[2]
    /\ Begin(c, [NullRequest EXCEPT !.key = key, !.at = at, !.id = nextRow], "create")
    /\ Insert(key, "preparing", 0)
    /\ parted' = IF at = key THEN parted ELSE parted \cup {key, at}

\* Variant: the row of a volume or a claim is inserted before the object is made.
AddRowFirst(c, key) ==
    /\ Begin(c, [NullRequest EXCEPT !.key = key, !.at = key, !.id = nextRow], "create")
    /\ Insert(key, "stored", nextObject)
    /\ UNCHANGED parted

AddStored(c, key) ==
    /\ Begin(c, [NullRequest EXCEPT !.key = key, !.at = key], "create")
    /\ UNCHANGED <<rows, row, nextRow, parted>>

AddPVolumeAction(c, key) == kind = "pv" /\ AddStored(c, key)
AddPVClaimAction(c, key) == kind = "pvc" /\ AddStored(c, key)

\* The cluster refuses a name that is taken; then the request ends with `ending`.
Create(c, next, ending) ==
    LET at == req[c].at IN
    /\ pc[c] = "create"
    /\ \/ /\ object[at] = 0 /\ nextObject <= MaxObjects
          /\ object' = [object EXCEPT ![at] = nextObject]
          /\ phase' = [phase EXCEPT ![at] = "waiting"]
          /\ nextObject' = nextObject + 1
          /\ ours' = ours \cup {nextObject}
          /\ Goto(c, next)
          /\ req' = [req EXCEPT ![c].object = nextObject]
          /\ UNCHANGED broken
       \/ /\ object[at] # 0
          /\ ending
          /\ Return(c) /\ UNCHANGED <<cluster, ours>>
    /\ UNCHANGED <<chosen, table, asks, parted>>

\* The row of a job that the cluster refuses stays as it is.
DeployJob(c)   == kind = "job" /\ Create(c, "update", HalfWay(req[c].key))
CreatePVK8s(c) == kind = "pv" /\ Create(c, "insert", UNCHANGED broken)
CreatePVC(c)   == kind = "pvc" /\ Create(c, "insert", UNCHANGED broken)

UpdateJob(c) ==
    LET id == req[c].id IN
    /\ pc[c] = "update"
    /\ row' = IF id \in rows THEN [row EXCEPT ![id].status = "uncompleted",
                                              ![id].object = req[c].object] ELSE row
    /\ Return(c)
    /\ UNCHANGED <<chosen, rows, options, nextRow, cluster, asks, history>>

\* CreatePVDB, CreatePVCDB.  The options of a volume are a row of a table of their own.
AddRow(c) ==
    /\ pc[c] = "insert"
    /\ Insert(req[c].key, "stored", req[c].object)
    /\ IF kind = "pv" THEN Goto(c, "option") /\ req' = [req EXCEPT ![c].id = nextRow] ELSE Return(c)
    /\ UNCHANGED <<chosen, options, cluster, asks, history>>

AddPVOption(c) ==
    /\ pc[c] = "option"
    /\ options' = options \cup {req[c].id}
    /\ Return(c)
    /\ UNCHANGED <<chosen, rows, row, nextRow, cluster, asks, history>>

-----------------------------------------------------------------------------
(* Removing. *)

\* Variant: the row goes before the object.
RemoveRowFirst(c, id) ==
    /\ id \in rows
    /\ Begin(c, [NullRequest EXCEPT !.op = "remove", !.key = row[id].key, !.id = id],
             "deleteObject")
    /\ rows' = rows \ {id}
    /\ UNCHANGED <<row, nextRow, parted>>

Remove(c, id) ==
    /\ id \in rows
    /\ Begin(c, [NullRequest EXCEPT !.op = "remove", !.key = row[id].key, !.id = id],
             "deleteObject")
    /\ parted' = IF \E d \in Clients : req[d].op = "add" /\ req[d].id = id
                THEN parted \cup {row[id].key} ELSE parted
    /\ UNCHANGED <<rows, row, nextRow>>

DeleteJobAction(c, id)     == kind = "job" /\ Remove(c, id)
RemovePVolumeAction(c, id) == kind = "pv" /\ Remove(c, id)
RemovePVClaimAction(c, id) == kind = "pvc" /\ Remove(c, id)

\* Whatever object has the name.
DeleteObject(c, next) ==
    /\ pc[c] = "deleteObject"
    /\ object' = [object EXCEPT ![req[c].key] = 0]
    /\ Goto(c, next)
    /\ UNCHANGED <<chosen, table, phase, nextObject, req, asks, history>>

\* A failure is logged, and the rows go all the same.
FailUnseen(c, next) ==
    /\ pc[c] = "deleteObject" /\ "call" \in Faults
    /\ HalfWay(req[c].key)
    /\ Goto(c, next)
    /\ UNCHANGED <<chosen, table, cluster, req, asks, ours, parted>>

StopJobK8s(c)   == kind = "job" /\ DeleteObject(c, "deleteRow")
DeletePVK8s(c)  == kind = "pv" /\ (DeleteObject(c, "deleteOption") \/ FailUnseen(c, "deleteOption"))
DeletePVCK8s(c) == kind = "pvc" /\ (DeleteObject(c, "deleteRow") \/ FailUnseen(c, "deleteRow"))

DeletePVOption(c) ==
    /\ pc[c] = "deleteOption"
    /\ options' = options \ {req[c].id}
    /\ Goto(c, "deleteRow")
    /\ UNCHANGED <<chosen, rows, row, nextRow, cluster, req, asks, history>>

DeleteRow(c) ==
    /\ pc[c] = "deleteRow"
    /\ rows' = rows \ {req[c].id}
    /\ Return(c)
    /\ UNCHANGED <<chosen, row, options, nextRow, cluster, asks, history>>

-----------------------------------------------------------------------------
(* GetJobListAction: the rows that are not "preparing", one after another. *)

ListJobs(c) ==
    LET listed == {id \in rows : row[id].status # "preparing"} IN
    /\ kind = "job" /\ listed # {}
    /\ Begin(c, [NullRequest EXCEPT !.op = "list", !.todo = listed], "next")
    /\ UNCHANGED <<rows, row, nextRow, parted>>

\* Variant: the phase is stored as it is.
StatusUnmapped(p) ==
    [status |-> p, reason |-> {}]

\* Two of the results give no reason: that of the job before this one stays.
StatusOf(p) ==
    CASE p = "waiting"  -> [status |-> "uncompleted", reason |-> {"does not complete"}]
      [] p = "active"   -> [status |-> "running", reason |-> {}]
      [] p = "backoff"  -> [status |-> "failed", reason |-> {}]
      [] p = "complete" -> [status |-> "completed", reason |-> {"reached"}]
      [] p = "short"    -> [status |-> "failed", reason |-> {"not reached"}]

\* A job that cannot be read, for whatever reason, is "not established".
SyncJobK8sStatus(c) ==
    LET r == req[c] IN
    /\ pc[c] = "next"
    /\ \E id \in r.todo :
        LET key == row[id].key
            missing == [status |-> "uncompleted", reason |-> {"not established"}] IN
        \E found \in (IF object[key] = 0 THEN {missing} ELSE {StatusOf(phase[key])})
                     \cup (IF "call" \in Faults THEN {missing} ELSE {}) :
            req' = [req EXCEPT ![c].id = id, ![c].todo = @ \ {id}, ![c].status = found.status,
                    ![c].reason = CHOOSE w \in Reasons :
                        w \in (IF found.reason = {} THEN {r.reason} ELSE found.reason)]
    /\ Goto(c, "write")
    /\ UNCHANGED <<chosen, table, cluster, asks, history>>

WriteStatus(c) ==
    LET r == req[c] IN
    /\ pc[c] = "write"
    /\ row' = IF r.id \in rows THEN [row EXCEPT ![r.id].status = r.status,
                                                ![r.id].comment = r.reason] ELSE row
    /\ IF r.todo = {} THEN Return(c) ELSE Goto(c, "next") /\ UNCHANGED req
    /\ UNCHANGED <<chosen, rows, options, nextRow, cluster, asks, history>>

-----------------------------------------------------------------------------
(* SyncJobWithK8s, for one namespace after another, beside the first requests. *)

Sync(c) ==
    /\ kind = "job"
    /\ \E key \in Places \X Names :
        Begin(c, [NullRequest EXCEPT !.op = "sync", !.key = key], "find")
    /\ UNCHANGED <<rows, row, nextRow, parted>>

ListK8sJobs(c) ==
    LET found == {key \in Keys : key[1] = req[c].key[1] /\ object[key] # 0} IN
    /\ pc[c] = "find"
    /\ IF found = {} THEN Return(c)
       ELSE Goto(c, "adopt") /\ req' = [req EXCEPT ![c].found = found]
    /\ UNCHANGED <<chosen, table, cluster, asks, history>>

\* A job is known when a row has its name, whatever the project of that row.
SyncJobData(c) ==
    LET r == req[c] IN
    /\ pc[c] = "adopt"
    /\ \E key \in r.found :
        /\ IF \E id \in rows : row[id].key[2] = key[2]
           THEN UNCHANGED <<rows, row, nextRow>>
           ELSE Insert(key, "running", object[key])
        /\ IF r.found = {key} THEN Return(c)
           ELSE req' = [req EXCEPT ![c].found = @ \ {key}] /\ UNCHANGED pc
    /\ UNCHANGED <<chosen, options, cluster, asks, history>>

-----------------------------------------------------------------------------
(* The cluster. *)

JobRuns(key) ==
    /\ kind = "job" /\ object[key] # 0 /\ phase[key] \in {"waiting", "active"}
    /\ \E p \in Phases \ {"waiting", phase[key]} : phase' = [phase EXCEPT ![key] = p]
    /\ UNCHANGED <<chosen, table, object, nextObject, procVars, asks, history>>

OthersDelete(key) ==
    /\ Outsiders /\ object[key] # 0
    /\ object' = [object EXCEPT ![key] = 0]
    /\ HalfWay(key)
    /\ UNCHANGED <<chosen, table, phase, nextObject, procVars, asks, ours, parted>>

OthersCreate(key) ==
    /\ Outsiders /\ object[key] = 0 /\ nextObject <= MaxObjects
    /\ object' = [object EXCEPT ![key] = nextObject]
    /\ phase' = [phase EXCEPT ![key] = "waiting"]
    /\ nextObject' = nextObject + 1
    /\ HalfWay(key)
    /\ UNCHANGED <<chosen, table, procVars, asks, ours, parted>>

KeysOf == PlacesOf(kind) \X Names

Asks(c) ==
    \/ \E key \in KeysOf :
        \/ \E at \in KeysOf : DeployJobAction(c, key, at)
        \/ AddPVolumeAction(c, key) \/ AddPVClaimAction(c, key)
    \/ \E id \in RowIds :
        DeleteJobAction(c, id) \/ RemovePVolumeAction(c, id) \/ RemovePVClaimAction(c, id)
    \/ ListJobs(c) \/ Sync(c)

Step(c) ==
    \/ DeployJob(c) \/ CreatePVK8s(c) \/ CreatePVC(c)
    \/ UpdateJob(c) \/ AddRow(c) \/ AddPVOption(c)
    \/ StopJobK8s(c) \/ DeletePVK8s(c) \/ DeletePVCK8s(c) \/ DeletePVOption(c) \/ DeleteRow(c)
    \/ SyncJobK8sStatus(c) \/ WriteStatus(c) \/ ListK8sJobs(c) \/ SyncJobData(c)

Next ==
    \/ \E c \in Clients : Asks(c) \/ Step(c) \/ Fails(c)
    \/ \E key \in KeysOf : JobRuns(key) \/ OthersDelete(key) \/ OthersCreate(key)

Spec == Init /\ [][Next]_vars

-----------------------------------------------------------------------------
(* Properties. *)

RowsOf(key) == {id \in rows : row[id].key = key}

\* No object that the server made is left without a row to remove it by: not a job's, however
\* requests overlap, fail half-way or are taken over at a start of the server, as long as no
\* row is removed while its job is being made, and the request has the id and the name of
\* one project; and not a volume's or a claim's when requests
\* for its name neither fail nor overlap a removal (DeployJobAction, Create, DeleteObject,
\* DeleteRow, SyncJobData).
ObjectsAreOwned ==
    \A key \in Keys :
        ( /\ object[key] \in ours /\ key \notin parted
          /\ kind = "job" \/ (~races /\ key \notin broken /\ Underway(key) = {}) )
        => RowsOf(key) # {}

\* As long as no request for a name has ended half-way or had two projects, and others leave
\* it alone, each row has the object it was made with, and none is shared, even by
\* additions that overlap (Create, AddRow, AddPVOption, DeleteRow).
RowsHaveTheirObject ==
    ~races => \A key \in Keys \ (broken \cup parted) : Underway(key) = {} =>
        /\ \A id \in RowsOf(key) :
            /\ row[id].object = object[key] /\ object[key] # 0
            /\ kind = "pv" => id \in options
        /\ Cardinality(RowsOf(key)) <= 1
=============================================================================
