------------------------------ MODULE NodeManager ------------------------------
(***************************************************************************)
(* How the admin server adds nodes to the cluster and removes them         *)
(* (adminserver/controllers/nodeController, service/nodeService).  A       *)
(* request locks the node by an entry of the memory cache, writes a log    *)
(* and starts an ansible container on the host over ssh; the container     *)
(* works for minutes, reports to /node/callback and is gone.  The callback *)
(* completes the log, keeps node_status and unlocks the node.              *)
(*                                                                         *)
(* Handlers run side by side and take no other lock.  Each of their steps  *)
(* here is one access to the cache, to a table, to the host or to the API  *)
(* server.  UpdateLog runs for the container's callback and, when the      *)
(* container could not be launched, for the request itself: job says where *)
(* the action of a log is, from the launch to the end of its UpdateLog.    *)
(* The API server removes nodes from the cluster on its own account too.   *)
(***************************************************************************)
EXTENDS Integers

CONSTANTS
    Ips,       \* addresses of nodes
    Admins,    \* clients; one request of a client at a time
    MaxLogs,   \* bound: logs ever written (ids are auto-incremented)
    MaxTime,   \* bound: seconds that pass
    Requests,  \* what clients ask: "add", "remove", "deleteLog", "deleteRunningLog",
               \* "apiServer"
    Faults,    \* what may fail: "config", "ssh", "launch", "callback", "updateLog",
               \* "nodeStatus", "deleteNode"
    Overlap    \* FALSE: requests for one node do not overlap

ASSUME NodeManagerAssumption ==
    /\ Ips # {}
    /\ MaxLogs \in Nat /\ MaxTime \in Nat
    /\ Overlap \in BOOLEAN

VARIABLES
    locked,   \* addresses with an entry in GlobalCache
    logs,     \* ids of the rows of node_log
    log,      \* id -> address, action, flags and creation time of the row
    nextLog,  \* the auto-increment counter
    detail,   \* creation time -> log whose text node_log_detail_info holds, or 0
    status,   \* rows of node_status: address and creation time
    cluster,  \* addresses that are nodes of the cluster
    job,      \* id -> where the action of this log is
    exit,     \* id -> did the container exit with 0?
    now,      \* the second of the last log
    unrecorded, \* logs whose success could not be written to node_status
    gone,     \* addresses that left the cluster, since they last joined it, other
              \* than by a removal that had struck them out of node_status
    pc,       \* admin -> the next step of its request
    req       \* admin -> the local variables of its request

tables   == <<logs, log, nextLog, detail, status>>
members  == <<cluster, gone>>
jobVars  == <<job, exit, unrecorded>>
procVars == <<pc, req>>
vars     == <<locked, tables, members, jobVars, now, procVars>>

-----------------------------------------------------------------------------
LogIds == 1..MaxLogs
Times  == 0..MaxTime

ActionTypes == {"add", "remove"}

NodeLog == [ip : Ips, type : ActionTypes, completed : BOOLEAN, success : BOOLEAN, time : Times]

\* "unheard": the container has ended and its callback was lost or refused.
\* "cut": UpdateLog has returned an error before it unlocked the node.
Jobs == {"none", "container", "getLog", "updateLog", "detail", "status",
         "unlock", "deleteNode", "over", "unheard", "cut"}

PCs == {"idle", "lock", "connect", "insertLog", "launch", "updateLog", "unlock",
        "deleteLog", "deleteDetail"}

Request == [ip : Ips, type : ActionTypes, id : LogIds \cup {0}, time : Times]

NullIp == CHOOSE ip \in Ips : TRUE

NullLog == [ip |-> NullIp, type |-> "add", completed |-> FALSE, success |-> FALSE, time |-> 0]

NullRequest == [ip |-> NullIp, type |-> "add", id |-> 0, time |-> 0]

TypeOK ==
    /\ locked \subseteq Ips
    /\ logs \subseteq LogIds
    /\ log \in [LogIds -> NodeLog]
    /\ nextLog \in 1..(MaxLogs + 1)
    /\ detail \in [Times -> LogIds \cup {0}]
    /\ status \subseteq Ips \X Times
    /\ cluster \subseteq Ips /\ gone \subseteq Ips
    /\ unrecorded \subseteq LogIds
    /\ job \in [LogIds -> Jobs]
    /\ exit \in [LogIds -> BOOLEAN]
    /\ now \in Times
    /\ pc \in [Admins -> PCs]
    /\ req \in [Admins -> Request]

Init ==
    /\ locked = {} /\ logs = {} /\ nextLog = 1 /\ now = 0
    /\ log = [id \in LogIds |-> NullLog]
    /\ detail = [t \in Times |-> 0]
    /\ status = {} /\ cluster = {} /\ gone = {} /\ unrecorded = {}
    /\ job = [id \in LogIds |-> "none"]
    /\ exit = [id \in LogIds |-> FALSE]
    /\ pc = [a \in Admins |-> "idle"]
    /\ req = [a \in Admins |-> NullRequest]

-----------------------------------------------------------------------------
(* Adding and removing: AddRemoveNode and AddRemoveNodeByContainer. *)

Goto(a, p) == pc' = [pc EXCEPT ![a] = p] /\ UNCHANGED req

Return(a) ==
    /\ pc' = [pc EXCEPT ![a] = "idle"]
    /\ req' = [req EXCEPT ![a] = NullRequest]

\* A request for the node is in its handler.
Handled(a, ip) ==
    /\ pc[a] \in {"lock", "connect", "insertLog", "launch", "updateLog", "unlock"}
    /\ req[a].ip = ip

Undisturbed(ip) == Overlap \/ \A a \in Admins : ~Handled(a, ip)

\* Variant: the entry of the cache is not looked up.
AddRemoveNodeAnyway(a, ip, type) ==
    /\ type \in Requests /\ pc[a] = "idle" /\ Undisturbed(ip)
    /\ pc' = [pc EXCEPT ![a] = "lock"]
    /\ req' = [req EXCEPT ![a].ip = ip, ![a].type = type]
    /\ UNCHANGED <<locked, tables, members, jobVars, now>>

\* "node was locked.", or the request goes on.
AddRemoveNode(a, ip, type) ==
    /\ type \in Requests /\ pc[a] = "idle" /\ Undisturbed(ip)
    /\ ip \notin locked
    /\ pc' = [pc EXCEPT ![a] = "lock"]
    /\ req' = [req EXCEPT ![a].ip = ip, ![a].type = type]
    /\ UNCHANGED <<locked, tables, members, jobVars, now>>

Lock(a) ==
    /\ pc[a] = "lock"
    /\ \/ /\ locked' = locked \cup {req[a].ip}
          /\ Goto(a, "connect")
       \/ /\ "config" \in Faults
          /\ Goto(a, "unlock")
          /\ UNCHANGED locked
    /\ UNCHANGED <<tables, members, jobVars, now>>

NewSecureShell(a) ==
    /\ pc[a] = "connect"
    /\ \/ Goto(a, "insertLog") /\ UNCHANGED locked
       \/ /\ "ssh" \in Faults
          /\ locked' = locked \ {req[a].ip}
          /\ Goto(a, "unlock")
    /\ UNCHANGED <<tables, members, jobVars, now>>

\* Variant: the id of the log is taken from the counter after the insertion.
InsertLogOffByOne(a) ==
    /\ pc[a] = "insertLog" /\ nextLog \in LogIds
    /\ IF req[a].ip \in locked
       THEN \E t \in Times :
            /\ t >= now /\ now' = t
            /\ logs' = logs \cup {nextLog}
            /\ log' = [log EXCEPT ![nextLog] =
                           [ip |-> req[a].ip, type |-> req[a].type,
                            completed |-> FALSE, success |-> FALSE, time |-> t]]
            /\ nextLog' = nextLog + 1
            /\ pc' = [pc EXCEPT ![a] = "launch"]
            /\ req' = [req EXCEPT ![a].id = nextLog + 1]
            /\ UNCHANGED <<detail, status>>
       ELSE Return(a) /\ UNCHANGED <<now, tables>>
    /\ UNCHANGED <<locked, members, jobVars>>

\* The entry must still be in the cache: a nil is asserted to be one, and the
\* panic ends the request.
InsertLog(a) ==
    /\ pc[a] = "insertLog" /\ nextLog \in LogIds
    /\ IF req[a].ip \in locked
       THEN \E t \in Times :
            /\ t >= now /\ now' = t
            /\ logs' = logs \cup {nextLog}
            /\ log' = [log EXCEPT ![nextLog] =
                           [ip |-> req[a].ip, type |-> req[a].type,
                            completed |-> FALSE, success |-> FALSE, time |-> t]]
            /\ nextLog' = nextLog + 1
            /\ pc' = [pc EXCEPT ![a] = "launch"]
            /\ req' = [req EXCEPT ![a].id = nextLog]
            /\ UNCHANGED <<detail, status>>
       ELSE Return(a) /\ UNCHANGED <<now, tables>>
    /\ UNCHANGED <<locked, members, jobVars>>

\* Variant: a container that was not launched leaves its log alone.
LaunchAndForget(a) ==
    /\ pc[a] = "launch"
    /\ \/ job' = [job EXCEPT ![req[a].id] = "container"] /\ Return(a)
       \/ /\ "launch" \in Faults
          /\ Goto(a, "unlock")
          /\ UNCHANGED job
    /\ UNCHANGED <<locked, tables, members, exit, unrecorded, now>>

\* A container that could not be launched is reported by the request itself,
\* with exit code 1.
LaunchAnsibleContainer(a) ==
    /\ pc[a] = "launch"
    /\ \/ job' = [job EXCEPT ![req[a].id] = "container"] /\ Return(a)
       \/ /\ "launch" \in Faults
          /\ job' = [job EXCEPT ![req[a].id] = "getLog"]
          /\ Goto(a, "updateLog")
    /\ UNCHANGED <<locked, tables, members, exit, unrecorded, now>>

\* Whatever UpdateLog returns.
LogUpdated(a) ==
    /\ pc[a] = "updateLog" /\ job[req[a].id] \in {"over", "cut"}
    /\ Goto(a, "unlock")
    /\ UNCHANGED <<locked, tables, members, jobVars, now>>

\* The controller removes the entry after every error, a second time after most.
RemoveCacheData(a) ==
    /\ pc[a] = "unlock"
    /\ locked' = locked \ {req[a].ip}
    /\ Return(a)
    /\ UNCHANGED <<tables, members, jobVars, now>>

-----------------------------------------------------------------------------
(* The container and UpdateLog. *)

Step(id, from, to) == job[id] = from /\ job' = [job EXCEPT ![id] = to]

\* A playbook that fails may have got as far as joining the cluster.
ContainerEnds(id) ==
    /\ job[id] = "container"
    /\ \E ok \in BOOLEAN :
        /\ exit' = [exit EXCEPT ![id] = ok]
        /\ \/ /\ log[id].type = "add"
              /\ cluster' = cluster \cup {log[id].ip}
              /\ gone' = gone \ {log[id].ip}
           \/ /\ ~ok \/ log[id].type = "remove"
              /\ UNCHANGED members
    /\ \/ job' = [job EXCEPT ![id] = "getLog"]
       \/ "callback" \in Faults /\ job' = [job EXCEPT ![id] = "unheard"]
    /\ UNCHANGED <<locked, tables, unrecorded, now, procVars>>

\* A log that is not found ends UpdateLog, and the node stays locked.
GetNodeLog(id) ==
    /\ job[id] = "getLog"
    /\ job' = [job EXCEPT ![id] = IF id \in logs THEN "updateLog" ELSE "cut"]
    /\ UNCHANGED <<locked, tables, members, exit, unrecorded, now, procVars>>

UpdateNodeLog(id) ==
    /\ Step(id, "updateLog", "detail")
    /\ log' = IF id \in logs
              THEN [log EXCEPT ![id].completed = TRUE, ![id].success = exit[id]]
              ELSE log
    /\ UNCHANGED <<locked, logs, nextLog, detail, status, members, exit, unrecorded, now, procVars>>

\* The detail of a second that has one already is updated by its id, which
\* is not set: no row is.
InsertLogDetail(id) ==
    /\ Step(id, "detail", IF exit[id] THEN "status" ELSE "unlock")
    /\ detail' = [detail EXCEPT ![log[id].time] = IF @ = 0 THEN id ELSE @]
    /\ UNCHANGED <<locked, logs, log, nextLog, status, members, exit, unrecorded, now, procVars>>

\* The row of the log cannot be read or written, its file cannot be read, or its
\* detail cannot be written: the success is not told to node_status, the node
\* is not unlocked, and a removal is not told to the API server.
UpdateLogFails(id) ==
    /\ "updateLog" \in Faults
    /\ job[id] \in {"getLog", "updateLog", "detail"}
    /\ job' = [job EXCEPT ![id] = "cut"]
    /\ UNCHANGED <<locked, tables, members, exit, unrecorded, now, procVars>>

\* Variant: a removal deletes the row of its own second.
NodeStatusByTime(id) ==
    /\ Step(id, "status", "unlock")
    /\ status' = IF log[id].type = "add"
                 THEN status \cup {<<log[id].ip, log[id].time>>}
                 ELSE status \ {<<log[id].ip, log[id].time>>}
    /\ UNCHANGED <<locked, logs, log, nextLog, detail, members, exit, unrecorded, now, procVars>>

\* InsertNodeStatus and DeleteNodeStatus.  An error of theirs is logged, and
\* UpdateLog goes on.
NodeStatus(id) ==
    /\ Step(id, "status", "unlock")
    /\ \/ /\ status' = IF log[id].type = "add"
                       THEN status \cup {<<log[id].ip, log[id].time>>}
                       ELSE {s \in status : s[1] # log[id].ip}
          /\ UNCHANGED unrecorded
       \/ /\ "nodeStatus" \in Faults
          /\ unrecorded' = unrecorded \cup {id}
          /\ UNCHANGED status
    /\ UNCHANGED <<locked, logs, log, nextLog, detail, members, exit, now, procVars>>

\* Variant: the exit code of a removal is not looked at.
UnlockAndDelete(id) ==
    /\ Step(id, "unlock", IF log[id].type = "remove" THEN "deleteNode" ELSE "over")
    /\ locked' = locked \ {log[id].ip}
    /\ UNCHANGED <<tables, members, exit, unrecorded, now, procVars>>

\* Variant: an action that failed leaves the node locked.
UnlockAfterSuccess(id) ==
    /\ Step(id, "unlock", IF exit[id] /\ log[id].type = "remove" THEN "deleteNode" ELSE "over")
    /\ locked' = IF exit[id] THEN locked \ {log[id].ip} ELSE locked
    /\ UNCHANGED <<tables, members, exit, unrecorded, now, procVars>>

\* The API server is told after the node is unlocked, and of a removal that
\* has succeeded only.
Unlock(id) ==
    /\ Step(id, "unlock", IF exit[id] /\ log[id].type = "remove" THEN "deleteNode" ELSE "over")
    /\ locked' = locked \ {log[id].ip}
    /\ UNCHANGED <<tables, members, exit, unrecorded, now, procVars>>

\* The container of a later action of the node has ended already.
Overtaken(id) ==
    \E j \in LogIds : j > id /\ log[j].ip = log[id].ip /\ job[j] \notin {"none", "container"}

\* A call to the API server.
DeleteNode(id) ==
    /\ Step(id, "deleteNode", "over")
    /\ \/ /\ cluster' = cluster \ {log[id].ip}
          /\ gone' = IF id \in unrecorded \/ Overtaken(id) THEN gone \cup {log[id].ip} ELSE gone
       \/ "deleteNode" \in Faults /\ UNCHANGED members
    /\ UNCHANGED <<locked, tables, exit, unrecorded, now, procVars>>

\* The API server's own DELETE of a node, which it offers to every
\* administrator: the admin server does not hear of it.
RemoveNodeAction(ip) ==
    /\ "apiServer" \in Requests /\ ip \in cluster
    /\ cluster' = cluster \ {ip} /\ gone' = gone \cup {ip}
    /\ UNCHANGED <<locked, tables, jobVars, now, procVars>>

-----------------------------------------------------------------------------
(* Deleting logs, and the cache that expires. *)

\* "Log info in used.", or the request goes on.
DeleteNodeLog(a, id) ==
    /\ pc[a] = "idle" /\ id \in logs
    /\ "deleteRunningLog" \in Requests \/ ("deleteLog" \in Requests /\ log[id].completed)
    /\ \A s \in status : s[2] # log[id].time
    /\ pc' = [pc EXCEPT ![a] = "deleteLog"]
    /\ req' = [req EXCEPT ![a].time = log[id].time]
    /\ UNCHANGED <<locked, tables, members, jobVars, now>>

\* By the second: the logs of all nodes.
DeleteLogRows(a) ==
    /\ pc[a] = "deleteLog"
    /\ logs' = {id \in logs : log[id].time # req[a].time}
    /\ Goto(a, "deleteDetail")
    /\ UNCHANGED <<locked, log, nextLog, detail, status, members, jobVars, now>>

DeleteNodeLogDetail(a) ==
    /\ pc[a] = "deleteDetail"
    /\ detail' = [detail EXCEPT ![req[a].time] = 0]
    /\ Return(a)
    /\ UNCHANGED <<locked, logs, log, nextLog, status, members, jobVars, now>>

\* The entry of the cache lives for 3600 seconds, longer than any playbook.
Underway(id) == job[id] \in {"container", "getLog", "updateLog", "detail", "status", "unlock"}

Expire(ip) ==
    /\ ip \in locked
    /\ \A a \in Admins : ~Handled(a, ip)
    /\ \A id \in LogIds : Underway(id) => log[id].ip # ip
    /\ locked' = locked \ {ip}
    /\ UNCHANGED <<tables, members, jobVars, now, procVars>>

-----------------------------------------------------------------------------
NewRequest(a) ==
    \/ \E ip \in Ips, type \in ActionTypes : AddRemoveNode(a, ip, type)
    \/ \E id \in LogIds : DeleteNodeLog(a, id)

Continue(a) ==
    \/ Lock(a)
    \/ NewSecureShell(a)
    \/ InsertLog(a)
    \/ LaunchAnsibleContainer(a)
    \/ LogUpdated(a)
    \/ RemoveCacheData(a)
    \/ DeleteLogRows(a)
    \/ DeleteNodeLogDetail(a)

Report(id) ==
    \/ ContainerEnds(id)
    \/ GetNodeLog(id)
    \/ UpdateNodeLog(id)
    \/ InsertLogDetail(id)
    \/ UpdateLogFails(id)
    \/ NodeStatus(id)
    \/ Unlock(id)
    \/ DeleteNode(id)

Next ==
    \/ \E a \in Admins : NewRequest(a) \/ Continue(a)
    \/ \E id \in LogIds : Report(id)
    \/ \E ip \in Ips : RemoveNodeAction(ip) \/ Expire(ip)

Spec == Init /\ [][Next]_vars
-----------------------------------------------------------------------------
(* Properties. *)

\* What the lock is for: of one node, one action is underway at a time.
OneActionPerNode ==
    \A i, j \in LogIds : Underway(i) /\ Underway(j) /\ log[i].ip = log[j].ip => i = j

\* No later action of the node has a log.
IsLast(id) == \A j \in LogIds : j < nextLog /\ log[j].ip = log[id].ip => j <= id

\* A node that is locked is being worked at, by a request or by its last action,
\* the container or the callback; or the report of its last action got lost, or
\* ended in an UpdateLog that returned an error (its log was deleted while it
\* ran, or a row or a file failed).  No other failure on the way leaves the entry
\* in the cache, and no action before the last does.
LockHasOwner ==
    \A ip \in locked :
        \/ \E a \in Admins : Handled(a, ip)
        \/ \E id \in LogIds :
            log[id].ip = ip /\ IsLast(id) /\ (Underway(id) \/ job[id] \in {"unheard", "cut"})

\* The success of the action got to node_status: UpdateLog came to its end, and
\* the row was written.
Heard(id) ==
    id < nextLog /\ exit[id] /\ job[id] \in {"deleteNode", "over"} /\ id \notin unrecorded

\* node_status says of a node at rest what the last action has done whose success
\* got there: reports are told in the order of the actions, and a report that is
\* lost, cut short or not recorded leaves what was said before.
StatusFollowsReports ==
    \A ip \in Ips :
        (\A id \in LogIds : Underway(id) => log[id].ip # ip) =>
            ((\E s \in status : s[1] = ip)
             <=> \E id \in LogIds :
                     /\ Heard(id) /\ log[id].ip = ip /\ log[id].type = "add"
                     /\ \A j \in LogIds : Heard(j) /\ log[j].ip = ip => j <= id)

\* A node of node_status is a node of the cluster, or has left it in one of three
\* ways since it joined: by the API server's own DELETE, by a removal that could
\* not strike it out, or by one whose DELETE came after the container of a later
\* action had ended.  It is recorded after it has joined, and a removal that has
\* failed does not take it out.
StatusInCluster == \A s \in status : s[1] \in cluster \/ s[1] \in gone

\* A log that is not completed will be: its container is at work, or the
\* request or the callback is on its way to UpdateNodeLog; unless the callback
\* does not come, or UpdateLog returns an error before.
LogsGetCompleted ==
    \A id \in logs :
        \/ log[id].completed
        \/ job[id] \in {"container", "getLog", "updateLog", "unheard", "cut"}
        \/ \E a \in Admins : pc[a] = "launch" /\ req[a].id = id

-----------------------------------------------------------------------------
(* What makes the invariants inductive when requests for one node do not     *)
(* overlap.                                                                  *)

\* A request has the node to itself, until its container is launched.
Exclusive ==
    /\ \A a, b \in Admins, ip \in Ips : Handled(a, ip) /\ Handled(b, ip) => a = b
    /\ \A a \in Admins, id \in LogIds :
        Handled(a, log[id].ip) /\ Underway(id) => pc[a] = "updateLog" /\ req[a].id = id

LockHeld ==
    /\ \A a \in Admins : pc[a] \in {"connect", "insertLog", "launch"} => req[a].ip \in locked
    /\ \A id \in LogIds : Underway(id) => log[id].ip \in locked

LaunchIsFresh ==
    /\ \A id \in LogIds : id >= nextLog => job[id] = "none" /\ id \notin logs
    /\ \A id \in LogIds : job[id] \in {"none", "container"} => ~exit[id]
    /\ \A a \in Admins :
        /\ pc[a] \in {"launch", "updateLog"} =>
            req[a].id \in 1..(nextLog - 1) /\ log[req[a].id].ip = req[a].ip
        /\ pc[a] = "launch" => job[req[a].id] = "none"

\* An action is the last of its node as long as it is underway, and its request
\* when it launches the container.
ActionsInOrder ==
    /\ \A id \in LogIds : Underway(id) => IsLast(id)
    /\ \A a \in Admins : pc[a] = "launch" => IsLast(req[a].id)

Removing(id) == job[id] = "deleteNode" \/ (job[id] = "unlock" /\ exit[id] /\ log[id].type = "remove")

ClusterFollows ==
    /\ \A id \in LogIds : job[id] = "status" => exit[id]
    /\ \A id \in unrecorded : job[id] \in {"unlock", "deleteNode", "over"}
    /\ \A id \in LogIds :
        Removing(id) /\ id \notin unrecorded /\ ~Overtaken(id) =>
            \A s \in status : s[1] # log[id].ip
    /\ \A id \in LogIds :
        exit[id] /\ log[id].type = "add" /\ job[id] \in {"getLog", "updateLog", "detail", "status"} =>
            log[id].ip \in cluster \cup gone

NodeManagerInv ==
    /\ Exclusive
    /\ LockHeld
    /\ LaunchIsFresh
    /\ ActionsInOrder
    /\ ClusterFollows
=============================================================================
