-------------------------- MODULE NodeManager_proofs --------------------------
(* What the proof system checks about NodeManager, for any number of nodes,    *)
(* clients and logs.                                                           *)
EXTENDS NodeManager, TLAPS

LEMMA NullTyped == NodeManagerAssumption => NullIp \in Ips /\ NullRequest \in Request
BY DEF NodeManagerAssumption, NullIp, NullRequest, Request, ActionTypes, LogIds, Times

-----------------------------------------------------------------------------
(* Types. *)

LEMMA GotoType ==
    ASSUME TypeOK, NEW a \in Admins, NEW p \in PCs, Goto(a, p)
    PROVE  pc' \in [Admins -> PCs] /\ req' \in [Admins -> Request]
BY DEF TypeOK, Goto

LEMMA ReturnType ==
    ASSUME NodeManagerAssumption, TypeOK, NEW a \in Admins, Return(a)
    PROVE  pc' \in [Admins -> PCs] /\ req' \in [Admins -> Request]
BY NullTyped DEF TypeOK, Return, PCs

LEMMA TypeNext ==
    ASSUME NodeManagerAssumption, TypeOK, [Next]_vars
    PROVE  TypeOK'
<1>1. ASSUME NEW a \in Admins, NEW ip \in Ips, NEW type \in ActionTypes,
      AddRemoveNode(a, ip, type) PROVE TypeOK'
    <2>1. pc' \in [Admins -> PCs]
        BY <1>1 DEF TypeOK, AddRemoveNode, PCs
    <2>2. [req[a] EXCEPT !.ip = ip, !.type = type] \in Request
        BY DEF TypeOK, Request
    <2>3. req' \in [Admins -> Request]
        <3>1. req' = [req EXCEPT ![a] = [req[a] EXCEPT !.ip = ip, !.type = type]]
            BY <1>1 DEF TypeOK, AddRemoveNode
        <3>. QED  BY <2>2, <3>1 DEF TypeOK
    <2>. QED  BY <1>1, <2>1, <2>3 DEF TypeOK, AddRemoveNode, tables, members, jobVars
<1>2. ASSUME NEW a \in Admins, NEW id \in LogIds, DeleteNodeLog(a, id) PROVE TypeOK'
    <2>1. pc' \in [Admins -> PCs]
        BY <1>2 DEF TypeOK, DeleteNodeLog, PCs
    <2>2. req[a] \in Request /\ log[id].time \in Times
        BY DEF TypeOK, NodeLog
    <2>3. [req[a] EXCEPT !.time = log[id].time] \in Request
        BY <2>2 DEF Request
    <2>4. req' = [req EXCEPT ![a] = [req[a] EXCEPT !.time = log[id].time]]
        BY <1>2 DEF TypeOK, DeleteNodeLog
    <2>. QED  BY <1>2, <2>1, <2>3, <2>4 DEF TypeOK, DeleteNodeLog, tables, members, jobVars
<1>3. ASSUME NEW a \in Admins, Lock(a) PROVE TypeOK'
    BY <1>3, GotoType DEF TypeOK, Lock, PCs, Request, tables, members, jobVars
<1>4. ASSUME NEW a \in Admins, NewSecureShell(a) PROVE TypeOK'
    BY <1>4, GotoType DEF TypeOK, NewSecureShell, PCs, tables, members, jobVars
<1>5. ASSUME NEW a \in Admins, InsertLog(a) PROVE TypeOK'
    <2>1. CASE req[a].ip \in locked
        <3>1. PICK t \in Times :
                /\ now' = t
                /\ logs' = logs \cup {nextLog}
                /\ log' = [log EXCEPT ![nextLog] =
                               [ip |-> req[a].ip, type |-> req[a].type,
                                completed |-> FALSE, success |-> FALSE, time |-> t]]
                /\ nextLog' = nextLog + 1
                /\ pc' = [pc EXCEPT ![a] = "launch"]
                /\ req' = [req EXCEPT ![a].id = nextLog]
            BY <1>5, <2>1 DEF InsertLog
        <3>2. log' \in [LogIds -> NodeLog] /\ nextLog' \in 1..(MaxLogs + 1)
            BY <1>5, <3>1 DEF TypeOK, InsertLog, NodeLog, Request, LogIds,
               NodeManagerAssumption
        <3>3. pc' \in [Admins -> PCs] /\ req' \in [Admins -> Request] /\ logs' \subseteq LogIds
            BY <1>5, <3>1 DEF TypeOK, InsertLog, PCs, Request
        <3>. QED  BY <1>5, <2>1, <3>1, <3>2, <3>3 DEF TypeOK, InsertLog, jobVars, members, procVars
    <2>2. CASE req[a].ip \notin locked
        BY <1>5, <2>2, ReturnType DEF TypeOK, InsertLog, tables, members, jobVars
    <2>. QED  BY <2>1, <2>2
<1>6. ASSUME NEW a \in Admins, LaunchAnsibleContainer(a) PROVE TypeOK'
    <2>1. job' \in [LogIds -> Jobs]
        BY <1>6 DEF TypeOK, LaunchAnsibleContainer, Jobs
    <2>2. pc' \in [Admins -> PCs] /\ req' \in [Admins -> Request]
        BY <1>6, GotoType, ReturnType DEF LaunchAnsibleContainer, PCs
    <2>. QED  BY <1>6, <2>1, <2>2 DEF TypeOK, LaunchAnsibleContainer, tables, members
<1>7. ASSUME NEW a \in Admins, LogUpdated(a) PROVE TypeOK'
    BY <1>7, GotoType DEF TypeOK, LogUpdated, PCs, tables, members, jobVars
<1>8. ASSUME NEW a \in Admins, RemoveCacheData(a) PROVE TypeOK'
    BY <1>8, ReturnType DEF TypeOK, RemoveCacheData, tables, members, jobVars
<1>9. ASSUME NEW a \in Admins, DeleteLogRows(a) PROVE TypeOK'
    BY <1>9, GotoType DEF TypeOK, DeleteLogRows, PCs, jobVars, members, procVars
<1>10. ASSUME NEW a \in Admins, DeleteNodeLogDetail(a) PROVE TypeOK'
    BY <1>10, ReturnType DEF TypeOK, DeleteNodeLogDetail, jobVars, members, procVars
<1>11. ASSUME NEW id \in LogIds, ContainerEnds(id) PROVE TypeOK'
    <2>1. job' \in [LogIds -> Jobs] /\ exit' \in [LogIds -> BOOLEAN]
        BY <1>11 DEF TypeOK, ContainerEnds, Jobs
    <2>2. cluster' \subseteq Ips /\ gone' \subseteq Ips
        BY <1>11 DEF TypeOK, ContainerEnds, NodeLog, members
    <2>. QED  BY <1>11, <2>1, <2>2 DEF TypeOK, ContainerEnds, tables, members, procVars, jobVars
<1>12. ASSUME NEW id \in LogIds, GetNodeLog(id) PROVE TypeOK'
    BY <1>12 DEF TypeOK, GetNodeLog, Jobs, tables, members, procVars
<1>13. ASSUME NEW id \in LogIds, UpdateNodeLog(id) PROVE TypeOK'
    <2>1. log' \in [LogIds -> NodeLog]
        <3>a. log[id] \in NodeLog /\ exit[id] \in BOOLEAN
            BY DEF TypeOK
        <3>1. [log[id] EXCEPT !.completed = TRUE, !.success = exit[id]] \in NodeLog
            BY <3>a DEF NodeLog
        <3>2. \/ log' = [log EXCEPT ![id] = [log[id] EXCEPT !.completed = TRUE, !.success = exit[id]]]
              \/ log' = log
            BY <1>13 DEF TypeOK, UpdateNodeLog
        <3>. QED  BY <3>1, <3>2 DEF TypeOK
    <2>. QED  BY <1>13, <2>1 DEF TypeOK, UpdateNodeLog, Step, Jobs, procVars, members, jobVars
<1>14. ASSUME NEW id \in LogIds, InsertLogDetail(id) PROVE TypeOK'
    BY <1>14 DEF TypeOK, InsertLogDetail, Step, Jobs, procVars, members, jobVars
<1>15. ASSUME NEW id \in LogIds, NodeStatus(id) PROVE TypeOK'
    BY <1>15 DEF TypeOK, NodeStatus, Step, Jobs, NodeLog, procVars, members, jobVars
<1>16. ASSUME NEW id \in LogIds, Unlock(id) PROVE TypeOK'
    BY <1>16 DEF TypeOK, Unlock, Step, Jobs, tables, members, procVars, jobVars
<1>17. ASSUME NEW id \in LogIds, DeleteNode(id) PROVE TypeOK'
    <2>1. log[id].ip \in Ips
        BY DEF TypeOK, NodeLog
    <2>2. cluster' \subseteq Ips /\ gone' \subseteq Ips
        BY <1>17, <2>1 DEF TypeOK, DeleteNode, members
    <2>. QED  BY <1>17, <2>2 DEF TypeOK, DeleteNode, Step, Jobs, tables, procVars
<1>18. ASSUME NEW ip \in Ips, Expire(ip) PROVE TypeOK'
    BY <1>18 DEF TypeOK, Expire, tables, members, jobVars, procVars
<1>20. ASSUME NEW id \in LogIds, UpdateLogFails(id) PROVE TypeOK'
    BY <1>20 DEF TypeOK, UpdateLogFails, Jobs, jobVars, tables, members, procVars
<1>21. ASSUME NEW ip \in Ips, RemoveNodeAction(ip) PROVE TypeOK'
    BY <1>21 DEF TypeOK, tables, members, jobVars, procVars, RemoveNodeAction
<1>19. CASE UNCHANGED vars
    BY <1>19 DEF TypeOK, vars, tables, members, jobVars, procVars
<1>. QED  BY <1>1, <1>2, <1>3, <1>4, <1>5, <1>6, <1>7, <1>8, <1>9, <1>10, <1>11, <1>12,
      <1>13, <1>14, <1>15, <1>16, <1>17, <1>18, <1>19, <1>20, <1>21
    DEF Next, NewRequest, Continue, Report


-----------------------------------------------------------------------------
(* What the steps of a request and of a report do, client by client and log by log. *)

LEMMA GotoEffect ==
    ASSUME TypeOK, NEW a \in Admins, NEW p, Goto(a, p)
    PROVE  /\ pc'[a] = p /\ req' = req
           /\ \A b \in Admins : b # a => pc'[b] = pc[b]
BY DEF TypeOK, Goto

LEMMA ReturnEffect ==
    ASSUME TypeOK, NEW a \in Admins, Return(a)
    PROVE  /\ pc'[a] = "idle"
           /\ \A b \in Admins : b # a => pc'[b] = pc[b] /\ req'[b] = req[b]
BY DEF TypeOK, Return

LEMMA AddRemoveNodeEffect ==
    ASSUME TypeOK, NEW a \in Admins, NEW ip \in Ips, NEW type \in ActionTypes,
           AddRemoveNode(a, ip, type)
    PROVE  /\ pc[a] = "idle" /\ pc'[a] = "lock" /\ req'[a].ip = ip
           /\ \A b \in Admins : b # a => pc'[b] = pc[b] /\ req'[b] = req[b]
           /\ Overlap \/ \A b \in Admins : ~Handled(b, ip)
           /\ ip \notin locked
           /\ UNCHANGED <<locked, tables, members, jobVars, now>>
BY DEF AddRemoveNode, Undisturbed, TypeOK, Request

LEMMA LockEffect ==
    ASSUME TypeOK, NEW a \in Admins, Lock(a)
    PROVE  /\ pc[a] = "lock" /\ req' = req
           /\ \A b \in Admins : b # a => pc'[b] = pc[b]
           /\ \/ pc'[a] = "connect" /\ locked' = locked \cup {req[a].ip}
              \/ pc'[a] = "unlock" /\ locked' = locked
           /\ UNCHANGED <<tables, members, jobVars, now>>
BY GotoEffect DEF Lock

LEMMA NewSecureShellEffect ==
    ASSUME TypeOK, NEW a \in Admins, NewSecureShell(a)
    PROVE  /\ pc[a] = "connect" /\ req' = req
           /\ \A b \in Admins : b # a => pc'[b] = pc[b]
           /\ \/ pc'[a] = "insertLog" /\ locked' = locked
              \/ pc'[a] = "unlock" /\ locked' = locked \ {req[a].ip}
           /\ UNCHANGED <<tables, members, jobVars, now>>
BY GotoEffect DEF NewSecureShell

\* The new log is no other's, and is not completed.
InsertedLog(a) ==
    /\ pc'[a] = "launch" /\ req'[a].id = nextLog /\ req'[a].ip = req[a].ip
    /\ logs' = logs \cup {nextLog} /\ nextLog' = nextLog + 1
    /\ log'[nextLog].ip = req[a].ip /\ ~log'[nextLog].completed

LEMMA InsertLogEffect ==
    ASSUME TypeOK, NEW a \in Admins, InsertLog(a)
    PROVE  /\ pc[a] = "insertLog" /\ nextLog \in LogIds
           /\ \A b \in Admins : b # a => pc'[b] = pc[b] /\ req'[b] = req[b]
           /\ \A i \in LogIds : i # nextLog => log'[i] = log[i]
           /\ \/ InsertedLog(a)
              \/ pc'[a] = "idle" /\ req[a].ip \notin locked /\ UNCHANGED tables
           /\ UNCHANGED <<locked, detail, status, members, job, exit, unrecorded>>
<1>0. /\ pc[a] = "insertLog" /\ nextLog \in LogIds
      /\ UNCHANGED <<locked, members, job, exit, unrecorded>>
    BY DEF InsertLog, jobVars
<1>1. CASE req[a].ip \in locked
    <2>1. PICK t \in Times :
            /\ logs' = logs \cup {nextLog}
            /\ log' = [log EXCEPT ![nextLog] =
                           [ip |-> req[a].ip, type |-> req[a].type,
                            completed |-> FALSE, success |-> FALSE, time |-> t]]
            /\ nextLog' = nextLog + 1
            /\ pc' = [pc EXCEPT ![a] = "launch"]
            /\ req' = [req EXCEPT ![a].id = nextLog]
            /\ UNCHANGED <<detail, status>>
        BY <1>1 DEF InsertLog
    <2>2. /\ pc'[a] = "launch" /\ req'[a].id = nextLog /\ req'[a].ip = req[a].ip
          /\ \A b \in Admins : b # a => pc'[b] = pc[b] /\ req'[b] = req[b]
        BY <2>1 DEF TypeOK, Request
    <2>3. /\ log'[nextLog].ip = req[a].ip /\ ~log'[nextLog].completed /\ log'[nextLog].time = t
          /\ \A i \in LogIds : i # nextLog => log'[i] = log[i]
        BY <1>0, <2>1 DEF TypeOK
    <2>. QED  BY <1>0, <2>1, <2>2, <2>3 DEF InsertedLog
<1>2. CASE req[a].ip \notin locked
    BY <1>0, <1>2, ReturnEffect DEF InsertLog, tables
<1>. QED  BY <1>1, <1>2

\* A log that is being inserted is not one of an action underway.
LEMMA InsertLogUnderway ==
    ASSUME TypeOK, LaunchIsFresh, NEW a \in Admins, InsertLog(a)
    PROVE  \A id \in LogIds : Underway(id)' => Underway(id) /\ id # nextLog
<1>1. job' = job /\ nextLog \in LogIds
    BY InsertLogEffect
<1>2. nextLog >= nextLog
    BY <1>1 DEF LogIds
<1>3. job[nextLog] = "none"
    BY <1>1, <1>2 DEF LaunchIsFresh
<1>. QED  BY <1>1, <1>3 DEF Underway

LEMMA LaunchEffect ==
    ASSUME TypeOK, LaunchIsFresh, NEW a \in Admins, LaunchAnsibleContainer(a)
    PROVE  /\ pc[a] = "launch" /\ req[a].id \in LogIds /\ req[a].id < nextLog
           /\ log[req[a].id].ip = req[a].ip /\ job[req[a].id] = "none"
           /\ \A b \in Admins : b # a => pc'[b] = pc[b] /\ req'[b] = req[b]
           /\ \A i \in LogIds : i # req[a].id => job'[i] = job[i]
           /\ \/ job'[req[a].id] = "container" /\ pc'[a] = "idle"
              \/ job'[req[a].id] = "getLog" /\ pc'[a] = "updateLog" /\ req' = req
           /\ UNCHANGED <<locked, tables, members, exit, unrecorded, now>>
<1>1. /\ pc[a] = "launch" /\ req[a].id \in LogIds /\ req[a].id < nextLog
      /\ log[req[a].id].ip = req[a].ip /\ job[req[a].id] = "none"
    BY DEF LaunchAnsibleContainer, LaunchIsFresh, TypeOK, Request, LogIds
<1>2. \A i \in LogIds : i # req[a].id => job'[i] = job[i]
    BY <1>1 DEF LaunchAnsibleContainer, TypeOK
<1>3. \/ job' = [job EXCEPT ![req[a].id] = "container"] /\ Return(a)
      \/ job' = [job EXCEPT ![req[a].id] = "getLog"] /\ Goto(a, "updateLog")
    BY DEF LaunchAnsibleContainer
<1>4. /\ \A b \in Admins : b # a => pc'[b] = pc[b] /\ req'[b] = req[b]
      /\ \/ job'[req[a].id] = "container" /\ pc'[a] = "idle"
         \/ job'[req[a].id] = "getLog" /\ pc'[a] = "updateLog" /\ req' = req
    BY <1>1, <1>3, GotoEffect, ReturnEffect DEF TypeOK
<1>. QED  BY <1>1, <1>2, <1>4 DEF LaunchAnsibleContainer

LEMMA LogUpdatedEffect ==
    ASSUME TypeOK, NEW a \in Admins, LogUpdated(a)
    PROVE  /\ pc[a] = "updateLog" /\ job[req[a].id] \in {"over", "cut"}
           /\ pc'[a] = "unlock" /\ req' = req
           /\ \A b \in Admins : b # a => pc'[b] = pc[b]
           /\ UNCHANGED <<locked, tables, members, jobVars, now>>
BY GotoEffect DEF LogUpdated

LEMMA RemoveCacheDataEffect ==
    ASSUME TypeOK, NEW a \in Admins, RemoveCacheData(a)
    PROVE  /\ pc[a] = "unlock" /\ pc'[a] = "idle" /\ locked' = locked \ {req[a].ip}
           /\ \A b \in Admins : b # a => pc'[b] = pc[b] /\ req'[b] = req[b]
           /\ UNCHANGED <<tables, members, jobVars, now>>
BY ReturnEffect DEF RemoveCacheData

LEMMA DeleteLogRowsEffect ==
    ASSUME TypeOK, NEW a \in Admins, DeleteLogRows(a)
    PROVE  /\ pc[a] = "deleteLog" /\ pc'[a] = "deleteDetail" /\ req' = req
           /\ \A b \in Admins : b # a => pc'[b] = pc[b]
           /\ logs' = {id \in logs : log[id].time # req[a].time}
           /\ UNCHANGED <<locked, log, nextLog, status, members, jobVars, now>>
BY GotoEffect DEF DeleteLogRows

LEMMA DeleteNodeLogDetailEffect ==
    ASSUME TypeOK, NEW a \in Admins, DeleteNodeLogDetail(a)
    PROVE  /\ pc[a] = "deleteDetail" /\ pc'[a] = "idle"
           /\ \A b \in Admins : b # a => pc'[b] = pc[b] /\ req'[b] = req[b]
           /\ UNCHANGED <<locked, logs, log, nextLog, status, members, jobVars, now>>
BY ReturnEffect DEF DeleteNodeLogDetail

LEMMA ContainerEndsEffect ==
    ASSUME TypeOK, NEW id \in LogIds, ContainerEnds(id)
    PROVE  /\ job[id] = "container" /\ job'[id] \in {"getLog", "unheard"}
           /\ \A i \in LogIds : i # id => job'[i] = job[i] /\ exit'[i] = exit[i]
           /\ UNCHANGED <<locked, tables, unrecorded, now, procVars>>
BY DEF ContainerEnds, TypeOK

\* A step of a log's action moves no other.
LEMMA StepEffect ==
    ASSUME TypeOK, NEW id \in LogIds, NEW from, NEW to, Step(id, from, to)
    PROVE  job[id] = from /\ job'[id] = to /\ \A i \in LogIds : i # id => job'[i] = job[i]
BY DEF TypeOK, Step

LEMMA UpdateNodeLogEffect ==
    ASSUME TypeOK, NEW id \in LogIds, UpdateNodeLog(id)
    PROVE  /\ job[id] = "updateLog" /\ job'[id] = "detail"
           /\ \A i \in LogIds : i # id => job'[i] = job[i]
           /\ \A i \in LogIds : log'[i].ip = log[i].ip /\ log'[i].type = log[i].type
           /\ UNCHANGED <<locked, logs, nextLog, detail, status, members, exit, unrecorded, now, procVars>>
BY StepEffect DEF TypeOK, NodeLog, UpdateNodeLog

LEMMA GetNodeLogEffect ==
    ASSUME TypeOK, NEW id \in LogIds, GetNodeLog(id)
    PROVE  /\ job[id] = "getLog" /\ job'[id] \in {"updateLog", "cut"}
           /\ \A i \in LogIds : i # id => job'[i] = job[i]
           /\ job'[id] = "cut" => id \notin logs
           /\ UNCHANGED <<locked, tables, members, exit, unrecorded, now, procVars>>
BY DEF TypeOK, GetNodeLog

LEMMA UpdateLogFailsEffect ==
    ASSUME TypeOK, NEW id \in LogIds, UpdateLogFails(id)
    PROVE  /\ job[id] \in {"getLog", "updateLog", "detail"} /\ job'[id] = "cut"
           /\ \A i \in LogIds : i # id => job'[i] = job[i]
           /\ UNCHANGED <<locked, tables, members, exit, unrecorded, now, procVars>>
BY DEF TypeOK, UpdateLogFails

LEMMA ExclusiveNext ==
    ASSUME NodeManagerAssumption, ~Overlap, TypeOK, TypeOK', Exclusive, LockHeld,
           LaunchIsFresh, [Next]_vars
    PROVE  Exclusive'
<1>1. ASSUME NEW a \in Admins, NEW ip \in Ips, NEW type \in ActionTypes,
      AddRemoveNode(a, ip, type) PROVE Exclusive'
    BY <1>1, AddRemoveNodeEffect DEF Exclusive, LockHeld, Handled, Underway, tables,
       jobVars
<1>2. ASSUME NEW a \in Admins, NEW id \in LogIds, DeleteNodeLog(a, id) PROVE Exclusive'
    BY <1>2 DEF Exclusive, Handled, Underway, DeleteNodeLog, jobVars, tables
<1>3. ASSUME NEW a \in Admins, Lock(a) PROVE Exclusive'
    BY <1>3, LockEffect DEF Exclusive, Handled, Underway, jobVars, tables
<1>4. ASSUME NEW a \in Admins, NewSecureShell(a) PROVE Exclusive'
    BY <1>4, NewSecureShellEffect DEF Exclusive, Handled, Underway, jobVars, tables
<1>5. ASSUME NEW a \in Admins, InsertLog(a) PROVE Exclusive'
    <2>1. \A b \in Admins, ip \in Ips : Handled(b, ip)' => Handled(b, ip)
        BY <1>5, InsertLogEffect DEF InsertedLog, Handled
    <2>2. \A id \in LogIds : Underway(id)' => Underway(id) /\ id # nextLog
        BY <1>5, InsertLogUnderway
    <2>3. \A id \in LogIds : Underway(id)' => log'[id] = log[id] /\ log[id].ip \in Ips
        BY <1>5, <2>2, InsertLogEffect DEF TypeOK, NodeLog
    <2>4. \A b \in Admins : pc[b] = "updateLog" => pc'[b] = pc[b] /\ req'[b] = req[b]
        BY <1>5, InsertLogEffect
    <2>. QED  BY <2>1, <2>2, <2>3, <2>4 DEF Exclusive
<1>6. ASSUME NEW a \in Admins, LaunchAnsibleContainer(a) PROVE Exclusive'
    <2>1. \A b \in Admins, ip \in Ips : Handled(b, ip)' => Handled(b, ip)
        BY <1>6, LaunchEffect DEF Handled
    <2>2. ASSUME NEW b \in Admins, NEW id \in LogIds, Handled(b, log[id].ip)', Underway(id)'
          PROVE  pc'[b] = "updateLog" /\ req'[b].id = id
        <3>1. log[id].ip \in Ips /\ log[id].ip = req[b].ip /\ Handled(b, log[id].ip)
            BY <1>6, <2>1, <2>2, LaunchEffect DEF TypeOK, NodeLog, Handled, tables
        <3>2. CASE id = req[a].id
            BY <1>6, <2>2, <3>1, <3>2, LaunchEffect DEF Exclusive, Handled
        <3>3. CASE id # req[a].id
            BY <1>6, <2>2, <3>1, <3>3, LaunchEffect DEF Exclusive, Underway
        <3>. QED  BY <3>2, <3>3
    <2>. QED  BY <1>6, <2>1, <2>2, LaunchEffect DEF Exclusive, tables
<1>7. ASSUME NEW a \in Admins, LogUpdated(a) PROVE Exclusive'
    BY <1>7, LogUpdatedEffect DEF Exclusive, Handled, Underway, jobVars, tables
<1>8. ASSUME NEW a \in Admins, RemoveCacheData(a) PROVE Exclusive'
    BY <1>8, RemoveCacheDataEffect DEF Exclusive, Handled, Underway, jobVars, tables
<1>9. ASSUME NEW a \in Admins, DeleteLogRows(a) PROVE Exclusive'
    BY <1>9, DeleteLogRowsEffect DEF Exclusive, Handled, Underway, jobVars
<1>10. ASSUME NEW a \in Admins, DeleteNodeLogDetail(a) PROVE Exclusive'
    BY <1>10, DeleteNodeLogDetailEffect DEF Exclusive, Handled, Underway, jobVars, tables
<1>11. ASSUME NEW id \in LogIds, ContainerEnds(id) PROVE Exclusive'
    BY <1>11, ContainerEndsEffect DEF Exclusive, Handled, Underway, tables, procVars
<1>12. ASSUME NEW id \in LogIds, GetNodeLog(id) PROVE Exclusive'
    BY <1>12, GetNodeLogEffect DEF Exclusive, Handled, Underway, tables, procVars
<1>13. ASSUME NEW id \in LogIds, UpdateNodeLog(id) PROVE Exclusive'
    BY <1>13, UpdateNodeLogEffect DEF Exclusive, Handled, Underway, procVars
<1>14. ASSUME NEW id \in LogIds, InsertLogDetail(id) PROVE Exclusive'
    BY <1>14, StepEffect DEF Exclusive, Handled, Underway, InsertLogDetail, tables,
       procVars
<1>15. ASSUME NEW id \in LogIds, NodeStatus(id) PROVE Exclusive'
    BY <1>15, StepEffect DEF Exclusive, Handled, Underway, NodeStatus, tables, procVars
<1>16. ASSUME NEW id \in LogIds, Unlock(id) PROVE Exclusive'
    BY <1>16, StepEffect DEF Exclusive, Handled, Underway, Unlock, tables, procVars
<1>17. ASSUME NEW id \in LogIds, DeleteNode(id) PROVE Exclusive'
    BY <1>17, StepEffect DEF Exclusive, Handled, Underway, DeleteNode, tables, procVars
<1>18. ASSUME NEW ip \in Ips, Expire(ip) PROVE Exclusive'
    BY <1>18 DEF Exclusive, Handled, Underway, Expire, jobVars, tables, procVars
<1>20. ASSUME NEW id \in LogIds, UpdateLogFails(id) PROVE Exclusive'
    BY <1>20, UpdateLogFailsEffect DEF Exclusive, Handled, Underway, tables, procVars
<1>21. ASSUME NEW ip \in Ips, RemoveNodeAction(ip) PROVE Exclusive'
    BY <1>21 DEF Exclusive, Handled, Underway, jobVars, tables, procVars,
       RemoveNodeAction
<1>19. CASE UNCHANGED vars
    BY <1>19 DEF Exclusive, Handled, Underway, vars, tables, jobVars, procVars
<1>. QED  BY <1>1, <1>2, <1>3, <1>4, <1>5, <1>6, <1>7, <1>8, <1>9, <1>10, <1>11, <1>12,
      <1>13, <1>14, <1>15, <1>16, <1>17, <1>18, <1>19, <1>20, <1>21
    DEF Next, NewRequest, Continue, Report

LEMMA OneActionPerNodeNext ==
    ASSUME NodeManagerAssumption, ~Overlap, TypeOK, TypeOK', OneActionPerNode,
           Exclusive, LaunchIsFresh, [Next]_vars
    PROVE  OneActionPerNode'
<1>1. ASSUME NEW a \in Admins, NEW ip \in Ips, NEW type \in ActionTypes,
      AddRemoveNode(a, ip, type) PROVE OneActionPerNode'
    BY <1>1, AddRemoveNodeEffect DEF OneActionPerNode, Exclusive, LaunchIsFresh,
       Handled, Underway, jobVars, tables
<1>2. ASSUME NEW a \in Admins, NEW id \in LogIds, DeleteNodeLog(a, id)
     PROVE OneActionPerNode'
    BY <1>2 DEF OneActionPerNode, Exclusive, LaunchIsFresh, Handled, Underway,
       DeleteNodeLog, jobVars, tables
<1>3. ASSUME NEW a \in Admins, Lock(a) PROVE OneActionPerNode'
    BY <1>3, LockEffect DEF OneActionPerNode, Exclusive, LaunchIsFresh, Handled,
       Underway, jobVars, tables
<1>4. ASSUME NEW a \in Admins, NewSecureShell(a) PROVE OneActionPerNode'
    BY <1>4, NewSecureShellEffect DEF OneActionPerNode, Exclusive, LaunchIsFresh,
       Handled, Underway, jobVars, tables
<1>5. ASSUME NEW a \in Admins, InsertLog(a) PROVE OneActionPerNode'
    <2>1. \A id \in LogIds : Underway(id)' => Underway(id) /\ id # nextLog
        BY <1>5, InsertLogUnderway
    <2>. QED  BY <1>5, <2>1, InsertLogEffect DEF OneActionPerNode
<1>6. ASSUME NEW a \in Admins, LaunchAnsibleContainer(a) PROVE OneActionPerNode'
    BY <1>6, LaunchEffect DEF OneActionPerNode, Exclusive, LaunchIsFresh, Handled,
       Underway, jobVars, tables
<1>7. ASSUME NEW a \in Admins, LogUpdated(a) PROVE OneActionPerNode'
    BY <1>7, LogUpdatedEffect DEF OneActionPerNode, Exclusive, LaunchIsFresh, Handled,
       Underway, jobVars, tables
<1>8. ASSUME NEW a \in Admins, RemoveCacheData(a) PROVE OneActionPerNode'
    BY <1>8, RemoveCacheDataEffect DEF OneActionPerNode, Exclusive, LaunchIsFresh,
       Handled, Underway, jobVars, tables
<1>9. ASSUME NEW a \in Admins, DeleteLogRows(a) PROVE OneActionPerNode'
    BY <1>9, DeleteLogRowsEffect DEF OneActionPerNode, Exclusive, LaunchIsFresh,
       Handled, Underway, jobVars
<1>10. ASSUME NEW a \in Admins, DeleteNodeLogDetail(a) PROVE OneActionPerNode'
    BY <1>10, DeleteNodeLogDetailEffect DEF OneActionPerNode, Exclusive, LaunchIsFresh,
       Handled, Underway, jobVars, tables
<1>11. ASSUME NEW id \in LogIds, ContainerEnds(id) PROVE OneActionPerNode'
    BY <1>11, ContainerEndsEffect DEF OneActionPerNode, Exclusive, LaunchIsFresh,
       Handled, Underway, tables, procVars
<1>12. ASSUME NEW id \in LogIds, GetNodeLog(id) PROVE OneActionPerNode'
    BY <1>12, GetNodeLogEffect DEF OneActionPerNode, Exclusive, LaunchIsFresh, Handled, Underway,
       tables, procVars
<1>13. ASSUME NEW id \in LogIds, UpdateNodeLog(id) PROVE OneActionPerNode'
    BY <1>13, UpdateNodeLogEffect DEF OneActionPerNode, Exclusive, LaunchIsFresh,
       Handled, Underway, procVars
<1>14. ASSUME NEW id \in LogIds, InsertLogDetail(id) PROVE OneActionPerNode'
    BY <1>14, StepEffect DEF OneActionPerNode, Exclusive, LaunchIsFresh, Handled,
       Underway, InsertLogDetail, tables, procVars
<1>15. ASSUME NEW id \in LogIds, NodeStatus(id) PROVE OneActionPerNode'
    BY <1>15, StepEffect DEF OneActionPerNode, Exclusive, LaunchIsFresh, Handled,
       Underway, NodeStatus, tables, procVars
<1>16. ASSUME NEW id \in LogIds, Unlock(id) PROVE OneActionPerNode'
    BY <1>16, StepEffect DEF OneActionPerNode, Exclusive, LaunchIsFresh, Handled,
       Underway, Unlock, tables, procVars
<1>17. ASSUME NEW id \in LogIds, DeleteNode(id) PROVE OneActionPerNode'
    BY <1>17, StepEffect DEF OneActionPerNode, Exclusive, LaunchIsFresh, Handled,
       Underway, DeleteNode, tables, procVars
<1>18. ASSUME NEW ip \in Ips, Expire(ip) PROVE OneActionPerNode'
    BY <1>18 DEF OneActionPerNode, Exclusive, LaunchIsFresh, Handled, Underway, Expire,
       jobVars, tables, procVars
<1>20. ASSUME NEW id \in LogIds, UpdateLogFails(id) PROVE OneActionPerNode'
    BY <1>20, UpdateLogFailsEffect DEF OneActionPerNode, Exclusive, LaunchIsFresh,
       Handled, Underway, tables, procVars
<1>21. ASSUME NEW ip \in Ips, RemoveNodeAction(ip) PROVE OneActionPerNode'
    BY <1>21 DEF OneActionPerNode, Exclusive, LaunchIsFresh, Handled, Underway, jobVars,
       tables, procVars, RemoveNodeAction
<1>19. CASE UNCHANGED vars
    BY <1>19 DEF OneActionPerNode, Exclusive, LaunchIsFresh, Handled, Underway, vars,
       tables, jobVars, procVars
<1>. QED  BY <1>1, <1>2, <1>3, <1>4, <1>5, <1>6, <1>7, <1>8, <1>9, <1>10, <1>11, <1>12,
      <1>13, <1>14, <1>15, <1>16, <1>17, <1>18, <1>19, <1>20, <1>21
    DEF Next, NewRequest, Continue, Report

LEMMA LockHeldNext ==
    ASSUME NodeManagerAssumption, ~Overlap, TypeOK, TypeOK', OneActionPerNode,
           Exclusive, LockHeld, LaunchIsFresh, [Next]_vars
    PROVE  LockHeld'
<1>1. ASSUME NEW a \in Admins, NEW ip \in Ips, NEW type \in ActionTypes,
      AddRemoveNode(a, ip, type) PROVE LockHeld'
    BY <1>1, AddRemoveNodeEffect DEF OneActionPerNode, Exclusive, LockHeld,
       LaunchIsFresh, Handled, Underway, jobVars, tables
<1>2. ASSUME NEW a \in Admins, NEW id \in LogIds, DeleteNodeLog(a, id) PROVE LockHeld'
    BY <1>2 DEF OneActionPerNode, Exclusive, LockHeld, LaunchIsFresh, Handled, Underway,
       DeleteNodeLog, jobVars, tables
<1>3. ASSUME NEW a \in Admins, Lock(a) PROVE LockHeld'
    BY <1>3, LockEffect DEF LockHeld, Underway, tables, jobVars
<1>4. ASSUME NEW a \in Admins, NewSecureShell(a) PROVE LockHeld'
    <2>1. \A b \in Admins : pc'[b] \in {"connect", "insertLog", "launch"} =>
            req[b].ip \in locked /\ (b = a \/ req[b].ip # req[a].ip)
        BY <1>4, NewSecureShellEffect DEF LockHeld, Exclusive, Handled, TypeOK, Request
    <2>2. \A id \in LogIds : Underway(id)' => log[id].ip \in locked /\ log[id].ip # req[a].ip
        BY <1>4, NewSecureShellEffect DEF LockHeld, Exclusive, Handled, Underway, jobVars
    <2>. QED  BY <1>4, <2>1, <2>2, NewSecureShellEffect DEF LockHeld, tables
<1>5. ASSUME NEW a \in Admins, InsertLog(a) PROVE LockHeld'
    <2>1. \A id \in LogIds : Underway(id)' => Underway(id) /\ id # nextLog
        BY <1>5, InsertLogUnderway
    <2>2. \A id \in LogIds : Underway(id)' => log'[id].ip \in locked
        BY <1>5, <2>1, InsertLogEffect DEF LockHeld
    <2>3. \A b \in Admins : pc'[b] \in {"connect", "insertLog", "launch"} => req'[b].ip \in locked
        BY <1>5, InsertLogEffect DEF InsertedLog, LockHeld
    <2>. QED  BY <1>5, <2>2, <2>3, InsertLogEffect DEF LockHeld
<1>6. ASSUME NEW a \in Admins, LaunchAnsibleContainer(a) PROVE LockHeld'
    <2>1. \A id \in LogIds : Underway(id)' => id = req[a].id \/ Underway(id)
        BY <1>6, LaunchEffect DEF Underway
    <2>2. \A id \in LogIds : Underway(id)' => log[id].ip \in locked
        BY <1>6, <2>1, LaunchEffect DEF LockHeld
    <2>. QED  BY <1>6, <2>2, LaunchEffect DEF LockHeld, tables
<1>7. ASSUME NEW a \in Admins, LogUpdated(a) PROVE LockHeld'
    BY <1>7, LogUpdatedEffect DEF OneActionPerNode, Exclusive, LockHeld, LaunchIsFresh,
       Handled, Underway, jobVars, tables
<1>8. ASSUME NEW a \in Admins, RemoveCacheData(a) PROVE LockHeld'
    <2>1. \A b \in Admins : pc'[b] \in {"connect", "insertLog", "launch"} =>
            req'[b].ip \in locked /\ req'[b].ip # req[a].ip
        BY <1>8, RemoveCacheDataEffect DEF LockHeld, Exclusive, Handled, TypeOK, Request
    <2>2. \A id \in LogIds : Underway(id)' => log[id].ip \in locked /\ log[id].ip # req[a].ip
        BY <1>8, RemoveCacheDataEffect DEF LockHeld, Exclusive, Handled, Underway, jobVars
    <2>. QED  BY <1>8, <2>1, <2>2, RemoveCacheDataEffect DEF LockHeld, tables
<1>9. ASSUME NEW a \in Admins, DeleteLogRows(a) PROVE LockHeld'
    BY <1>9, DeleteLogRowsEffect DEF OneActionPerNode, Exclusive, LockHeld,
       LaunchIsFresh, Handled, Underway, jobVars
<1>10. ASSUME NEW a \in Admins, DeleteNodeLogDetail(a) PROVE LockHeld'
    BY <1>10, DeleteNodeLogDetailEffect DEF OneActionPerNode, Exclusive, LockHeld,
       LaunchIsFresh, Handled, Underway, jobVars, tables
<1>11. ASSUME NEW id \in LogIds, ContainerEnds(id) PROVE LockHeld'
    BY <1>11, ContainerEndsEffect DEF OneActionPerNode, Exclusive, LockHeld,
       LaunchIsFresh, Handled, Underway, tables, procVars
<1>12. ASSUME NEW id \in LogIds, GetNodeLog(id) PROVE LockHeld'
    BY <1>12, GetNodeLogEffect DEF OneActionPerNode, Exclusive, LockHeld, LaunchIsFresh, Handled,
       Underway, tables, procVars
<1>13. ASSUME NEW id \in LogIds, UpdateNodeLog(id) PROVE LockHeld'
    BY <1>13, UpdateNodeLogEffect DEF OneActionPerNode, Exclusive, LockHeld,
       LaunchIsFresh, Handled, Underway, procVars
<1>14. ASSUME NEW id \in LogIds, InsertLogDetail(id) PROVE LockHeld'
    BY <1>14, StepEffect DEF OneActionPerNode, Exclusive, LockHeld, LaunchIsFresh,
       Handled, Underway, InsertLogDetail, tables, procVars
<1>15. ASSUME NEW id \in LogIds, NodeStatus(id) PROVE LockHeld'
    BY <1>15, StepEffect DEF OneActionPerNode, Exclusive, LockHeld, LaunchIsFresh,
       Handled, Underway, NodeStatus, tables, procVars
<1>16. ASSUME NEW id \in LogIds, Unlock(id) PROVE LockHeld'
    <2>1. Underway(id) /\ log[id].ip \in Ips
        BY <1>16, StepEffect DEF Unlock, Underway, TypeOK, NodeLog
    <2>2. \A b \in Admins : pc[b] \in {"connect", "insertLog", "launch"} =>
            req[b].ip \in locked /\ req[b].ip # log[id].ip
        BY <2>1 DEF LockHeld, Exclusive, Handled
    <2>3. \A i \in LogIds : Underway(i)' => Underway(i) /\ i # id
        BY <1>16, StepEffect DEF Unlock, Underway
    <2>4. \A i \in LogIds : Underway(i)' => log[i].ip \in locked /\ log[i].ip # log[id].ip
        BY <2>1, <2>3 DEF LockHeld, OneActionPerNode
    <2>. QED  BY <1>16, <2>2, <2>4 DEF Unlock, LockHeld, tables, procVars
<1>17. ASSUME NEW id \in LogIds, DeleteNode(id) PROVE LockHeld'
    BY <1>17, StepEffect DEF OneActionPerNode, Exclusive, LockHeld, LaunchIsFresh,
       Handled, Underway, DeleteNode, tables, procVars
<1>18. ASSUME NEW ip \in Ips, Expire(ip) PROVE LockHeld'
    BY <1>18 DEF OneActionPerNode, Exclusive, LockHeld, LaunchIsFresh, Handled,
       Underway, Expire, jobVars, tables, procVars
<1>20. ASSUME NEW id \in LogIds, UpdateLogFails(id) PROVE LockHeld'
    BY <1>20, UpdateLogFailsEffect DEF OneActionPerNode, Exclusive, LockHeld,
       LaunchIsFresh, Handled, Underway, tables, procVars
<1>21. ASSUME NEW ip \in Ips, RemoveNodeAction(ip) PROVE LockHeld'
    BY <1>21 DEF OneActionPerNode, Exclusive, LockHeld, LaunchIsFresh, Handled,
       Underway, jobVars, tables, procVars, RemoveNodeAction
<1>19. CASE UNCHANGED vars
    BY <1>19 DEF OneActionPerNode, Exclusive, LockHeld, LaunchIsFresh, Handled,
       Underway, vars, tables, jobVars, procVars
<1>. QED  BY <1>1, <1>2, <1>3, <1>4, <1>5, <1>6, <1>7, <1>8, <1>9, <1>10, <1>11, <1>12,
      <1>13, <1>14, <1>15, <1>16, <1>17, <1>18, <1>19, <1>20, <1>21
    DEF Next, NewRequest, Continue, Report

LEMMA LaunchIsFreshNext ==
    ASSUME NodeManagerAssumption, ~Overlap, TypeOK, TypeOK', Exclusive, LaunchIsFresh,
           [Next]_vars
    PROVE  LaunchIsFresh'
<1>1. ASSUME NEW a \in Admins, NEW ip \in Ips, NEW type \in ActionTypes,
      AddRemoveNode(a, ip, type) PROVE LaunchIsFresh'
    <2>1. \A b \in Admins : pc'[b] \in {"launch", "updateLog"} =>
            pc'[b] = pc[b] /\ req'[b] = req[b]
        BY <1>1, AddRemoveNodeEffect
    <2>. QED  BY <1>1, <2>1, AddRemoveNodeEffect DEF LaunchIsFresh, jobVars, tables
<1>2. ASSUME NEW a \in Admins, NEW id \in LogIds, DeleteNodeLog(a, id)
     PROVE LaunchIsFresh'
    BY <1>2 DEF Exclusive, LaunchIsFresh, Handled, DeleteNodeLog, jobVars, tables
<1>3. ASSUME NEW a \in Admins, Lock(a) PROVE LaunchIsFresh'
    BY <1>3, LockEffect DEF Exclusive, LaunchIsFresh, Handled, jobVars, tables
<1>4. ASSUME NEW a \in Admins, NewSecureShell(a) PROVE LaunchIsFresh'
    BY <1>4, NewSecureShellEffect DEF Exclusive, LaunchIsFresh, Handled, jobVars, tables
<1>5. ASSUME NEW a \in Admins, InsertLog(a) PROVE LaunchIsFresh'
    <2>1. CASE InsertedLog(a)
        <3>1. \A id \in LogIds : id >= nextLog' => job'[id] = "none" /\ id \notin logs'
            <4>1. nextLog \in Nat /\ \A id \in LogIds : id \in Nat
                BY DEF TypeOK, LogIds
            <4>2. nextLog' = nextLog + 1 /\ logs' = logs \cup {nextLog}
                BY <2>1 DEF InsertedLog
            <4>3. job' = job
                BY <1>5, InsertLogEffect
            <4>4. \A id \in LogIds : id >= nextLog' => id >= nextLog /\ id # nextLog
                BY ONLY <4>1, <4>2
            <4>. QED  BY <4>2, <4>3, <4>4 DEF LaunchIsFresh
        <3>a. /\ pc[a] = "insertLog" /\ nextLog \in LogIds /\ job' = job /\ exit' = exit
              /\ \A b \in Admins : b # a => pc'[b] = pc[b] /\ req'[b] = req[b]
              /\ \A i \in LogIds : i # nextLog => log'[i] = log[i]
            BY <1>5, InsertLogEffect
        <3>b. nextLog' = nextLog + 1
            BY <2>1 DEF InsertedLog
        <3>2. ASSUME NEW b \in Admins, b # a
              PROVE  /\ pc'[b] \in {"launch", "updateLog"} =>
                         req'[b].id \in 1..(nextLog' - 1) /\ log'[req'[b].id].ip = req'[b].ip
                     /\ pc'[b] = "launch" => job'[req'[b].id] = "none"
            <4>1. /\ pc'[b] = pc[b] /\ req'[b] = req[b]
                  /\ pc[b] \in {"launch", "updateLog"} =>
                         req[b].id \in 1..(nextLog - 1) /\ log[req[b].id].ip = req[b].ip
                  /\ pc[b] = "launch" => job[req[b].id] = "none"
                BY <3>a, <3>2 DEF LaunchIsFresh
            <4>2. nextLog \in Nat
                BY NodeManagerAssumption DEF TypeOK
            <4>. QED  BY <3>a, <3>b, <4>1, <4>2 DEF LogIds
        <3>3. /\ pc'[a] \in {"launch", "updateLog"} =>
                     req'[a].id \in 1..(nextLog' - 1) /\ log'[req'[a].id].ip = req'[a].ip
              /\ pc'[a] = "launch" => job'[req'[a].id] = "none"
            BY <2>1, <3>a DEF InsertedLog, LaunchIsFresh, LogIds
        <3>. QED  BY <3>a, <3>1, <3>2, <3>3 DEF LaunchIsFresh
    <2>2. CASE ~InsertedLog(a)
        BY <1>5, <2>2, InsertLogEffect DEF LaunchIsFresh, tables
    <2>. QED  BY <2>1, <2>2
<1>6. ASSUME NEW a \in Admins, LaunchAnsibleContainer(a) PROVE LaunchIsFresh'
    <2>1. \A id \in LogIds : id >= nextLog => id # req[a].id
        BY <1>6, LaunchEffect DEF TypeOK, LogIds
    <2>2. \A id \in LogIds : job'[id] \in {"none", "container"} => ~exit[id]
        BY <1>6, LaunchEffect DEF LaunchIsFresh
    <2>3. \A b \in Admins : b # a /\ pc[b] \in {"launch", "updateLog"} => req[b].id # req[a].id
        <3>1. \A b \in Admins : pc[b] \in {"launch", "updateLog"} /\ req[b].id = req[a].id => b = a
            BY <1>6, LaunchEffect DEF LaunchIsFresh, Exclusive, Handled, TypeOK, Request
        <3>. QED  BY <3>1
    <2>4. \A b \in Admins :
            /\ pc'[b] \in {"launch", "updateLog"} =>
                req'[b].id \in 1..(nextLog - 1) /\ log[req'[b].id].ip = req'[b].ip
            /\ pc'[b] = "launch" => job'[req'[b].id] = "none"
        <3>1. ASSUME NEW b \in Admins, b # a
              PROVE  /\ pc'[b] \in {"launch", "updateLog"} =>
                         req'[b].id \in 1..(nextLog - 1) /\ log[req'[b].id].ip = req'[b].ip
                     /\ pc'[b] = "launch" => job'[req'[b].id] = "none"
            <4>1. /\ pc'[b] = pc[b] /\ req'[b] = req[b]
                  /\ \A i \in LogIds : i # req[a].id => job'[i] = job[i]
                BY <1>6, <3>1, LaunchEffect
            <4>2. /\ pc[b] \in {"launch", "updateLog"} =>
                         req[b].id \in 1..(nextLog - 1) /\ log[req[b].id].ip = req[b].ip
                  /\ pc[b] = "launch" => job[req[b].id] = "none"
                BY DEF LaunchIsFresh
            <4>3. pc[b] = "launch" => req[b].id \in LogIds
                BY <4>2, NodeManagerAssumption DEF TypeOK, LogIds
            <4>. QED  BY <2>3, <3>1, <4>1, <4>2, <4>3
        <3>2. /\ pc'[a] \in {"launch", "updateLog"} =>
                     req'[a].id \in 1..(nextLog - 1) /\ log[req'[a].id].ip = req'[a].ip
              /\ pc'[a] # "launch"
            BY <1>6, LaunchEffect DEF LaunchIsFresh
        <3>. QED  BY <3>1, <3>2
    <2>. QED  BY <1>6, <2>1, <2>2, <2>4, LaunchEffect DEF LaunchIsFresh, tables
<1>7. ASSUME NEW a \in Admins, LogUpdated(a) PROVE LaunchIsFresh'
    BY <1>7, LogUpdatedEffect DEF Exclusive, LaunchIsFresh, Handled, jobVars, tables
<1>8. ASSUME NEW a \in Admins, RemoveCacheData(a) PROVE LaunchIsFresh'
    BY <1>8, RemoveCacheDataEffect DEF Exclusive, LaunchIsFresh, Handled, jobVars, tables
<1>9. ASSUME NEW a \in Admins, DeleteLogRows(a) PROVE LaunchIsFresh'
    BY <1>9, DeleteLogRowsEffect DEF Exclusive, LaunchIsFresh, Handled, jobVars
<1>10. ASSUME NEW a \in Admins, DeleteNodeLogDetail(a) PROVE LaunchIsFresh'
    BY <1>10, DeleteNodeLogDetailEffect DEF Exclusive, LaunchIsFresh, Handled, jobVars,
       tables
<1>11. ASSUME NEW id \in LogIds, ContainerEnds(id) PROVE LaunchIsFresh'
    <2>1. \A i \in LogIds : job'[i] \in {"none", "container"} => ~exit'[i]
        BY <1>11, ContainerEndsEffect DEF LaunchIsFresh
    <2>2. \A i \in LogIds : i >= nextLog => job'[i] = "none" /\ i \notin logs
        BY <1>11, ContainerEndsEffect DEF LaunchIsFresh
    <2>3. \A b \in Admins : pc[b] = "launch" => job'[req[b].id] = "none"
        BY <1>11, ContainerEndsEffect DEF LaunchIsFresh, TypeOK, LogIds
    <2>. QED  BY <1>11, <2>1, <2>2, <2>3, ContainerEndsEffect DEF LaunchIsFresh, tables,
              procVars
<1>12. ASSUME NEW id \in LogIds, GetNodeLog(id) PROVE LaunchIsFresh'
    <2>1. \A i \in LogIds : job'[i] \in {"none", "container"} => ~exit[i]
        BY <1>12, GetNodeLogEffect DEF LaunchIsFresh
    <2>2. \A i \in LogIds : i >= nextLog => job'[i] = "none" /\ i \notin logs
        BY <1>12, GetNodeLogEffect DEF LaunchIsFresh
    <2>3. \A b \in Admins : pc[b] = "launch" => job'[req[b].id] = "none"
        BY <1>12, GetNodeLogEffect DEF LaunchIsFresh, TypeOK, LogIds
    <2>. QED  BY <1>12, <2>1, <2>2, <2>3, GetNodeLogEffect DEF LaunchIsFresh, tables, procVars
<1>13. ASSUME NEW id \in LogIds, UpdateNodeLog(id) PROVE LaunchIsFresh'
    <2>1. \A i \in LogIds : i >= nextLog => job'[i] = "none" /\ i \notin logs
        BY <1>13, UpdateNodeLogEffect DEF LaunchIsFresh
    <2>2. \A b \in Admins : pc[b] \in {"launch", "updateLog"} =>
            /\ req[b].id \in 1..(nextLog - 1) /\ log'[req[b].id].ip = req[b].ip
            /\ pc[b] = "launch" => job'[req[b].id] = "none"
        <3>1. ASSUME NEW b \in Admins, pc[b] \in {"launch", "updateLog"}
              PROVE  /\ req[b].id \in 1..(nextLog - 1) /\ req[b].id \in LogIds
                     /\ log[req[b].id].ip = req[b].ip
                     /\ pc[b] = "launch" => job[req[b].id] = "none"
            BY <3>1, NodeManagerAssumption DEF LaunchIsFresh, TypeOK, LogIds
        <3>2. /\ job[id] = "updateLog" /\ \A i \in LogIds : i # id => job'[i] = job[i]
              /\ \A i \in LogIds : log'[i].ip = log[i].ip
            BY <1>13, UpdateNodeLogEffect
        <3>. QED  BY <3>1, <3>2
    <2>. QED  BY <1>13, <2>1, <2>2, UpdateNodeLogEffect DEF LaunchIsFresh, procVars
<1>14. ASSUME NEW id \in LogIds, InsertLogDetail(id) PROVE LaunchIsFresh'
    BY <1>14, StepEffect DEF Exclusive, LaunchIsFresh, Handled, TypeOK, LogIds,
       InsertLogDetail, tables, procVars
<1>15. ASSUME NEW id \in LogIds, NodeStatus(id) PROVE LaunchIsFresh'
    BY <1>15, StepEffect DEF Exclusive, LaunchIsFresh, Handled, TypeOK, LogIds,
       NodeStatus, tables, procVars
<1>16. ASSUME NEW id \in LogIds, Unlock(id) PROVE LaunchIsFresh'
    BY <1>16, StepEffect DEF Exclusive, LaunchIsFresh, Handled, TypeOK, LogIds, Unlock,
       tables, procVars
<1>17. ASSUME NEW id \in LogIds, DeleteNode(id) PROVE LaunchIsFresh'
    BY <1>17, StepEffect DEF Exclusive, LaunchIsFresh, Handled, TypeOK, LogIds,
       DeleteNode, tables, procVars
<1>18. ASSUME NEW ip \in Ips, Expire(ip) PROVE LaunchIsFresh'
    BY <1>18 DEF Exclusive, LaunchIsFresh, Handled, Expire, jobVars, tables, procVars
<1>20. ASSUME NEW id \in LogIds, UpdateLogFails(id) PROVE LaunchIsFresh'
    <2>1. \A i \in LogIds : job'[i] \in {"none", "container"} => ~exit[i]
        BY <1>20, UpdateLogFailsEffect DEF LaunchIsFresh
    <2>2. \A i \in LogIds : i >= nextLog => job'[i] = "none" /\ i \notin logs
        BY <1>20, UpdateLogFailsEffect DEF LaunchIsFresh
    <2>3. \A b \in Admins : pc[b] = "launch" => job'[req[b].id] = "none"
        <3>1. \A b \in Admins : pc[b] = "launch" => req[b].id \in LogIds /\ job[req[b].id] = "none"
            BY DEF LaunchIsFresh, TypeOK, LogIds
        <3>. QED  BY <1>20, <3>1, UpdateLogFailsEffect
    <2>. QED  BY <1>20, <2>1, <2>2, <2>3, UpdateLogFailsEffect DEF LaunchIsFresh, tables, procVars
<1>21. ASSUME NEW ip \in Ips, RemoveNodeAction(ip) PROVE LaunchIsFresh'
    BY <1>21 DEF Exclusive, LaunchIsFresh, Handled, jobVars, tables, procVars,
       RemoveNodeAction
<1>19. CASE UNCHANGED vars
    BY <1>19 DEF Exclusive, LaunchIsFresh, Handled, vars, tables, jobVars, procVars
<1>. QED  BY <1>1, <1>2, <1>3, <1>4, <1>5, <1>6, <1>7, <1>8, <1>9, <1>10, <1>11, <1>12,
      <1>13, <1>14, <1>15, <1>16, <1>17, <1>18, <1>19, <1>20, <1>21
    DEF Next, NewRequest, Continue, Report

LEMMA ActionsInOrderNext ==
    ASSUME NodeManagerAssumption, TypeOK, Exclusive, LaunchIsFresh, ActionsInOrder, [Next]_vars
    PROVE  ActionsInOrder'
<1>1. ASSUME NEW a \in Admins, NEW ip \in Ips, NEW type \in ActionTypes,
      AddRemoveNode(a, ip, type) PROVE ActionsInOrder'
    <2>1. \A b \in Admins : pc'[b] = "launch" => pc[b] = "launch" /\ req'[b] = req[b]
        BY <1>1, AddRemoveNodeEffect
    <2>. QED  BY <1>1, <2>1, AddRemoveNodeEffect DEF ActionsInOrder, IsLast, Underway, tables,
              jobVars
<1>2. ASSUME NEW a \in Admins, NEW id \in LogIds, DeleteNodeLog(a, id) PROVE ActionsInOrder'
    BY <1>2 DEF ActionsInOrder, IsLast, Underway, DeleteNodeLog, TypeOK, jobVars,
       tables
<1>3. ASSUME NEW a \in Admins, Lock(a) PROVE ActionsInOrder'
    BY <1>3, LockEffect DEF ActionsInOrder, IsLast, Underway,
       tables, jobVars, procVars
<1>4. ASSUME NEW a \in Admins, NewSecureShell(a) PROVE ActionsInOrder'
    BY <1>4, NewSecureShellEffect DEF ActionsInOrder, IsLast, Underway,
       tables, jobVars, procVars
<1>5. ASSUME NEW a \in Admins, InsertLog(a) PROVE ActionsInOrder'
    <2>0. /\ pc[a] = "insertLog" /\ nextLog \in LogIds /\ job' = job
          /\ \A b \in Admins : b # a => pc'[b] = pc[b] /\ req'[b] = req[b]
          /\ \A i \in LogIds : i # nextLog => log'[i] = log[i]
        BY <1>5, InsertLogEffect
    <2>1. CASE InsertedLog(a)
        <3>0. /\ pc'[a] = "launch" /\ req'[a].id = nextLog /\ nextLog' = nextLog + 1
              /\ log'[nextLog].ip = req[a].ip
            BY <2>1 DEF InsertedLog
        <3>1. ASSUME NEW id \in LogIds, id < nextLog, IsLast(id), log[id].ip # req[a].ip
              PROVE  IsLast(id)'
            BY <2>0, <3>0, <3>1 DEF IsLast, LogIds
        <3>2. ASSUME NEW id \in LogIds, Underway(id)' PROVE IsLast(id)'
            <4>1. Underway(id) /\ id < nextLog
                BY <2>0, <3>2 DEF Underway, LaunchIsFresh, LogIds
            <4>2. log[id].ip # req[a].ip
                BY <2>0, <4>1 DEF Exclusive, Handled
            <4>. QED  BY <3>1, <4>1, <4>2 DEF ActionsInOrder
        <3>3. IsLast(req[a].id)'
            BY <2>0, <3>0 DEF IsLast, LogIds
        <3>4. ASSUME NEW b \in Admins, b # a, pc'[b] = "launch" PROVE IsLast(req[b].id)'
            <4>1. /\ pc[b] = "launch" /\ req[b].id \in LogIds /\ req[b].id < nextLog
                  /\ log[req[b].id].ip = req[b].ip
                BY <2>0, <3>4 DEF LaunchIsFresh, TypeOK, LogIds
            <4>2. req[b].ip # req[a].ip
                BY <2>0, <3>4, <4>1 DEF Exclusive, Handled, TypeOK, Request
            <4>3. PICK id \in LogIds : id = req[b].id
                BY <4>1
            <4>4. IsLast(id)'
                BY <3>1, <4>1, <4>2, <4>3 DEF ActionsInOrder
            <4>. QED  BY <2>0, <3>4, <4>3, <4>4 DEF IsLast
        <3>5. ASSUME NEW b \in Admins, pc'[b] = "launch" PROVE IsLast(req[b].id)'
            BY <3>3, <3>4, <3>5
        <3>. QED  BY <3>2, <3>5 DEF ActionsInOrder
    <2>2. CASE ~InsertedLog(a)
        <3>1. /\ pc'[a] = "idle" /\ UNCHANGED tables
            BY <1>5, <2>2, InsertLogEffect
        <3>. QED  BY <2>0, <3>1 DEF ActionsInOrder, IsLast, Underway, tables
    <2>. QED  BY <2>1, <2>2
<1>6. ASSUME NEW a \in Admins, LaunchAnsibleContainer(a) PROVE ActionsInOrder'
    <2>1. \A id \in LogIds : Underway(id)' => id = req[a].id \/ Underway(id)
        BY <1>6, LaunchEffect DEF Underway
    <2>2. \A id \in LogIds : Underway(id)' => IsLast(id)
        BY <1>6, <2>1, LaunchEffect DEF ActionsInOrder
    <2>. QED  BY <1>6, <2>2, LaunchEffect DEF ActionsInOrder, IsLast, tables
<1>7. ASSUME NEW a \in Admins, LogUpdated(a) PROVE ActionsInOrder'
    BY <1>7, LogUpdatedEffect DEF ActionsInOrder, IsLast, Underway,
       tables, jobVars, procVars
<1>8. ASSUME NEW a \in Admins, RemoveCacheData(a) PROVE ActionsInOrder'
    BY <1>8, RemoveCacheDataEffect DEF ActionsInOrder, IsLast, Underway,
       tables, jobVars, procVars
<1>9. ASSUME NEW a \in Admins, DeleteLogRows(a) PROVE ActionsInOrder'
    BY <1>9, DeleteLogRowsEffect DEF ActionsInOrder, IsLast, Underway,
       tables, jobVars, procVars
<1>10. ASSUME NEW a \in Admins, DeleteNodeLogDetail(a) PROVE ActionsInOrder'
    BY <1>10, DeleteNodeLogDetailEffect DEF ActionsInOrder, IsLast, Underway,
       tables, jobVars, procVars
<1>11. ASSUME NEW id \in LogIds, ContainerEnds(id) PROVE ActionsInOrder'
    BY <1>11, ContainerEndsEffect DEF ActionsInOrder, IsLast, Underway,
       tables, jobVars, procVars
<1>12. ASSUME NEW id \in LogIds, GetNodeLog(id) PROVE ActionsInOrder'
    BY <1>12, GetNodeLogEffect DEF ActionsInOrder, IsLast, Underway,
       tables, jobVars, procVars
<1>13. ASSUME NEW id \in LogIds, UpdateNodeLog(id) PROVE ActionsInOrder'
    <2>1. \A i \in LogIds : Underway(i)' => Underway(i)
        BY <1>13, UpdateNodeLogEffect DEF Underway
    <2>2. ASSUME NEW i \in LogIds, IsLast(i) PROVE IsLast(i)'
        BY <1>13, <2>2, UpdateNodeLogEffect DEF IsLast
    <2>3. \A b \in Admins : pc[b] = "launch" => req[b].id \in LogIds
        BY DEF LaunchIsFresh, TypeOK, LogIds
    <2>. QED  BY <1>13, <2>1, <2>2, <2>3, UpdateNodeLogEffect DEF ActionsInOrder, procVars
<1>14. ASSUME NEW id \in LogIds, InsertLogDetail(id) PROVE ActionsInOrder'
    BY <1>14, StepEffect DEF ActionsInOrder, IsLast, Underway, InsertLogDetail,
       tables, jobVars, procVars
<1>15. ASSUME NEW id \in LogIds, NodeStatus(id) PROVE ActionsInOrder'
    BY <1>15, StepEffect DEF ActionsInOrder, IsLast, Underway, NodeStatus,
       tables, jobVars, procVars
<1>16. ASSUME NEW id \in LogIds, Unlock(id) PROVE ActionsInOrder'
    BY <1>16, StepEffect DEF ActionsInOrder, IsLast, Underway, Unlock,
       tables, jobVars, procVars
<1>17. ASSUME NEW id \in LogIds, DeleteNode(id) PROVE ActionsInOrder'
    BY <1>17, StepEffect DEF ActionsInOrder, IsLast, Underway, DeleteNode,
       tables, jobVars, procVars
<1>18. ASSUME NEW ip \in Ips, Expire(ip) PROVE ActionsInOrder'
    BY <1>18 DEF ActionsInOrder, IsLast, Underway, Expire,
       tables, jobVars, procVars
<1>20. ASSUME NEW id \in LogIds, UpdateLogFails(id) PROVE ActionsInOrder'
    BY <1>20, UpdateLogFailsEffect DEF ActionsInOrder, IsLast, Underway,
       tables, jobVars, procVars
<1>21. ASSUME NEW ip \in Ips, RemoveNodeAction(ip) PROVE ActionsInOrder'
    BY <1>21 DEF ActionsInOrder, IsLast, Underway, RemoveNodeAction,
       tables, jobVars, procVars
<1>19. CASE UNCHANGED vars
    BY <1>19 DEF ActionsInOrder, IsLast, Underway, vars, tables, jobVars, procVars
<1>. QED  BY <1>1, <1>2, <1>3, <1>4, <1>5, <1>6, <1>7, <1>8, <1>9, <1>10, <1>11, <1>12,
      <1>13, <1>14, <1>15, <1>16, <1>17, <1>18, <1>19, <1>20, <1>21
    DEF Next, NewRequest, Continue, Report

\* An action that has been overtaken remains so.
LEMMA OvertakenStays ==
    ASSUME NEW id \in LogIds, job'[id] \notin {"none", "container"},
           \A i \in LogIds : i # id => job'[i] = job[i],
           \A i \in LogIds : log'[i].ip = log[i].ip
    PROVE  \A i \in LogIds : Overtaken(i) => Overtaken(i)'
BY DEF Overtaken

LEMMA ClusterFollowsNext ==
    ASSUME NodeManagerAssumption, ~Overlap, TypeOK, TypeOK', OneActionPerNode,
           LaunchIsFresh, ActionsInOrder, ClusterFollows, [Next]_vars
    PROVE  ClusterFollows'
<1>1. ASSUME NEW a \in Admins, NEW ip \in Ips, NEW type \in ActionTypes,
      AddRemoveNode(a, ip, type) PROVE ClusterFollows'
    BY <1>1, AddRemoveNodeEffect DEF OneActionPerNode, LaunchIsFresh, ClusterFollows,
       Underway, Removing, Overtaken, jobVars, tables, members
<1>2. ASSUME NEW a \in Admins, NEW id \in LogIds, DeleteNodeLog(a, id)
     PROVE ClusterFollows'
    BY <1>2 DEF OneActionPerNode, LaunchIsFresh, ClusterFollows, Underway, Removing, Overtaken,
       DeleteNodeLog, jobVars, tables, members
<1>3. ASSUME NEW a \in Admins, Lock(a) PROVE ClusterFollows'
    BY <1>3, LockEffect DEF ClusterFollows, Removing, Overtaken, tables, members, jobVars
<1>4. ASSUME NEW a \in Admins, NewSecureShell(a) PROVE ClusterFollows'
    BY <1>4, NewSecureShellEffect DEF OneActionPerNode, LaunchIsFresh, ClusterFollows,
       Underway, Removing, Overtaken, jobVars, tables, members
<1>5. ASSUME NEW a \in Admins, InsertLog(a) PROVE ClusterFollows'
    <2>1. \A i \in LogIds : job'[i] = job[i] /\ (job[i] # "none" => log'[i] = log[i])
        BY <1>5, InsertLogEffect DEF LaunchIsFresh, TypeOK, LogIds
    <2>. QED  BY <1>5, <2>1, InsertLogEffect DEF ClusterFollows, Removing, Overtaken, members
<1>6. ASSUME NEW a \in Admins, LaunchAnsibleContainer(a) PROVE ClusterFollows'
    <2>1. \A i \in LogIds : job'[i] = job[i] \/ (job'[i] \in {"container", "getLog"} /\ job[i] = "none" /\ ~exit[i])
        BY <1>6, LaunchEffect DEF LaunchIsFresh
    <2>2. UNCHANGED <<tables, members, exit, unrecorded>>
        BY <1>6, LaunchEffect
    <2>3. \A i \in LogIds : Overtaken(i) => Overtaken(i)'
        BY <2>1, <2>2 DEF Overtaken, tables
    <2>4. \A i \in LogIds : Removing(i)' => Removing(i)
        BY <2>1, <2>2 DEF Removing, tables
    <2>. QED  BY <2>1, <2>2, <2>3, <2>4 DEF ClusterFollows, TypeOK, tables, members
<1>7. ASSUME NEW a \in Admins, LogUpdated(a) PROVE ClusterFollows'
    BY <1>7, LogUpdatedEffect DEF OneActionPerNode, LaunchIsFresh, ClusterFollows,
       Underway, Removing, Overtaken, jobVars, tables, members
<1>8. ASSUME NEW a \in Admins, RemoveCacheData(a) PROVE ClusterFollows'
    BY <1>8, RemoveCacheDataEffect DEF OneActionPerNode, LaunchIsFresh, ClusterFollows,
       Underway, Removing, Overtaken, jobVars, tables, members
<1>9. ASSUME NEW a \in Admins, DeleteLogRows(a) PROVE ClusterFollows'
    BY <1>9, DeleteLogRowsEffect DEF OneActionPerNode, LaunchIsFresh, ClusterFollows,
       Underway, Removing, Overtaken, jobVars, members
<1>10. ASSUME NEW a \in Admins, DeleteNodeLogDetail(a) PROVE ClusterFollows'
    BY <1>10, DeleteNodeLogDetailEffect DEF OneActionPerNode, LaunchIsFresh,
       ClusterFollows, Underway, Removing, Overtaken, jobVars, tables, members
<1>11. ASSUME NEW id \in LogIds, ContainerEnds(id) PROVE ClusterFollows'
    <2>1. /\ job[id] = "container" /\ job'[id] \in {"getLog", "unheard"}
          /\ \A i \in LogIds : i # id => job'[i] = job[i] /\ exit'[i] = exit[i]
          /\ UNCHANGED <<log, status, unrecorded>>
        BY <1>11, ContainerEndsEffect DEF tables
    <2>2. \A i \in LogIds : Overtaken(i) => Overtaken(i)'
        BY <2>1, OvertakenStays
    <2>3. \A i \in LogIds : Removing(i)' => Removing(i)
        BY <2>1 DEF Removing
    <2>4. /\ cluster \cup gone \subseteq cluster' \cup gone'
          /\ exit'[id] /\ log[id].type = "add" => log[id].ip \in cluster'
        BY <1>11 DEF ContainerEnds, TypeOK, members
    <2>5. \A i \in LogIds : job'[i] = "status" => exit'[i]
        BY <2>1 DEF ClusterFollows
    <2>6. \A i \in unrecorded : job'[i] \in {"unlock", "deleteNode", "over"}
        BY <2>1 DEF ClusterFollows, TypeOK
    <2>7. \A i \in LogIds : Removing(i)' /\ i \notin unrecorded' /\ ~Overtaken(i)' =>
            \A s \in status' : s[1] # log'[i].ip
        BY <2>1, <2>2, <2>3 DEF ClusterFollows
    <2>8. \A i \in LogIds :
            exit'[i] /\ log'[i].type = "add" /\ job'[i] \in {"getLog", "updateLog", "detail", "status"} =>
                log'[i].ip \in cluster' \cup gone'
        BY <2>1, <2>4 DEF ClusterFollows
    <2>. QED  BY <2>1, <2>5, <2>6, <2>7, <2>8 DEF ClusterFollows
<1>12. ASSUME NEW id \in LogIds, GetNodeLog(id) PROVE ClusterFollows'
    <2>1. /\ job'[id] \notin {"none", "container"}
          /\ \A i \in LogIds : i # id => job'[i] = job[i]
          /\ \A i \in LogIds : log'[i].ip = log[i].ip /\ log'[i].type = log[i].type
        BY <1>12, GetNodeLogEffect DEF tables, procVars
    <2>2. \A i \in LogIds : Overtaken(i) => Overtaken(i)'
        BY <2>1, OvertakenStays
    <2>3. \A i \in LogIds : Removing(i)' => Removing(i)
        BY <1>12, <2>1, GetNodeLogEffect DEF Removing, tables, procVars
    <2>. QED  BY <1>12, <2>1, <2>2, <2>3, GetNodeLogEffect DEF ClusterFollows, TypeOK, members, tables, procVars
<1>13. ASSUME NEW id \in LogIds, UpdateNodeLog(id) PROVE ClusterFollows'
    <2>1. /\ job'[id] \notin {"none", "container"}
          /\ \A i \in LogIds : i # id => job'[i] = job[i]
          /\ \A i \in LogIds : log'[i].ip = log[i].ip /\ log'[i].type = log[i].type
        BY <1>13, UpdateNodeLogEffect DEF procVars
    <2>2. \A i \in LogIds : Overtaken(i) => Overtaken(i)'
        BY <2>1, OvertakenStays
    <2>3. \A i \in LogIds : Removing(i)' => Removing(i)
        <3>1. job'[id] = "detail" /\ exit' = exit
            BY <1>13, UpdateNodeLogEffect
        <3>. QED  BY <2>1, <3>1 DEF Removing
    <2>4. /\ job[id] = "updateLog" /\ job'[id] = "detail"
          /\ UNCHANGED <<exit, unrecorded, status, cluster, gone>>
        BY <1>13, UpdateNodeLogEffect DEF members
    <2>5. \A i \in LogIds : job'[i] = "status" => exit'[i]
        BY <2>1, <2>4 DEF ClusterFollows
    <2>6. \A i \in unrecorded' : job'[i] \in {"unlock", "deleteNode", "over"}
        BY <2>1, <2>4 DEF ClusterFollows, TypeOK
    <2>7. ASSUME NEW i \in LogIds, Removing(i)', i \notin unrecorded', ~Overtaken(i)'
          PROVE  \A s \in status' : s[1] # log'[i].ip
        BY <2>1, <2>2, <2>3, <2>4, <2>7 DEF ClusterFollows
    <2>8. ASSUME NEW i \in LogIds, exit'[i], log'[i].type = "add",
                 job'[i] \in {"getLog", "updateLog", "detail", "status"}
          PROVE  log'[i].ip \in cluster' \cup gone'
        BY <2>1, <2>4, <2>8 DEF ClusterFollows
    <2>. QED  BY <2>5, <2>6, <2>7, <2>8 DEF ClusterFollows
<1>14. ASSUME NEW id \in LogIds, InsertLogDetail(id) PROVE ClusterFollows'
    <2>1. /\ job'[id] \notin {"none", "container"}
          /\ \A i \in LogIds : i # id => job'[i] = job[i]
          /\ \A i \in LogIds : log'[i].ip = log[i].ip /\ log'[i].type = log[i].type
        BY <1>14, StepEffect DEF InsertLogDetail
    <2>2. \A i \in LogIds : Overtaken(i) => Overtaken(i)'
        BY <2>1, OvertakenStays
    <2>3. \A i \in LogIds : Removing(i)' => Removing(i)
        BY <1>14, <2>1, StepEffect DEF Removing, InsertLogDetail
    <2>. QED  BY <1>14, <2>1, <2>2, <2>3, StepEffect DEF ClusterFollows, TypeOK, members, InsertLogDetail
<1>20. ASSUME NEW id \in LogIds, UpdateLogFails(id) PROVE ClusterFollows'
    <2>1. /\ job'[id] \notin {"none", "container"}
          /\ \A i \in LogIds : i # id => job'[i] = job[i]
          /\ \A i \in LogIds : log'[i].ip = log[i].ip /\ log'[i].type = log[i].type
        BY <1>20, UpdateLogFailsEffect DEF tables, procVars
    <2>2. \A i \in LogIds : Overtaken(i) => Overtaken(i)'
        BY <2>1, OvertakenStays
    <2>3. \A i \in LogIds : Removing(i)' => Removing(i)
        BY <1>20, <2>1, UpdateLogFailsEffect DEF Removing, tables, procVars
    <2>. QED  BY <1>20, <2>1, <2>2, <2>3, UpdateLogFailsEffect DEF ClusterFollows, TypeOK, members, tables, procVars
<1>15. ASSUME NEW id \in LogIds, NodeStatus(id) PROVE ClusterFollows'
    <2>1. /\ job'[id] \notin {"none", "container"}
          /\ \A i \in LogIds : i # id => job'[i] = job[i]
          /\ \A i \in LogIds : log'[i].ip = log[i].ip /\ log'[i].type = log[i].type
        BY <1>15, StepEffect DEF NodeStatus
    <2>2. \A i \in LogIds : Overtaken(i) => Overtaken(i)'
        BY <2>1, OvertakenStays
    <2>3. ASSUME NEW i \in LogIds, Removing(i)', i \notin unrecorded', ~Overtaken(i)',
                 NEW s \in status', s[1] = log[i].ip
          PROVE  FALSE
        <3>1. CASE i = id
            BY <1>15, <2>1, <2>3, <3>1, StepEffect DEF NodeStatus, Removing
        <3>2. CASE i # id
            <4>1. /\ Removing(i) /\ i \notin unrecorded /\ ~Overtaken(i)
                  /\ job'[id] = "unlock" /\ job[id] = "status" /\ log' = log
                BY <1>15, <2>1, <2>2, <2>3, <3>2, StepEffect DEF NodeStatus, Removing
            <4>2. s \notin status
                BY <2>3, <4>1 DEF ClusterFollows
            <4>3. s = <<log[id].ip, log[id].time>>
                BY <1>15, <2>3, <4>2 DEF NodeStatus
            <4>4. log[i].ip = log[id].ip
                BY <2>3, <4>3
            <4>5. i < nextLog /\ IsLast(id)
                BY <4>1 DEF LaunchIsFresh, ActionsInOrder, Removing, Underway, TypeOK, LogIds
            <4>6. Overtaken(i)'
                BY <3>2, <4>1, <4>4, <4>5 DEF IsLast, Overtaken, LogIds
            <4>. QED  BY <2>3, <4>6
        <3>. QED  BY <3>1, <3>2
    <2>4. /\ job[id] = "status" /\ job'[id] = "unlock" /\ unrecorded' \subseteq unrecorded \cup {id}
          /\ UNCHANGED <<exit, log, cluster, gone>>
        BY <1>15, StepEffect DEF NodeStatus, members
    <2>5. \A i \in LogIds : job'[i] = "status" => exit'[i]
        BY <2>1, <2>4 DEF ClusterFollows
    <2>6. \A i \in unrecorded' : job'[i] \in {"unlock", "deleteNode", "over"}
        BY <2>1, <2>4 DEF ClusterFollows, TypeOK
    <2>7. \A i \in LogIds :
            exit'[i] /\ log'[i].type = "add" /\ job'[i] \in {"getLog", "updateLog", "detail", "status"} =>
                log'[i].ip \in cluster' \cup gone'
        BY <2>1, <2>4 DEF ClusterFollows
    <2>. QED  BY <2>3, <2>4, <2>5, <2>6, <2>7 DEF ClusterFollows
<1>16. ASSUME NEW id \in LogIds, Unlock(id) PROVE ClusterFollows'
    <2>1. /\ job'[id] \notin {"none", "container"}
          /\ \A i \in LogIds : i # id => job'[i] = job[i]
          /\ \A i \in LogIds : log'[i].ip = log[i].ip /\ log'[i].type = log[i].type
        BY <1>16, StepEffect DEF Unlock, tables
    <2>2. \A i \in LogIds : Overtaken(i) => Overtaken(i)'
        BY <2>1, OvertakenStays
    <2>3. \A i \in LogIds : Removing(i)' => Removing(i)
        BY <1>16, <2>1, StepEffect DEF Removing, Unlock, tables
    <2>. QED  BY <1>16, <2>1, <2>2, <2>3, StepEffect DEF ClusterFollows, TypeOK, members, Unlock,
              tables
<1>17. ASSUME NEW id \in LogIds, DeleteNode(id) PROVE ClusterFollows'
    <2>1. /\ job'[id] \notin {"none", "container"}
          /\ \A i \in LogIds : i # id => job'[i] = job[i]
          /\ \A i \in LogIds : log'[i].ip = log[i].ip /\ log'[i].type = log[i].type
        BY <1>17, StepEffect DEF DeleteNode, tables
    <2>2. \A i \in LogIds : Overtaken(i) => Overtaken(i)'
        BY <2>1, OvertakenStays
    <2>3. /\ \A i \in LogIds : Removing(i)' => Removing(i)
          /\ job[id] = "deleteNode" /\ job'[id] = "over" /\ UNCHANGED <<exit, log, status, unrecorded>>
        BY <1>17, <2>1, StepEffect DEF Removing, DeleteNode, tables
    <2>4. ASSUME NEW i \in LogIds, exit[i], log[i].type = "add",
                 job'[i] \in {"getLog", "updateLog", "detail", "status"}
          PROVE  log[i].ip \in cluster' \cup gone'
        <3>1. job'[i] = job[i] /\ i # id /\ log[i].ip \in cluster \cup gone
            BY <2>1, <2>3, <2>4 DEF ClusterFollows
        <3>2. CASE log[i].ip # log[id].ip
            BY <1>17, <3>1, <3>2 DEF DeleteNode, members
        <3>3. CASE log[i].ip = log[id].ip
            <4>1. IsLast(i) /\ id < nextLog
                BY <2>3, <2>4, <3>1 DEF ActionsInOrder, Underway, LaunchIsFresh, TypeOK, LogIds
            <4>2. Overtaken(id)
                BY <2>4, <3>1, <3>3, <4>1 DEF IsLast, Overtaken, LogIds
            <4>. QED  BY <1>17, <3>1, <4>2, <3>3 DEF DeleteNode, members
        <3>. QED  BY <3>2, <3>3
    <2>. QED  BY <2>1, <2>2, <2>3, <2>4 DEF ClusterFollows, TypeOK
<1>18. ASSUME NEW ip \in Ips, Expire(ip) PROVE ClusterFollows'
    BY <1>18 DEF OneActionPerNode, LaunchIsFresh, ClusterFollows, Underway, Removing, Overtaken,
       Expire, jobVars, tables, members, procVars
<1>21. ASSUME NEW ip \in Ips, RemoveNodeAction(ip) PROVE ClusterFollows'
    BY <1>21 DEF OneActionPerNode, LaunchIsFresh, ClusterFollows, Underway, Removing, Overtaken,
       jobVars, tables, members, procVars, RemoveNodeAction
<1>19. CASE UNCHANGED vars
    BY <1>19 DEF OneActionPerNode, LaunchIsFresh, ClusterFollows, Underway, Removing, Overtaken,
       vars, tables, members, jobVars, procVars
<1>. QED  BY <1>1, <1>2, <1>3, <1>4, <1>5, <1>6, <1>7, <1>8, <1>9, <1>10, <1>11, <1>12,
      <1>13, <1>14, <1>15, <1>16, <1>17, <1>18, <1>19, <1>20, <1>21
    DEF Next, NewRequest, Continue, Report

LEMMA StatusInClusterNext ==
    ASSUME NodeManagerAssumption, ~Overlap, TypeOK, TypeOK', StatusInCluster,
           LaunchIsFresh, ClusterFollows, [Next]_vars
    PROVE  StatusInCluster'
<1>1. ASSUME NEW a \in Admins, NEW ip \in Ips, NEW type \in ActionTypes,
      AddRemoveNode(a, ip, type) PROVE StatusInCluster'
    BY <1>1, AddRemoveNodeEffect DEF StatusInCluster, ClusterFollows, Removing, jobVars,
       tables, members
<1>2. ASSUME NEW a \in Admins, NEW id \in LogIds, DeleteNodeLog(a, id)
     PROVE StatusInCluster'
    BY <1>2 DEF StatusInCluster, ClusterFollows, Removing, DeleteNodeLog, jobVars, tables, members
<1>3. ASSUME NEW a \in Admins, Lock(a) PROVE StatusInCluster'
    BY <1>3, LockEffect DEF StatusInCluster, ClusterFollows, Removing, jobVars, tables, members
<1>4. ASSUME NEW a \in Admins, NewSecureShell(a) PROVE StatusInCluster'
    BY <1>4, NewSecureShellEffect DEF StatusInCluster, ClusterFollows, Removing,
       jobVars, tables, members
<1>5. ASSUME NEW a \in Admins, InsertLog(a) PROVE StatusInCluster'
    BY <1>5, InsertLogEffect DEF StatusInCluster, ClusterFollows, Removing, InsertedLog,
       members, jobVars
<1>6. ASSUME NEW a \in Admins, LaunchAnsibleContainer(a) PROVE StatusInCluster'
    BY <1>6, LaunchEffect DEF StatusInCluster, ClusterFollows, Removing, jobVars, tables, members
<1>7. ASSUME NEW a \in Admins, LogUpdated(a) PROVE StatusInCluster'
    BY <1>7, LogUpdatedEffect DEF StatusInCluster, ClusterFollows, Removing, jobVars,
       tables, members
<1>8. ASSUME NEW a \in Admins, RemoveCacheData(a) PROVE StatusInCluster'
    BY <1>8, RemoveCacheDataEffect DEF StatusInCluster, ClusterFollows, Removing,
       jobVars, tables, members
<1>9. ASSUME NEW a \in Admins, DeleteLogRows(a) PROVE StatusInCluster'
    BY <1>9, DeleteLogRowsEffect DEF StatusInCluster, ClusterFollows, Removing, members, jobVars
<1>10. ASSUME NEW a \in Admins, DeleteNodeLogDetail(a) PROVE StatusInCluster'
    BY <1>10, DeleteNodeLogDetailEffect DEF StatusInCluster, ClusterFollows, Removing,
       jobVars, tables, members
<1>11. ASSUME NEW id \in LogIds, ContainerEnds(id) PROVE StatusInCluster'
    BY <1>11, ContainerEndsEffect DEF StatusInCluster, ContainerEnds, tables, members
<1>12. ASSUME NEW id \in LogIds, GetNodeLog(id) PROVE StatusInCluster'
    BY <1>12, GetNodeLogEffect DEF StatusInCluster, ClusterFollows, Removing, tables, members, procVars
<1>13. ASSUME NEW id \in LogIds, UpdateNodeLog(id) PROVE StatusInCluster'
    BY <1>13, UpdateNodeLogEffect DEF StatusInCluster, ClusterFollows, Removing, members, procVars
<1>14. ASSUME NEW id \in LogIds, InsertLogDetail(id) PROVE StatusInCluster'
    BY <1>14, StepEffect DEF StatusInCluster, ClusterFollows, Removing, InsertLogDetail,
       tables, members, procVars
<1>15. ASSUME NEW id \in LogIds, NodeStatus(id) PROVE StatusInCluster'
    BY <1>15, StepEffect DEF StatusInCluster, ClusterFollows, Removing, NodeStatus,
       tables, members, procVars
<1>16. ASSUME NEW id \in LogIds, Unlock(id) PROVE StatusInCluster'
    BY <1>16, StepEffect DEF StatusInCluster, ClusterFollows, Removing, Unlock, tables, members,
       procVars
<1>17. ASSUME NEW id \in LogIds, DeleteNode(id) PROVE StatusInCluster'
    BY <1>17, StepEffect DEF StatusInCluster, ClusterFollows, Removing, DeleteNode,
       tables, members, procVars
<1>18. ASSUME NEW ip \in Ips, Expire(ip) PROVE StatusInCluster'
    BY <1>18 DEF StatusInCluster, ClusterFollows, Removing, Expire, jobVars, tables, members,
       procVars
<1>20. ASSUME NEW id \in LogIds, UpdateLogFails(id) PROVE StatusInCluster'
    BY <1>20, UpdateLogFailsEffect DEF StatusInCluster, ClusterFollows, Removing,
       tables, members, procVars
<1>21. ASSUME NEW ip \in Ips, RemoveNodeAction(ip) PROVE StatusInCluster'
    BY <1>21 DEF StatusInCluster, ClusterFollows, Removing, jobVars, tables, members, procVars,
       RemoveNodeAction
<1>19. CASE UNCHANGED vars
    BY <1>19 DEF StatusInCluster, ClusterFollows, Removing, vars, tables, members, jobVars,
       procVars
<1>. QED  BY <1>1, <1>2, <1>3, <1>4, <1>5, <1>6, <1>7, <1>8, <1>9, <1>10, <1>11, <1>12,
      <1>13, <1>14, <1>15, <1>16, <1>17, <1>18, <1>19, <1>20, <1>21
    DEF Next, NewRequest, Continue, Report


-----------------------------------------------------------------------------
(* The logs. *)

LEMMA LogsCompletedByUpdate ==
    ASSUME TypeOK, NEW id \in LogIds, UpdateNodeLog(id)
    PROVE  /\ id \in logs => log'[id].completed
           /\ \A i \in LogIds : log[i].completed => log'[i].completed
BY DEF TypeOK, NodeLog, UpdateNodeLog

LEMMA LogsGetCompletedNext ==
    ASSUME TypeOK, LaunchIsFresh, LogsGetCompleted, [Next]_vars
    PROVE  LogsGetCompleted'
<1>1. ASSUME NEW a \in Admins, NEW ip \in Ips, NEW type \in ActionTypes,
      AddRemoveNode(a, ip, type) PROVE LogsGetCompleted'
    BY <1>1, AddRemoveNodeEffect DEF LogsGetCompleted, 
       TypeOK, tables, jobVars
<1>2. ASSUME NEW a \in Admins, NEW id \in LogIds,
      DeleteNodeLog(a, id) PROVE LogsGetCompleted'
    BY <1>2 DEF LogsGetCompleted, TypeOK, DeleteNodeLog,
       tables, jobVars
<1>3. ASSUME NEW a \in Admins, Lock(a) PROVE LogsGetCompleted'
    BY <1>3, LockEffect DEF LogsGetCompleted, TypeOK,
       tables, jobVars
<1>4. ASSUME NEW a \in Admins, NewSecureShell(a) PROVE LogsGetCompleted'
    BY <1>4, NewSecureShellEffect DEF LogsGetCompleted, 
       TypeOK, tables, jobVars
<1>5. ASSUME NEW a \in Admins, InsertLog(a) PROVE LogsGetCompleted'
    <2>1. CASE InsertedLog(a)
        BY <1>5, <2>1, InsertLogEffect DEF InsertedLog, LogsGetCompleted, TypeOK
    <2>2. CASE ~InsertedLog(a)
        BY <1>5, <2>2, InsertLogEffect DEF LogsGetCompleted, TypeOK, tables
    <2>. QED  BY <2>1, <2>2
<1>6. ASSUME NEW a \in Admins, LaunchAnsibleContainer(a) PROVE LogsGetCompleted'
    BY <1>6, LaunchEffect DEF LogsGetCompleted, TypeOK,
       tables
<1>7. ASSUME NEW a \in Admins, LogUpdated(a) PROVE LogsGetCompleted'
    BY <1>7, LogUpdatedEffect DEF LogsGetCompleted, 
       TypeOK, tables, jobVars
<1>8. ASSUME NEW a \in Admins, RemoveCacheData(a) PROVE LogsGetCompleted'
    BY <1>8, RemoveCacheDataEffect DEF LogsGetCompleted, 
       TypeOK, tables, jobVars
<1>9. ASSUME NEW a \in Admins, DeleteLogRows(a) PROVE LogsGetCompleted'
    BY <1>9, DeleteLogRowsEffect DEF LogsGetCompleted, 
       TypeOK, jobVars
<1>10. ASSUME NEW a \in Admins, DeleteNodeLogDetail(a) PROVE LogsGetCompleted'
    BY <1>10, DeleteNodeLogDetailEffect DEF LogsGetCompleted, TypeOK, jobVars
<1>11. ASSUME NEW id \in LogIds, ContainerEnds(id) PROVE LogsGetCompleted'
    BY <1>11, ContainerEndsEffect DEF LogsGetCompleted, 
       TypeOK, tables, procVars
<1>12. ASSUME NEW id \in LogIds, GetNodeLog(id) PROVE LogsGetCompleted'
    BY <1>12, GetNodeLogEffect DEF LogsGetCompleted, TypeOK,
       tables, procVars
<1>13. ASSUME NEW id \in LogIds, UpdateNodeLog(id) PROVE LogsGetCompleted'
    BY <1>13, UpdateNodeLogEffect, LogsCompletedByUpdate
       DEF LogsGetCompleted, TypeOK, procVars
<1>14. ASSUME NEW id \in LogIds, InsertLogDetail(id) PROVE LogsGetCompleted'
    BY <1>14, StepEffect DEF LogsGetCompleted, TypeOK,
       InsertLogDetail, procVars
<1>15. ASSUME NEW id \in LogIds, NodeStatus(id) PROVE LogsGetCompleted'
    BY <1>15, StepEffect DEF LogsGetCompleted, TypeOK,
       NodeStatus, procVars
<1>16. ASSUME NEW id \in LogIds, Unlock(id) PROVE LogsGetCompleted'
    BY <1>16, StepEffect DEF LogsGetCompleted, TypeOK,
       Unlock, tables, procVars
<1>17. ASSUME NEW id \in LogIds, DeleteNode(id) PROVE LogsGetCompleted'
    BY <1>17, StepEffect DEF LogsGetCompleted, TypeOK,
       DeleteNode, tables, procVars
<1>18. ASSUME NEW ip \in Ips, Expire(ip) PROVE LogsGetCompleted'
    BY <1>18 DEF LogsGetCompleted, TypeOK, Expire,
       tables, jobVars, procVars
<1>20. ASSUME NEW id \in LogIds, UpdateLogFails(id) PROVE LogsGetCompleted'
    BY <1>20, UpdateLogFailsEffect DEF LogsGetCompleted, 
       TypeOK, tables, procVars
<1>21. ASSUME NEW ip \in Ips, RemoveNodeAction(ip) PROVE LogsGetCompleted'
    BY <1>21 DEF LogsGetCompleted, TypeOK, tables, jobVars,
       procVars, RemoveNodeAction
<1>19. CASE UNCHANGED vars
    BY <1>19 DEF LogsGetCompleted, TypeOK, vars, tables,
       jobVars, procVars
<1>. QED  BY <1>1, <1>2, <1>3, <1>4, <1>5, <1>6, <1>7, <1>8, <1>9, <1>10, <1>11, <1>12,
      <1>13, <1>14, <1>15, <1>16, <1>17, <1>18, <1>19, <1>20, <1>21
    DEF Next, NewRequest, Continue, Report

LEMMA LockHasOwnerNext ==
    ASSUME TypeOK, LaunchIsFresh, ActionsInOrder, LockHasOwner, [Next]_vars
    PROVE  LockHasOwner'
<1>1. ASSUME NEW a \in Admins, NEW ip \in Ips, NEW type \in ActionTypes,
      AddRemoveNode(a, ip, type) PROVE LockHasOwner'
    BY <1>1, AddRemoveNodeEffect DEF LockHasOwner, Handled, IsLast, Underway, TypeOK, tables,
       jobVars
<1>2. ASSUME NEW a \in Admins, NEW id \in LogIds,
      DeleteNodeLog(a, id) PROVE LockHasOwner'
    BY <1>2 DEF LockHasOwner, Handled, IsLast, Underway, TypeOK, DeleteNodeLog, tables,
       jobVars
<1>3. ASSUME NEW a \in Admins, Lock(a) PROVE LockHasOwner'
    BY <1>3, LockEffect DEF LockHasOwner, Handled, IsLast, Underway, TypeOK, tables, jobVars
<1>4. ASSUME NEW a \in Admins, NewSecureShell(a) PROVE LockHasOwner'
    BY <1>4, NewSecureShellEffect DEF LockHasOwner, Handled, IsLast, Underway, TypeOK, tables,
       jobVars
<1>5. ASSUME NEW a \in Admins, InsertLog(a) PROVE LockHasOwner'
    <2>1. \A id \in LogIds : job[id] # "none" => id < nextLog /\ log'[id] = log[id]
        BY <1>5, InsertLogEffect DEF LaunchIsFresh, TypeOK, LogIds
    <2>2. \A ip \in locked, b \in Admins : Handled(b, ip) => Handled(b, ip)'
        BY <1>5, InsertLogEffect DEF InsertedLog, Handled
    <2>3. \A ip \in locked : ip = req[a].ip => Handled(a, ip)
        BY <1>5, InsertLogEffect DEF Handled
    <2>4. ASSUME NEW id \in LogIds, job[id] # "none", IsLast(id), log[id].ip # req[a].ip
          PROVE  IsLast(id)'
        <3>1. CASE InsertedLog(a)
            BY <1>5, <2>1, <2>4, <3>1, InsertLogEffect DEF InsertedLog, IsLast, LogIds
        <3>2. CASE ~InsertedLog(a)
            BY <1>5, <2>4, <3>2, InsertLogEffect DEF IsLast, tables
        <3>. QED  BY <3>1, <3>2
    <2>. QED  BY <1>5, <2>1, <2>2, <2>3, <2>4, InsertLogEffect DEF LockHasOwner, Underway
<1>6. ASSUME NEW a \in Admins, LaunchAnsibleContainer(a) PROVE LockHasOwner'
    <2>1. IsLast(req[a].id)
        BY <1>6, LaunchEffect DEF ActionsInOrder
    <2>. QED  BY <1>6, <2>1, LaunchEffect DEF LockHasOwner, Handled, IsLast, Underway, TypeOK,
              tables
<1>7. ASSUME NEW a \in Admins, LogUpdated(a) PROVE LockHasOwner'
    BY <1>7, LogUpdatedEffect DEF LockHasOwner, Handled, IsLast, Underway, TypeOK, tables,
       jobVars
<1>8. ASSUME NEW a \in Admins, RemoveCacheData(a) PROVE LockHasOwner'
    BY <1>8, RemoveCacheDataEffect DEF LockHasOwner, Handled, IsLast, Underway, TypeOK,
       tables, jobVars
<1>9. ASSUME NEW a \in Admins, DeleteLogRows(a) PROVE LockHasOwner'
    BY <1>9, DeleteLogRowsEffect DEF LockHasOwner, Handled, IsLast, Underway, TypeOK, jobVars
<1>10. ASSUME NEW a \in Admins, DeleteNodeLogDetail(a) PROVE LockHasOwner'
    BY <1>10, DeleteNodeLogDetailEffect DEF LockHasOwner, Handled, IsLast, Underway, TypeOK,
       jobVars
<1>11. ASSUME NEW id \in LogIds, ContainerEnds(id) PROVE LockHasOwner'
    BY <1>11, ContainerEndsEffect DEF LockHasOwner, Handled, IsLast, Underway, TypeOK, tables,
       procVars
<1>12. ASSUME NEW id \in LogIds, GetNodeLog(id) PROVE LockHasOwner'
    BY <1>12, GetNodeLogEffect DEF LockHasOwner, Handled, IsLast, Underway, TypeOK, tables,
       procVars
<1>13. ASSUME NEW id \in LogIds, UpdateNodeLog(id) PROVE LockHasOwner'
    BY <1>13, UpdateNodeLogEffect DEF LockHasOwner, Handled, IsLast, Underway, TypeOK,
       procVars
<1>14. ASSUME NEW id \in LogIds, InsertLogDetail(id) PROVE LockHasOwner'
    BY <1>14, StepEffect DEF LockHasOwner, Handled, IsLast, Underway, TypeOK, InsertLogDetail,
       procVars
<1>15. ASSUME NEW id \in LogIds, NodeStatus(id) PROVE LockHasOwner'
    BY <1>15, StepEffect DEF LockHasOwner, Handled, IsLast, Underway, TypeOK, NodeStatus,
       procVars
<1>16. ASSUME NEW id \in LogIds, Unlock(id) PROVE LockHasOwner'
    BY <1>16, StepEffect DEF LockHasOwner, Handled, IsLast, Underway, TypeOK, Unlock, tables,
       procVars
<1>17. ASSUME NEW id \in LogIds, DeleteNode(id) PROVE LockHasOwner'
    BY <1>17, StepEffect DEF LockHasOwner, Handled, IsLast, Underway, TypeOK, DeleteNode,
       tables, procVars
<1>18. ASSUME NEW ip \in Ips, Expire(ip) PROVE LockHasOwner'
    BY <1>18 DEF LockHasOwner, Handled, IsLast, Underway, TypeOK, Expire, tables, jobVars,
       procVars
<1>20. ASSUME NEW id \in LogIds, UpdateLogFails(id) PROVE LockHasOwner'
    BY <1>20, UpdateLogFailsEffect DEF LockHasOwner, Handled, IsLast, Underway, TypeOK, tables,
       procVars
<1>21. ASSUME NEW ip \in Ips, RemoveNodeAction(ip) PROVE LockHasOwner'
    BY <1>21 DEF LockHasOwner, Handled, IsLast, Underway, TypeOK, tables, jobVars, procVars,
       RemoveNodeAction
<1>19. CASE UNCHANGED vars
    BY <1>19 DEF LockHasOwner, Handled, IsLast, Underway, TypeOK, vars, tables, jobVars,
       procVars
<1>. QED  BY <1>1, <1>2, <1>3, <1>4, <1>5, <1>6, <1>7, <1>8, <1>9, <1>10, <1>11, <1>12,
      <1>13, <1>14, <1>15, <1>16, <1>17, <1>18, <1>19, <1>20, <1>21
    DEF Next, NewRequest, Continue, Report

-----------------------------------------------------------------------------
(* Reports of success and the rows of node_status. *)

\* The report of success has reached node_status.
Reported(id) ==
    exit[id] /\ job[id] \in {"unlock", "deleteNode", "over"} /\ id \notin unrecorded

LastReportAdded(ip) ==
    \E id \in LogIds :
        /\ Reported(id) /\ log[id].ip = ip /\ log[id].type = "add"
        /\ \A j \in LogIds : Reported(j) /\ log[j].ip = ip => j <= id

StatusReported ==
    \A ip \in Ips : (\E s \in status : s[1] = ip) <=> LastReportAdded(ip)

\* A step that writes no status.
SameReports ==
    /\ status' = status
    /\ \A id \in LogIds :
        /\ Reported(id)' <=> Reported(id)
        /\ Reported(id) => log'[id].ip = log[id].ip /\ log'[id].type = log[id].type

LEMMA ReportsKept ==
    ASSUME TypeOK, LaunchIsFresh, [Next]_vars,
           \A id \in LogIds : ~NodeStatus(id)
    PROVE  SameReports
<1>1. ASSUME NEW a \in Admins, NEW ip \in Ips, NEW type \in ActionTypes,
      AddRemoveNode(a, ip, type) PROVE SameReports
    BY <1>1, AddRemoveNodeEffect DEF SameReports, Reported, TypeOK, tables, jobVars
<1>2. ASSUME NEW a \in Admins, NEW id \in LogIds,
      DeleteNodeLog(a, id) PROVE SameReports
    BY <1>2 DEF SameReports, Reported, TypeOK, DeleteNodeLog, tables, jobVars
<1>3. ASSUME NEW a \in Admins, Lock(a) PROVE SameReports
    BY <1>3, LockEffect DEF SameReports, Reported, TypeOK, tables, jobVars
<1>4. ASSUME NEW a \in Admins, NewSecureShell(a) PROVE SameReports
    BY <1>4, NewSecureShellEffect DEF SameReports, Reported, TypeOK, tables, jobVars
<1>5. ASSUME NEW a \in Admins, InsertLog(a) PROVE SameReports
    <2>1. \A i \in LogIds : exit[i] => log'[i] = log[i]
        BY <1>5, InsertLogEffect DEF LaunchIsFresh, TypeOK, LogIds
    <2>. QED  BY <1>5, <2>1, InsertLogEffect DEF SameReports, Reported
<1>6. ASSUME NEW a \in Admins, LaunchAnsibleContainer(a) PROVE SameReports
    <2>1. ~exit[req[a].id]
        BY <1>6, LaunchEffect DEF LaunchIsFresh
    <2>. QED  BY <1>6, <2>1, LaunchEffect DEF SameReports, Reported, tables
<1>7. ASSUME NEW a \in Admins, LogUpdated(a) PROVE SameReports
    BY <1>7, LogUpdatedEffect DEF SameReports, Reported, TypeOK, tables, jobVars
<1>8. ASSUME NEW a \in Admins, RemoveCacheData(a) PROVE SameReports
    BY <1>8, RemoveCacheDataEffect DEF SameReports, Reported, TypeOK, tables, jobVars
<1>9. ASSUME NEW a \in Admins, DeleteLogRows(a) PROVE SameReports
    BY <1>9, DeleteLogRowsEffect DEF SameReports, Reported, TypeOK, jobVars
<1>10. ASSUME NEW a \in Admins, DeleteNodeLogDetail(a) PROVE SameReports
    BY <1>10, DeleteNodeLogDetailEffect DEF SameReports, Reported, TypeOK, jobVars
<1>11. ASSUME NEW id \in LogIds, ContainerEnds(id) PROVE SameReports
    BY <1>11, ContainerEndsEffect DEF SameReports, Reported, TypeOK, tables, procVars
<1>12. ASSUME NEW id \in LogIds, GetNodeLog(id) PROVE SameReports
    BY <1>12, GetNodeLogEffect DEF SameReports, Reported, tables
<1>13. ASSUME NEW id \in LogIds, UpdateNodeLog(id) PROVE SameReports
    BY <1>13, UpdateNodeLogEffect DEF SameReports, Reported, TypeOK, procVars
<1>14. ASSUME NEW id \in LogIds, InsertLogDetail(id) PROVE SameReports
    BY <1>14, StepEffect DEF SameReports, Reported, TypeOK, InsertLogDetail, procVars
<1>15. ASSUME NEW id \in LogIds, NodeStatus(id) PROVE SameReports
    BY <1>15
<1>16. ASSUME NEW id \in LogIds, Unlock(id) PROVE SameReports
    BY <1>16, StepEffect DEF SameReports, Reported, TypeOK, Unlock, tables, procVars
<1>17. ASSUME NEW id \in LogIds, DeleteNode(id) PROVE SameReports
    BY <1>17, StepEffect DEF SameReports, Reported, TypeOK, DeleteNode, tables,
       procVars
<1>18. ASSUME NEW ip \in Ips, Expire(ip) PROVE SameReports
    BY <1>18 DEF SameReports, Reported, TypeOK, Expire, tables, jobVars, procVars
<1>20. ASSUME NEW id \in LogIds, UpdateLogFails(id) PROVE SameReports
    BY <1>20, UpdateLogFailsEffect DEF SameReports, Reported, TypeOK, tables, procVars
<1>21. ASSUME NEW ip \in Ips, RemoveNodeAction(ip) PROVE SameReports
    BY <1>21 DEF SameReports, Reported, TypeOK, tables, jobVars, procVars,
       RemoveNodeAction
<1>19. CASE UNCHANGED vars
    BY <1>19 DEF SameReports, Reported, TypeOK, vars, tables, jobVars, procVars
<1>. QED  BY <1>1, <1>2, <1>3, <1>4, <1>5, <1>6, <1>7, <1>8, <1>9, <1>10, <1>11, <1>12,
      <1>13, <1>14, <1>15, <1>16, <1>17, <1>18, <1>19, <1>20, <1>21
    DEF Next, NewRequest, Continue, Report

LEMMA StatusReportedNext ==
    ASSUME TypeOK, LaunchIsFresh, ActionsInOrder, ClusterFollows, StatusReported, [Next]_vars
    PROVE  StatusReported'
<1>1. CASE \A id \in LogIds : ~NodeStatus(id)
    BY <1>1, ReportsKept DEF SameReports, StatusReported, LastReportAdded
<1>2. ASSUME NEW id \in LogIds, NodeStatus(id), unrecorded' = unrecorded \cup {id}, status' = status
      PROVE  StatusReported'
    <2>1. /\ UNCHANGED <<log, exit>>
          /\ \A j \in LogIds : Reported(j)' <=> Reported(j)
        BY <1>2, StepEffect DEF NodeStatus, Reported
    <2>. QED  BY <1>2, <2>1 DEF StatusReported, LastReportAdded
<1>3. ASSUME NEW id \in LogIds, NodeStatus(id), unrecorded' = unrecorded, id \notin unrecorded,
             status' = IF log[id].type = "add"
                       THEN status \cup {<<log[id].ip, log[id].time>>}
                       ELSE {s \in status : s[1] # log[id].ip}
      PROVE  StatusReported'
    <2>1. /\ Underway(id) /\ UNCHANGED <<log, exit>> /\ log[id].ip \in Ips
          /\ Reported(id)' /\ \A j \in LogIds : j # id => (Reported(j)' <=> Reported(j))
        BY <1>3, StepEffect DEF NodeStatus, Underway, Reported, ClusterFollows, TypeOK, NodeLog
    <2>2. \A j \in LogIds : Reported(j) => j < nextLog
        BY DEF Reported, LaunchIsFresh, TypeOK, LogIds
    <2>3. \A j \in LogIds : Reported(j)' /\ log[j].ip = log[id].ip => j <= id
        BY <2>1, <2>2 DEF ActionsInOrder, IsLast, LogIds
    <2>4. ASSUME NEW ip \in Ips, ip # log[id].ip
          PROVE  (\E s \in status' : s[1] = ip) <=> LastReportAdded(ip)'
        <3>1. (\E s \in status' : s[1] = ip) <=> (\E s \in status : s[1] = ip)
            BY <1>3, <2>4
        <3>2. LastReportAdded(ip)' <=> LastReportAdded(ip)
            BY <2>1, <2>4 DEF LastReportAdded
        <3>. QED  BY <3>1, <3>2 DEF StatusReported
    <2>5. LastReportAdded(log[id].ip)' <=> log[id].type = "add"
        BY <2>1, <2>3 DEF LastReportAdded, LogIds
    <2>6. (\E s \in status' : s[1] = log[id].ip) <=> log[id].type = "add"
        <3>1. CASE log[id].type = "add"
            <4>1. <<log[id].ip, log[id].time>> \in status'
                BY <1>3, <3>1
            <4>. QED  BY <3>1, <4>1
        <3>2. CASE log[id].type # "add"
            BY <1>3, <3>2
        <3>. QED  BY <3>1, <3>2
    <2>. QED  BY <2>1, <2>4, <2>5, <2>6 DEF StatusReported
<1>4. ASSUME NEW id \in LogIds, NodeStatus(id) PROVE StatusReported'
    <2>1. id \notin unrecorded
        BY <1>4 DEF NodeStatus, Step, ClusterFollows
    <2>. QED  BY <1>2, <1>3, <1>4, <2>1 DEF NodeStatus
<1>. QED  BY <1>1, <1>4

\* Of a node at rest every report has been told.
LEMMA ReportedIsHeard ==
    ASSUME TypeOK, LaunchIsFresh, StatusReported
    PROVE  StatusFollowsReports
<1>. SUFFICES ASSUME NEW ip \in Ips, \A id \in LogIds : Underway(id) => log[id].ip # ip
              PROVE  (\E s \in status : s[1] = ip)
                     <=> \E id \in LogIds :
                             /\ Heard(id) /\ log[id].ip = ip /\ log[id].type = "add"
                             /\ \A j \in LogIds : Heard(j) /\ log[j].ip = ip => j <= id
    BY DEF StatusFollowsReports
<1>1. \A id \in LogIds : log[id].ip = ip => (Reported(id) <=> Heard(id))
    BY DEF Reported, Heard, Underway, LaunchIsFresh, TypeOK, LogIds
<1>. QED  BY <1>1 DEF StatusReported, LastReportAdded


-----------------------------------------------------------------------------
(* The theorems. *)

LEMMA TypeInit == NodeManagerAssumption /\ Init => TypeOK
BY NullTyped DEF Init, TypeOK, NullLog, NodeLog, Jobs, PCs, LogIds, Times, ActionTypes,
                 NodeManagerAssumption

\* The tables, the cache, the containers and the requests' local variables
\* keep their types.
THEOREM NodeManagerTypeCorrect == Spec => []TypeOK
BY NodeManagerAssumption, TypeInit, TypeNext, PTL DEF Spec

\* What holds together: a request has its node to itself until the container
\* is launched, and from then on the action has, the last of the node.
LockInv ==
    /\ TypeOK /\ Exclusive /\ OneActionPerNode /\ LockHeld /\ LaunchIsFresh
    /\ ActionsInOrder

LEMMA LockInvInit == NodeManagerAssumption /\ Init => LockInv
<1>. SUFFICES ASSUME NodeManagerAssumption, Init PROVE LockInv
    OBVIOUS
<1>1. TypeOK
    BY TypeInit
<1>2. \A id \in LogIds : ~Underway(id)
    BY DEF Init, Underway
<1>3. \A a \in Admins : pc[a] = "idle"
    BY DEF Init
<1>. QED  BY <1>1, <1>2, <1>3 DEF Init, LockInv, Exclusive, OneActionPerNode, LockHeld,
                                  LaunchIsFresh, ActionsInOrder, Handled

LEMMA LockInvNext ==
    ASSUME NodeManagerAssumption, ~Overlap, LockInv, [Next]_vars
    PROVE  LockInv'
BY TypeNext, ExclusiveNext, OneActionPerNodeNext, LockHeldNext, LaunchIsFreshNext,
   ActionsInOrderNext
   DEF LockInv

\* Of a node, one action is underway at a time: the entry in the cache that a
\* request makes lasts until the report of its container.
THEOREM OneActionAtATime == ASSUME ~Overlap PROVE Spec => []OneActionPerNode
<1>1. LockInv => OneActionPerNode
    BY DEF LockInv
<1>. QED  BY <1>1, NodeManagerAssumption, LockInvInit, LockInvNext, PTL DEF Spec

\* node_status lists nodes that are in the cluster or have left it in one of the
\* three ways that gone names.
THEOREM StatusIsTrue == ASSUME ~Overlap PROVE Spec => []StatusInCluster
<1>. DEFINE Inv == LockInv /\ ClusterFollows /\ StatusInCluster
<1>1. Init => Inv
    <2>. SUFFICES ASSUME Init PROVE Inv
        OBVIOUS
    <2>1. LockInv
        BY NodeManagerAssumption, LockInvInit
    <2>. QED  BY <2>1 DEF Init, ClusterFollows, StatusInCluster, Removing
<1>2. Inv /\ [Next]_vars => Inv'
    <2>. SUFFICES ASSUME Inv, [Next]_vars PROVE Inv'
        OBVIOUS
    <2>1. LockInv'
        BY NodeManagerAssumption, LockInvNext
    <2>2. ClusterFollows'
        BY <2>1, NodeManagerAssumption, ClusterFollowsNext DEF LockInv
    <2>3. StatusInCluster'
        BY <2>1, NodeManagerAssumption, StatusInClusterNext DEF LockInv
    <2>. QED  BY <2>1, <2>2, <2>3
<1>. QED  BY <1>1, <1>2, PTL DEF Spec

\* A log that is not completed is completed by UpdateNodeLog, unless the
\* container's callback does not come or UpdateLog returns an error before: no
\* request forgets it.
THEOREM LogsAreCompleted == ASSUME ~Overlap PROVE Spec => []LogsGetCompleted
<1>. DEFINE Inv == LockInv /\ LogsGetCompleted
<1>1. Init => Inv
    BY NodeManagerAssumption, LockInvInit DEF Init, LogsGetCompleted
<1>2. Inv /\ [Next]_vars => Inv'
    BY NodeManagerAssumption, LockInvNext, LogsGetCompletedNext DEF LockInv
<1>. QED  BY <1>1, <1>2, PTL DEF Spec

\* The entry of the cache that locks a node is somebody's to remove: a request's,
\* or the container's or callback's of the node's last action, unless that was not
\* heard of or its UpdateLog returned an error.
THEOREM LockIsOwned == ASSUME ~Overlap PROVE Spec => []LockHasOwner
<1>. DEFINE Inv == LockInv /\ LockHasOwner
<1>1. Init => Inv
    BY NodeManagerAssumption, LockInvInit DEF Init, LockHasOwner
<1>2. Inv /\ [Next]_vars => Inv'
    BY NodeManagerAssumption, LockInvNext, LockHasOwnerNext DEF LockInv
<1>. QED  BY <1>1, <1>2, PTL DEF Spec

\* node_status says of a node at rest what the last action has done whose success
\* got there: two reports of one node are told in the order of their logs.
THEOREM StatusIsReported == ASSUME ~Overlap PROVE Spec => []StatusFollowsReports
<1>. DEFINE Inv == LockInv /\ ClusterFollows /\ StatusReported
<1>1. Init => Inv
    <2>. SUFFICES ASSUME Init PROVE Inv
        OBVIOUS
    <2>1. LockInv
        BY NodeManagerAssumption, LockInvInit
    <2>2. \A id \in LogIds : ~Reported(id) /\ ~Removing(id) /\ job[id] = "none"
        BY DEF Init, Reported, Removing
    <2>. QED  BY <2>1, <2>2 DEF Init, ClusterFollows, StatusReported, LastReportAdded
<1>2. Inv /\ [Next]_vars => Inv'
    <2>. SUFFICES ASSUME Inv, [Next]_vars PROVE Inv'
        OBVIOUS
    <2>1. LockInv'
        BY NodeManagerAssumption, LockInvNext
    <2>2. ClusterFollows'
        BY <2>1, NodeManagerAssumption, ClusterFollowsNext DEF LockInv
    <2>3. StatusReported'
        BY StatusReportedNext DEF LockInv
    <2>. QED  BY <2>1, <2>2, <2>3
<1>3. Inv => StatusFollowsReports
    BY ReportedIsHeard DEF LockInv
<1>. QED  BY <1>1, <1>2, <1>3, PTL DEF Spec

==============================================================================
