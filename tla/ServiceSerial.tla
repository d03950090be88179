----------------------------- MODULE ServiceSerial -----------------------------
(***************************************************************************)
(* Why the services of ServiceLifecycle are in order when requests do not  *)
(* overlap: the inductive invariant behind ClusterObjectsAreOwned and      *)
(* RowsImplemented, in terms of how far the one request at work has come.  *)
(***************************************************************************)
EXTENDS ServiceLifecycle

\* What the argument needs of an instance.  StatefulSets are left out
\* (stopping one stops a Deployment), and so are the three failures after
\* which the code gives up in the middle: a compensating delete that fails,
\* a service.yaml that cannot be fetched, a push that fails when the started
\* service runs already.
SerialInstance ==
    /\ ~Overlap
    /\ Requests \cap {"deployStatefulSet", "deleteStatefulSet"} = {}
    /\ Faults \cap {"undo", "fetchService", "startPush"} = {}

OneAtATime == \A u, v \in Users : ~Idle(u) /\ ~Idle(v) => u = v

NoStatefulSets == \A n \in Names : sts[n] = "absent"

\* The row the request read is still there.
OwnRow(u) == req[u].id \in live /\ row[req[u].id].name = req[u].name

Gone(n) == dep[n] \notin LiveStates /\ n \notin svc

\* A deployment owns a preparing row; a start, a row that is not running.
DeployPhase(u) ==
    pc[u] \in {"createWorkload", "createService", "undo", "push", "mark"} =>
        /\ req[u].op \in {"deploy", "start"}
        /\ OwnRow(u)
        /\ req[u].op = "deploy" => row[req[u].id].status = "preparing"
        /\ req[u].op = "start" => row[req[u].id].status # "running"

\* A stop has a row that is not stopped; the workload goes before the
\* k8s Service, and both before the row says "stopped".
StopPhase(u) ==
    pc[u] \in {"deleteWorkload", "deleteService", "markStopped"} =>
        /\ req[u].op \in {"stop", "delete", "cancel"}
        /\ req[u].op # "cancel" =>
             OwnRow(u) /\ row[req[u].id].status # "stopped"
        /\ pc[u] \in {"deleteService", "markStopped"} =>
             dep[req[u].name] \notin LiveStates
        /\ pc[u] = "markStopped" =>
             req[u].op = "stop" /\ req[u].name \notin svc

\* A row is deleted when its objects are, or when it had none.
RemovePhase(u) ==
    pc[u] \in {"hpaList", "hpaDelete", "hpaDeleteDb", "deleteRow", "cancelRow"} =>
        /\ req[u].op = "delete" =>
             /\ OwnRow(u)
             /\ row[req[u].id].status = "stopped" \/ Gone(req[u].name)
        /\ pc[u] \in {"hpaList", "deleteRow"} => req[u].op = "delete"
        /\ pc[u] = "hpaDelete" => req[u].op = "delete" \/ req[u].names # {}
        /\ pc[u] = "cancelRow" => Gone(req[u].name)

Observed == {"running", "uncompleted", "unknown", "autonomousOffline"}

SyncCalls == {"sync", "syncService", "syncWrite"}

\* The snapshot of a list still tells the truth, and the row the list is
\* about to write is neither preparing nor stopped.
SyncPhase(u) ==
    /\ pc[u] \notin SyncCalls => todo[u] = {}
    /\ \A item \in todo[u] :
        /\ item[1] \in live
        /\ row[item[1]].status = item[2]
        /\ item[2] # "preparing"
    /\ pc[u] \in SyncCalls \ {"sync"} =>
        /\ req[u].id \in live
        /\ row[req[u].id].status \in Observed
        /\ req[u].status \in Observed
        /\ \A item \in todo[u] : item[1] # req[u].id

\* The inductive invariant: every row, and every object of the cluster, is
\* accounted for at each call of whatever request is at work.
SerialInv ==
    /\ OneAtATime
    /\ FreshIds
    /\ NoStatefulSets
    /\ ClusterObjectsAreOwned
    /\ \A u \in Users : DeployPhase(u) /\ StopPhase(u) /\ RemovePhase(u) /\ SyncPhase(u)
=============================================================================
