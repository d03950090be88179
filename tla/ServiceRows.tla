----------------------------- MODULE ServiceRows -----------------------------
(***************************************************************************)
(* What the table service_status promises to its readers: each service has *)
(* an id of its own, and a status that moves only as follows.              *)
(*                                                                         *)
(*   - a service is registered as "preparing" (it is being deployed, or    *)
(*     its yaml files were uploaded) or as "running" (it was imported);    *)
(*   - deploying it makes it "uncompleted", until it is observed to run;   *)
(*   - observing the cluster moves a service only among the statuses of a  *)
(*     service that is meant to run: it never reveals a preparing service  *)
(*     and never revives a stopped one;                                    *)
(*   - "stopped" is entered and left on a user's demand;                   *)
(*   - a service that was removed is gone for good.                        *)
(***************************************************************************)
CONSTANT Ids

VARIABLES status, used

vars == <<status, used>>

Observed == {"running", "uncompleted", "unknown", "autonomousOffline"}

Statuses == Observed \cup {"none", "preparing", "stopped"}

Init ==
    /\ status = [id \in Ids |-> "none"]
    /\ used = {}

Becomes(id, s) == status' = [status EXCEPT ![id] = s] /\ UNCHANGED used

Register(id) ==
    /\ id \notin used
    /\ used' = used \cup {id}
    /\ \E s \in {"preparing", "running"} : status' = [status EXCEPT ![id] = s]

Deployed(id) == status[id] = "preparing" /\ Becomes(id, "uncompleted")

Observe(id) ==
    /\ status[id] \in Observed
    /\ \E s \in Observed : Becomes(id, s)

Start(id) ==
    /\ status[id] \notin {"none", "running"}
    /\ Becomes(id, "running")

Stop(id) ==
    /\ status[id] \notin {"none", "stopped"}
    /\ Becomes(id, "stopped")

Remove(id) == status[id] # "none" /\ Becomes(id, "none")

Next ==
    \E id \in Ids :
        \/ Register(id)
        \/ Deployed(id)
        \/ Observe(id)
        \/ Start(id)
        \/ Stop(id)
        \/ Remove(id)

Spec == Init /\ [][Next]_vars
=============================================================================
