-------------------------------- MODULE MCHelm --------------------------------
(***************************************************************************)
(* A small instance of Helm for TLC: two requests at a time, one chart in  *)
(* a museum, of which the second version, a pre-release, adds a stateful   *)
(* set.                                                                    *)
(***************************************************************************)
EXTENDS Helm

CONSTANTS c1, c2, admin, dev, p1, p2, n1, n2, web, db, museum

MCMembers == [p \in Projects |-> {admin, dev}]
MCOwner   == [p \in Projects |-> dev]

Pair(kind, name) == {[kind |-> kind, name |-> name], [kind |-> "Service", name |-> name]}

MCCharts ==
    {[name |-> 1, version |-> 1, form |-> "release", infos |-> Pair("Deployment", web)],
     [name |-> 1, version |-> 2, form |-> "pre", infos |-> Pair("Deployment", web) \cup Pair("StatefulSet", db)]}

\* The projects have the same members and owner.
Symmetry == Permutations(Clients) \cup Permutations(Projects)
================================================================================
