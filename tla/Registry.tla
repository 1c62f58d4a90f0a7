------------------------------ MODULE Registry ------------------------------
(***************************************************************************)
(* A worker and its routing nodes as one registry of instances.  The       *)
(* worker registers an instance and later deletes it, for good; each       *)
(* router follows what the worker intends, at its own pace and never       *)
(* ahead of it.  A recovery suspends the worker's intent, and ends with    *)
(* one that takes back nothing a router has learned.                       *)
(***************************************************************************)
CONSTANTS
    Ids,      \* instances
    Routers,  \* routing nodes
    None      \* no intent: the worker is being recovered

VARIABLES
    intended,  \* by instance: how far the worker wants it, or None
    routed     \* by router and instance: how far the router has it

Stage == {"absent", "live", "deleted"}

Stages == [Ids -> Stage]

\* An instance comes up once and goes down once.
Advances(old, new) ==
    \A i \in Ids : old[i] = new[i] \/ old[i] = "absent" \/ new[i] = "deleted"

RegistryInit ==
    /\ intended = [i \in Ids |-> "absent"]
    /\ routed = [r \in Routers |-> [i \in Ids |-> "absent"]]

Register(i) ==
    /\ intended # None
    /\ intended[i] = "absent"
    /\ intended' = [intended EXCEPT ![i] = "live"]
    /\ UNCHANGED routed

Delete(i) ==
    /\ intended # None
    /\ intended[i] = "live"
    /\ intended' = [intended EXCEPT ![i] = "deleted"]
    /\ UNCHANGED routed

\* Router r learns of some of what is intended, or, during a recovery, of some
\* of what was.
Publish(r) ==
    /\ \A q \in Routers \ {r} : routed'[q] = routed[q]
    /\ Advances(routed[r], routed'[r])
    /\ intended # None => Advances(routed'[r], intended)
    /\ UNCHANGED intended

Suspend ==
    /\ intended # None
    /\ intended' = None
    /\ UNCHANGED routed

Resume ==
    /\ intended = None
    /\ intended' \in Stages
    /\ \A r \in Routers : Advances(routed[r], intended')
    /\ UNCHANGED routed

RegistryNext ==
    \/ \E i \in Ids : Register(i) \/ Delete(i)
    \/ \E r \in Routers : Publish(r)
    \/ Suspend
    \/ Resume

RegistrySpec == RegistryInit /\ [][RegistryNext]_<<intended, routed>>
=============================================================================
