------------------------------ MODULE MCWorker ------------------------------
(***************************************************************************)
(* Small instances of Worker: one worker of ours, one or two instances.    *)
(***************************************************************************)
EXTENDS Worker

CONSTANTS w1, w2, i1, i2, e1, e2, e3, web, c0

MCApplications == [o \in Owners |-> {web}]
MCSocket == [e \in Endpoints |-> e]
MCInitialCredential == [o \in Owners |-> c0]
MCWorkloads ==
    [i \in Ids |-> [app |-> web, endpoint |-> IF i = i1 THEN e1 ELSE e2]]

\* Another worker, with one instance, was here first.
MCOtherWorker ==
    LET record == [app |-> web, endpoint |-> e3, revision |-> 2, deleted |-> FALSE]
        snapshot == [incarnation |-> 1, revision |-> 2,
                     records |-> [i \in Ids |-> IF i = i1 THEN record ELSE None]]
    IN Uncounted(Accepted(EmptyState, w2, snapshot))
=============================================================================
