--------------------------- MODULE MCProxyDynamic ---------------------------
(***************************************************************************)
(* Small instances of ProxyDynamic.                                        *)
(***************************************************************************)
EXTENDS ProxyDynamic

CONSTANTS w1, w2, e1, e2, web, c0

MCApplications == [o \in Owners |-> {web}]
MCSocket == [e \in Endpoints |-> e]
MCInitialCredential == [o \in Owners |-> c0]

Rec(e, revision, deleted) ==
    [app |-> web, endpoint |-> e, revision |-> revision, deleted |-> deleted]

Snap(incarnation, revision, record) ==
    [incarnation |-> incarnation, revision |-> revision,
     records |-> [i \in Ids |-> record]]

\* Two workers.  The first registers i1, deletes it, and is then restored and
\* recovered, with the deletion, before it has published it; the second
\* registers one instance.
MCHistory ==
    [o \in Owners |->
        IF o = w1
        THEN <<Snap(1, 2, Rec(e1, 2, FALSE)), Snap(2, 4, Rec(e1, 3, TRUE))>>
        ELSE <<Snap(1, 2, Rec(e2, 2, FALSE))>>]
=============================================================================
