--------------------------- MODULE MCRoutingNode ----------------------------
(***************************************************************************)
(* Small instances of RoutingNode: e1 and e2 are plain endpoints, e1m is   *)
(* the IPv4-mapped spelling of e1; i1 and i2 are instances of one worker.  *)
(***************************************************************************)
EXTENDS RoutingNode

CONSTANTS i1, i2, e1, e2, e1m, web, c0, c1, Revisions

MCApplications == [o \in Owners |-> {web}]
MCCanonical == Endpoints \ {e1m}
MCSocket == [e \in Endpoints |-> IF e = e1m THEN e1 ELSE e]
MCInitialCredential == [o \in Owners |-> c0]

\* Well-formed snapshots of two incarnations, with a few revisions.
MCRecords ==
    [app : {web}, endpoint : Endpoints, revision : Revisions, deleted : BOOLEAN]

MCOffers ==
    [incarnation : {1, 2}, revision : Revisions,
     records : [Ids -> MCRecords \cup {None}]]

\* The snapshots of a worker whose first instance is at e1 and that adds a
\* second one at e2.
MCGrowingOffers ==
    {offer \in MCOffers :
        /\ offer.records[i1] # None => offer.records[i1].endpoint = e1
        /\ offer.records[i2] # None =>
              /\ offer.records[i1] # None
              /\ offer.records[i2].endpoint = e2
              /\ offer.records[i2].revision = offer.revision
              /\ ~offer.records[i2].deleted}
=============================================================================
