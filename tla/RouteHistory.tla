---------------------------- MODULE RouteHistory ----------------------------
(***************************************************************************)
(* What a routing node promises its publishers and readers, without locks, *)
(* files or phases: an acknowledged history that only ever grows, and a    *)
(* view, absent while the node is down, that always contains it and never  *)
(* routes one socket to two instances.                                     *)
(***************************************************************************)
EXTENDS RoutingState

VARIABLES
    history,  \* everything acknowledged so far
    view      \* what readers are served, None while the node is down

HistoryInit == history = EmptyState /\ view = EmptyState

\* An update is acknowledged and served in one step.
Commit ==
    /\ view # None
    /\ history' \in State
    /\ Extends(history, history')
    /\ Extends(view, history')
    /\ Exclusive(history')
    /\ view' = history'

Stop == view' = None /\ UNCHANGED history

\* A restarted node may serve more than was acknowledged, never less.
Start ==
    /\ view = None
    /\ view' \in State
    /\ Extends(history, view')
    /\ Exclusive(view')
    /\ UNCHANGED history

HistoryNext == Commit \/ Stop \/ Start

HistorySpec == HistoryInit /\ [][HistoryNext]_<<history, view>>
=============================================================================
