----------------------------- MODULE AtomicNode -----------------------------
(***************************************************************************)
(* A routing node that handles a request in one step: no lock, no          *)
(* temporary file, no phases of a save.  All that failures leave of those  *)
(* is a set of states of which the next start finds one.                   *)
(***************************************************************************)
CONSTANTS
    None,            \* no state: the node is down
    Empty,           \* the state of a new node
    Handles(_, _),   \* one request leads from the first state to the second
    AtRestart(_)     \* what a state found at the start is served as

VARIABLES
    view,  \* what readers are served, None while the node is down
    kept   \* the states that a restart may find

AtomicInit == view = Empty /\ kept = {Empty}

\* The effect of a request becomes something that a restart may find,
\* whatever becomes of the request.
Attempt ==
    /\ view # None
    /\ \E t \in kept' \ kept : kept' = kept \cup {t} /\ Handles(view, t)
    /\ UNCHANGED view

\* Some of the states can no longer be found.
Settle ==
    /\ kept' # {}
    /\ kept' \subseteq kept
    /\ UNCHANGED view

\* A request is answered and served: all of it, and nothing else, is what any
\* restart would find.
Serve ==
    /\ view # None
    /\ view' # view
    /\ kept = {view'}
    /\ Handles(view, view')
    /\ UNCHANGED kept

Stop ==
    /\ view' = None
    /\ kept' # {}
    /\ kept' \subseteq kept

Start ==
    /\ view = None
    /\ \E t \in kept : view' = AtRestart(t)
    /\ UNCHANGED kept

AtomicNext == Attempt \/ Settle \/ Serve \/ Stop \/ Start

AtomicSpec == AtomicInit /\ [][AtomicNext]_<<view, kept>>
=============================================================================
