---------------------------- MODULE MCObjectVolume ----------------------------
(***************************************************************************)
(* A small instance of ObjectVolume.  The first call is the watch mode;    *)
(* the others name an operation, with a target and without one.            *)
(***************************************************************************)
EXTENDS ObjectVolume

CONSTANT g1

MCCalls ==
    {[id |-> None, target |-> 0, maximum |-> 3],
     [id |-> g1, target |-> 2, maximum |-> 3],
     [id |-> g1, target |-> 0, maximum |-> 2]}
=============================================================================
