----------------------------- MODULE ObjectVolume -----------------------------
(***************************************************************************)
(* The object store and the growth controller on one volume, with the      *)
(* operator who unmounts and mounts it, other volumes that take space of   *)
(* the group, and failures of either program, of a request or of power.    *)
(***************************************************************************)
EXTENDS ObjectStore, Grow

CONSTANT VolumeFaults   \* what may go wrong

vars == <<volumeVars, storeVars, growVars>>

VolumesTypeOK == VolumeTypeOK /\ StoreTypeOK /\ GrowTypeOK

Init == VolumeInit /\ StoreInit /\ GrowInit

May(fault) == fault \in VolumeFaults

Unmount ==
    /\ May("unmount")
    /\ mounted
    /\ CanDetach
    /\ mounted' = FALSE
    /\ Detached
    /\ UNCHANGED <<lv, fs, ballast, growVars>>

Mount ==
    /\ ~mounted
    /\ mounted' = TRUE
    /\ UNCHANGED <<lv, fs, ballast, storeVars, growVars>>

PowerFails ==
    /\ May("power")
    /\ StoreLosesPower
    /\ mounted' = FALSE
    /\ call' = None
    /\ UNCHANGED <<lv, fs, ballast, rows>>

StoreStep(s) == PutStep(s) /\ UNCHANGED <<volumeVars, growVars>>

Upload(s, id) == Begin(s, id) /\ UNCHANGED <<volumeVars, growVars>>

StoreStarts == ServiceStarts /\ UNCHANGED <<volumeVars, growVars>>

StoreFails ==
    /\ \/ May("request") /\ \E s \in Slots : PutFails(s)
       \/ May("service") /\ ServiceDies
    /\ UNCHANGED <<volumeVars, growVars>>

Grows(c) == (Intend(c, Used) \/ Resume(c)) /\ UNCHANGED storeVars

GrowStep == CallStep /\ UNCHANGED storeVars

GrowFails ==
    /\ May("controller")
    /\ CallDies \/ ResizeCut
    /\ UNCHANGED storeVars

Space ==
    /\ May("space")
    /\ TakeSpace \/ ReturnSpace
    /\ UNCHANGED <<storeVars, growVars>>

Next ==
    \/ \E s \in Slots, id \in Objects : Upload(s, id)
    \/ \E s \in Slots : StoreStep(s)
    \/ StoreStarts
    \/ StoreFails
    \/ \E c \in Calls : Grows(c)
    \/ GrowStep
    \/ GrowFails
    \/ Unmount
    \/ Mount
    \/ PowerFails
    \/ Space

Spec == Init /\ [][Next]_vars

\* Both programs go on and are started again, the watch mode is one of the
\* calls, the operator mounts what is not mounted, and whoever wants an object
\* stored repeats the PUT.
Watch == \E c \in Calls : c.id = None /\ c.target = 0 /\ Grows(c)

FairSpec ==
    /\ Spec
    /\ \A s \in Slots : WF_vars(StoreStep(s))
    /\ \A id \in Objects : SF_vars(\E s \in Slots : Upload(s, id))
    /\ WF_vars(StoreStarts)
    /\ WF_vars(Watch)
    /\ WF_vars(GrowStep)
    /\ WF_vars(Mount)

-----------------------------------------------------------------------------
Disturbed ==
    \/ StoreFails /\ ~\E s \in Slots : StoreStep(s)
    \/ GrowFails /\ ~GrowStep
    \/ Unmount
    \/ PowerFails

\* A PUT that is repeated is acknowledged at last, however full the volume was
\* and wherever earlier PUTs and growth operations have stopped: the growth
\* controller makes the room that the store waits for.  It needs that failures
\* cease and that the group has the space.
PutsArrive ==
    <>[][~Disturbed]_vars /\ <>[](ballast = 0) =>
        \A id \in Objects :
            <>(\E a \in acknowledged : a.id = id /\ a.place = "volume")
=============================================================================
