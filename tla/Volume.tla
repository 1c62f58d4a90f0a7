-------------------------------- MODULE Volume --------------------------------
(***************************************************************************)
(* The data volume that the object store writes to and the growth          *)
(* controller extends: a logical volume of a volume group with a file      *)
(* system on it, mounted or not.  Sizes count units of one object; the     *)
(* extents of LVM, the blocks of the file system and what it needs for     *)
(* itself are left out.                                                    *)
(***************************************************************************)
EXTENDS Integers, FiniteSets

CONSTANTS
    None,
    InitialSize,   \* the size the laboratory creates the volume with
    GroupSize      \* the size of the volume group

ASSUME VolumeAssumption ==
    /\ InitialSize \in Nat
    /\ GroupSize \in Nat
    /\ InitialSize <= GroupSize

VARIABLES
    mounted,   \* the file system is mounted at the store's root
    lv,        \* size of the logical volume
    fs,        \* size of the file system
    ballast    \* space of the volume group that other volumes hold

volumeVars == <<mounted, lv, fs, ballast>>

VolumeTypeOK ==
    /\ mounted \in BOOLEAN
    /\ lv \in Nat
    /\ fs \in Nat
    /\ ballast \in Nat

VolumeInit ==
    /\ mounted = TRUE
    /\ lv = InitialSize
    /\ fs = InitialSize
    /\ ballast = 0

Free == GroupSize - lv - ballast

\* Another volume takes all that is free, or gives it back.
TakeSpace ==
    /\ ballast = 0
    /\ ballast' = Free
    /\ UNCHANGED <<mounted, lv, fs>>

ReturnSpace ==
    /\ ballast # 0
    /\ ballast' = 0
    /\ UNCHANGED <<mounted, lv, fs>>

\* What is in the directory while the volume is not mounted is another place.
Here == IF mounted THEN "volume" ELSE "plain"
=============================================================================
