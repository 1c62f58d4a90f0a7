--------------------------------- MODULE Grow ---------------------------------
(***************************************************************************)
(* The growth controller (cmd/grow/main.go).  A call records an operation  *)
(* with its absolute target, extends the logical volume, resizes the file  *)
(* system, looks at both and marks the operation done.  A call that finds  *)
(* a pending operation brings that one to its end instead.                 *)
(*                                                                         *)
(* A call holds the flock of grow.lock; one that does not get it, or that  *)
(* is refused before it records anything, changes nothing and is no step   *)
(* here.  The watch mode is a call without operation and target again and  *)
(* again.  Rounding to extents is a matter of units.                       *)
(***************************************************************************)
EXTENDS Volume, Sequences

CONSTANTS
    Calls,       \* the calls that are made: [id, target, maximum]
    Increment,   \* growth at the threshold (500 MiB)
    Threshold,   \* percent of the file system in use
    Reserve      \* space of the group an operation has to leave

Call == [id : {c.id : c \in Calls}, target : Nat, maximum : Nat]

ASSUME GrowAssumption ==
    /\ \A c \in Calls : c.target \in Nat /\ c.maximum \in Nat
    /\ Increment \in Nat /\ Reserve \in Nat
    /\ Threshold \in 1 .. 100

VARIABLES
    rows,   \* the operations table, in the order of rowid
    call    \* the call that holds the lock, or None

growVars == <<rows, call>>

Operation == [id : {c.id : c \in Calls}, target : Nat, done : BOOLEAN]

Running == [row : Nat, current : Nat, step : {"extend", "resize", "complete"}]

GrowTypeOK ==
    /\ rows \in Seq(Operation)
    /\ call \in Running \cup {None}

GrowInit == rows = <<>> /\ call = None

-----------------------------------------------------------------------------
Pending == {k \in DOMAIN rows : ~rows[k].done}

Recorded(id) == id # None /\ \E k \in DOMAIN rows : rows[k].id = id

OverThreshold(used) == 100 * used >= Threshold * fs

\* An explicit target, or one increment once the threshold is crossed.
Wanted(c) == IF c.target # 0 THEN c.target ELSE lv + Increment

Room(wanted) == wanted - lv + Reserve <= Free

Holding(row) == [row |-> row, current |-> lv, step |-> "extend"]

\* Mutant of CanIntend: what is pending is not looked for.
CanIntendAnother(c, used) ==
    /\ ~Recorded(c.id)
    /\ c.target = 0 => OverThreshold(used)
    /\ Wanted(c) >= lv
    /\ Wanted(c) <= c.maximum
    /\ Room(Wanted(c))

CanIntend(c, used) ==
    /\ ~Recorded(c.id)
    /\ Pending = {}
    /\ c.target = 0 => OverThreshold(used)
    /\ Wanted(c) >= lv
    /\ Wanted(c) <= c.maximum
    /\ Room(Wanted(c))

\* The intent is recorded before anything is changed.
Intend(c, used) ==
    /\ call = None
    /\ mounted
    /\ CanIntend(c, used)
    /\ rows' = Append(rows, [id |-> c.id, target |-> Wanted(c), done |-> FALSE])
    /\ call' = Holding(Len(rows) + 1)
    /\ UNCHANGED volumeVars

\* Mutant of Resume: a call without a name leaves a pending operation alone.
ResumeNamed(c) ==
    /\ call = None
    /\ mounted
    /\ \E k \in Pending :
          /\ \A j \in Pending : k <= j
          /\ c.id # None
          /\ c.id = rows[k].id
          /\ c.target \in {0, rows[k].target}
          /\ rows[k].target <= c.maximum
          /\ call' = Holding(k)
    /\ UNCHANGED <<volumeVars, rows>>

\* The oldest pending operation goes on, for a call that names it with the
\* same target or none, or that names no operation.
Resume(c) ==
    /\ call = None
    /\ mounted
    /\ \E k \in Pending :
          /\ \A j \in Pending : k <= j
          /\ c.id # None =>
                /\ c.id = rows[k].id
                /\ c.target \in {0, rows[k].target}
          /\ rows[k].target <= c.maximum
          /\ call' = Holding(k)
    /\ UNCHANGED <<volumeVars, rows>>

CallAt(step) == call # None /\ call.step = step

Target == rows[call.row].target

Extend ==
    /\ CallAt("extend")
    /\ call.current < Target => Target - lv <= Free
    /\ lv' = IF call.current < Target THEN Target ELSE lv
    /\ call' = [call EXCEPT !.step = "resize"]
    /\ UNCHANGED <<mounted, fs, ballast, rows>>

\* resize2fs fills the logical volume, and needs the file system mounted.
Resize ==
    /\ CallAt("resize")
    /\ mounted
    /\ fs' = lv
    /\ call' = [call EXCEPT !.step = "complete"]
    /\ UNCHANGED <<mounted, lv, ballast, rows>>

\* Both sizes are read again before the operation counts as done.
Complete ==
    /\ CallAt("complete")
    /\ lv >= Target
    /\ fs >= Target
    /\ rows' = [rows EXCEPT ![call.row].done = TRUE]
    /\ call' = None
    /\ UNCHANGED volumeVars

CallEnds == call' = None /\ UNCHANGED <<volumeVars, rows>>

\* The group has no room any more, or the file system is gone.
CallRefused ==
    /\ \/ CallAt("extend") /\ call.current < Target /\ Target - lv > Free
       \/ CallAt("resize") /\ ~mounted
    /\ CallEnds

\* The controller dies, or a command fails without effect.
CallDies == call # None /\ CallEnds

\* resize2fs is cut short and has grown the file system by a part.
ResizeCut ==
    /\ CallAt("resize")
    /\ mounted
    /\ fs' \in fs .. lv
    /\ call' = None
    /\ UNCHANGED <<mounted, lv, ballast, rows>>

CallStep == Extend \/ Resize \/ Complete \/ CallRefused

-----------------------------------------------------------------------------
\* A controller that dies anywhere is taken up where it stopped: at most the
\* youngest operation is pending, the volume has the size it began with or one
\* that was recorded before, so no increment is ever put upon another one, and
\* an operation counts as done only when volume and file system both have its
\* size.
OnePending == \A k \in DOMAIN rows : rows[k].done \/ k = Len(rows)

SizeRecorded ==
    \/ lv = InitialSize
    \/ \E k \in DOMAIN rows : lv = rows[k].target

DoneIsReached ==
    \A k \in DOMAIN rows : rows[k].done => rows[k].target <= fs

GrowthAccounted ==
    /\ OnePending
    /\ SizeRecorded
    /\ DoneIsReached
    /\ fs <= lv
=============================================================================
