---------------------------- MODULE ImageWorker -----------------------------
(***************************************************************************)
(* The image worker: one run of cmd/worker per operation, which turns a    *)
(* manifest into a sealed origin volume and gives the operation a writable *)
(* thin snapshot of it (cmd/worker/main.go, storage.go and image.go).      *)
(*                                                                         *)
(* A run holds the flock of worker.lock and replays the whole pipeline     *)
(* whatever the operations table says, looking at each external resource   *)
(* before it acts.  Extraction happens in a child process that takes no    *)
(* lock, and that lives on when its parent is killed or runs out of its 90 *)
(* seconds.  Runs and children may end at every point, by a crash, a       *)
(* timeout, or a command or a capacity check that fails; the machine may   *)
(* reboot.                                                                 *)
(*                                                                         *)
(* A file tree is "blank" (no file system), "empty", "partial" or "whole"; *)
(* the marker .edgelab-image.json holds the digest of a tree.  Blobs, tar  *)
(* entries and layers are data: loading the layers either gives the        *)
(* verified content of the manifest or is one of the failures above.       *)
(***************************************************************************)
EXTENDS Integers, FiniteSets

CONSTANTS
    Images,          \* manifests
    Ops,             \* operation ids
    OperationLimit,  \* operations of other ids before a run is refused (128)
    Slots,           \* bound: extraction processes that live at once
    RunFaults,       \* what may go wrong
    Nil

ASSUME ImageWorkerAssumption ==
    /\ OperationLimit \in Nat \ {0}
    /\ RunFaults \subseteq {"exit", "orphan", "reboot"}
    /\ Nil \notin {"blank", "empty", "partial", "whole"}

VARIABLES
    rows,        \* the operations table: row by operation id, or Nil
    volumes,     \* the origin volume of each image, or Nil
    mounted,     \* how each origin is mounted
    snapshots,   \* the snapshot volume of each operation, or Nil
    minted,      \* volume identities given out for snapshots
    run,         \* the run that holds worker.lock, or Nil
    children,    \* extraction processes by slot, or Nil
    strayed      \* history: an outdated extraction has entered a volume

imageVars == <<rows, volumes, mounted, snapshots, minted, run, children,
               strayed>>

Trees == {"blank", "empty", "partial", "whole"}

Row == [image : Images, phase : {"requested", "verified", "sealed", "registered"},
        uuid : Nat]   \* 0 is the empty string

Volume == [tree : Trees, marker : Trees \cup {Nil}, sealed : BOOLEAN]

Snapshot == [uuid : Nat, origin : Images, tree : Trees,
             writable : BOOLEAN, active : BOOLEAN]

Step == {"verify", "create", "check", "examine", "release", "format", "mount", "spawn",
         "wait", "unmount", "seal", "stage", "snapshot", "writable", "activate",
         "register"}

Run == [op : Ops, image : Images, step : Step, valid : BOOLEAN, uuid : Nat]

Child == [image : Images, parent : Ops \cup {Nil}, digest : Trees \cup {Nil},
          phase : {"load", "apply", "digest", "marker"},
          outdated : BOOLEAN]   \* history: its volume was formatted again

\* Nil is no row of a table, no volume and no process.
ASSUME NilAssumption ==
    Nil \notin Ops \cup Row \cup Volume \cup Snapshot \cup Run \cup Child

ImageTypeOK ==
    /\ rows \in [Ops -> Row \cup {Nil}]
    /\ volumes \in [Images -> Volume \cup {Nil}]
    /\ mounted \in [Images -> {"no", "ro", "rw"}]
    /\ snapshots \in [Ops -> Snapshot \cup {Nil}]
    /\ minted \in Nat
    /\ run \in Run \cup {Nil}
    /\ children \in [Slots -> Child \cup {Nil}]
    /\ strayed \in BOOLEAN

ImageInit ==
    /\ rows = [op \in Ops |-> Nil]
    /\ volumes = [m \in Images |-> Nil]
    /\ mounted = [m \in Images |-> "no"]
    /\ snapshots = [op \in Ops |-> Nil]
    /\ minted = 0
    /\ run = Nil
    /\ children = [s \in Slots |-> Nil]
    /\ strayed = FALSE

-----------------------------------------------------------------------------
AtStep(step) == run # Nil /\ run.step = step

GoStep(step) == run' = [run EXCEPT !.step = step]

Origin == volumes[run.image]

\* Extraction processes that have changed their root into the mounted volume.
Inside(m) == {s \in Slots : /\ children[s] # Nil
                            /\ children[s].image = m
                            /\ children[s].phase # "load"}

\* unmount: nothing to do when it is not mounted, busy while a process is in it.
CanUnmount(m) == mounted[m] = "no" \/ Inside(m) = {}

Others(op) == {p \in Ops \ {op} : rows[p] # Nil}

\* The lock is free, the operation is new and there is room, or it is known
\* with the same image.  The phase it has reached is not looked at.
Request(op, image) ==
    /\ run = Nil
    /\ Cardinality(Others(op)) < OperationLimit
    /\ rows[op] # Nil => rows[op].image = image
    /\ rows' = IF rows[op] = Nil
               THEN [rows EXCEPT ![op] =
                       [image |-> image, phase |-> "requested", uuid |-> 0]]
               ELSE rows
    /\ run' = [op |-> op, image |-> image, step |-> "verify", valid |-> FALSE,
               uuid |-> rows'[op].uuid]
    /\ UNCHANGED <<volumes, mounted, snapshots, minted, children, strayed>>

\* capacity and loadLayers have succeeded: stage("verified").
Verify ==
    /\ AtStep("verify")
    /\ rows' = [rows EXCEPT ![run.op].phase = "verified"]
    /\ GoStep("create")
    /\ UNCHANGED <<volumes, mounted, snapshots, minted, children, strayed>>

\* Mutant of CreateOrigin: the volume is made anew.
RecreateOrigin ==
    /\ AtStep("create")
    /\ volumes' = [volumes EXCEPT ![run.image] =
                     [tree |-> "blank", marker |-> Nil, sealed |-> FALSE]]
    /\ GoStep("check")
    /\ UNCHANGED <<rows, mounted, snapshots, minted, children, strayed>>

CreateOrigin ==
    /\ AtStep("create")
    /\ volumes' = IF Origin # Nil
                  THEN volumes
                  ELSE [volumes EXCEPT ![run.image] =
                          [tree |-> "blank", marker |-> Nil, sealed |-> FALSE]]
    /\ GoStep("check")
    /\ UNCHANGED <<rows, mounted, snapshots, minted, children, strayed>>

\* mount(base, true): a mount that is there is used as it is, and a volume
\* without a file system cannot be mounted.  Such a volume is not sealed either,
\* since only a verified one ever is.
CheckMount ==
    /\ AtStep("check")
    /\ IF Origin.tree = "blank"
       THEN /\ GoStep("format")
            /\ UNCHANGED mounted
       ELSE /\ GoStep("examine")
            /\ mounted' = [mounted EXCEPT ![run.image] = IF @ = "no" THEN "ro" ELSE @]
    /\ UNCHANGED <<rows, volumes, snapshots, minted, children, strayed>>

\* Mutant of Verified: every tree that is not empty is taken for the image.
VerifiedByTree == Origin.tree # "empty"

\* The marker is there and holds the digest of the tree.
Verified == Origin.marker # Nil /\ Origin.marker = Origin.tree

Examine ==
    /\ AtStep("examine")
    /\ run' = [run EXCEPT !.step = "release", !.valid = Verified]
    /\ UNCHANGED <<rows, volumes, mounted, snapshots, minted, children, strayed>>

\* Mutant of Release: a volume that does not verify stays mounted.
ReleaseVerified ==
    /\ AtStep("release")
    /\ CanUnmount(run.image)
    /\ run.valid \/ ~Origin.sealed
    /\ mounted' = IF run.valid THEN [mounted EXCEPT ![run.image] = "no"] ELSE mounted
    /\ GoStep(IF run.valid THEN "seal" ELSE "format")
    /\ UNCHANGED <<rows, volumes, snapshots, minted, children, strayed>>

\* A volume that does not verify is prepared again, unless it is sealed.
Release ==
    /\ AtStep("release")
    /\ CanUnmount(run.image)
    /\ run.valid \/ ~Origin.sealed
    /\ mounted' = [mounted EXCEPT ![run.image] = "no"]
    /\ GoStep(IF run.valid THEN "seal" ELSE "format")
    /\ UNCHANGED <<rows, volumes, snapshots, minted, children, strayed>>

\* mkfs.ext4 refuses a device that is mounted.
Format ==
    /\ AtStep("format")
    /\ mounted[run.image] = "no"
    /\ volumes' = [volumes EXCEPT ![run.image].tree = "empty",
                                  ![run.image].marker = Nil]
    /\ children' = [s \in Slots |->
          IF children[s] # Nil /\ children[s].image = run.image
          THEN [children[s] EXCEPT !.outdated = TRUE]
          ELSE children[s]]
    /\ GoStep("mount")
    /\ UNCHANGED <<rows, mounted, snapshots, minted, strayed>>

Mount ==
    /\ AtStep("mount")
    /\ mounted' = [mounted EXCEPT ![run.image] = "rw"]
    /\ GoStep("spawn")
    /\ UNCHANGED <<rows, volumes, snapshots, minted, children, strayed>>

Spawn(s) ==
    /\ AtStep("spawn")
    /\ children[s] = Nil
    /\ children' = [children EXCEPT ![s] =
                      [image |-> run.image, parent |-> run.op, digest |-> Nil,
                       phase |-> "load", outdated |-> FALSE]]
    /\ GoStep("wait")
    /\ UNCHANGED <<rows, volumes, mounted, snapshots, minted, strayed>>

Unmount ==
    /\ AtStep("unmount")
    /\ CanUnmount(run.image)
    /\ mounted' = [mounted EXCEPT ![run.image] = "no"]
    /\ GoStep("seal")
    /\ UNCHANGED <<rows, volumes, snapshots, minted, children, strayed>>

\* lvchange -pr, unless the volume is read-only already.
Seal ==
    /\ AtStep("seal")
    /\ volumes' = [volumes EXCEPT ![run.image].sealed = TRUE]
    /\ GoStep("stage")
    /\ UNCHANGED <<rows, mounted, snapshots, minted, children, strayed>>

StageSealed ==
    /\ AtStep("stage")
    /\ rows' = [rows EXCEPT ![run.op].phase = "sealed"]
    /\ GoStep("snapshot")
    /\ UNCHANGED <<volumes, mounted, snapshots, minted, children, strayed>>

\* A new thin snapshot takes its identity here and is not active yet; one that
\* is there has to be the one the row names, if the row names one.
CreateSnapshot ==
    /\ AtStep("snapshot")
    /\ IF snapshots[run.op] = Nil
       THEN /\ run.uuid = 0
            /\ minted' = minted + 1
            /\ \E writable \in BOOLEAN :
                  snapshots' = [snapshots EXCEPT ![run.op] =
                      [uuid |-> minted + 1, origin |-> run.image,
                       tree |-> Origin.tree, writable |-> writable,
                       active |-> FALSE]]
       ELSE /\ snapshots[run.op].origin = run.image
            /\ run.uuid \in {0, snapshots[run.op].uuid}
            /\ UNCHANGED <<snapshots, minted>>
    /\ GoStep("writable")
    /\ UNCHANGED <<rows, volumes, mounted, children, strayed>>

MakeWritable ==
    /\ AtStep("writable")
    /\ snapshots' = [snapshots EXCEPT ![run.op].writable = TRUE]
    /\ GoStep("activate")
    /\ UNCHANGED <<rows, volumes, mounted, minted, children, strayed>>

ActivateSnapshot ==
    /\ AtStep("activate")
    /\ snapshots' = [snapshots EXCEPT ![run.op].active = TRUE]
    /\ GoStep("register")
    /\ UNCHANGED <<rows, volumes, mounted, minted, children, strayed>>

Registered ==
    /\ AtStep("register")
    /\ rows' = [rows EXCEPT ![run.op].phase = "registered",
                            ![run.op].uuid = snapshots[run.op].uuid]
    /\ run' = Nil
    /\ UNCHANGED <<volumes, mounted, snapshots, minted, children, strayed>>

-----------------------------------------------------------------------------
(***************************************************************************)
(* The extraction process (--unpack-root).                                 *)
(***************************************************************************)
ChildIn(s, phase) == children[s] # Nil /\ children[s].phase = phase

Own(s) == run # Nil /\ run.step = "wait" /\ children[s] # Nil
          /\ children[s].parent = run.op

\* The volume is still mounted where the process changes its root to.  One
\* that comes too late finds a plain directory, and no volume changes.
EnterRoot(s) ==
    LET m == children[s].image IN
    /\ ChildIn(s, "load")
    /\ IF mounted[m] = "no"
       THEN /\ children' = [children EXCEPT ![s] = Nil]
            /\ UNCHANGED strayed
       ELSE /\ children' = [children EXCEPT ![s].phase = "apply"]
            /\ strayed' = (strayed \/ children[s].outdated)
    /\ UNCHANGED <<rows, volumes, mounted, snapshots, minted, run>>

\* applyLayers is under way: files are truncated, removed and written.
ApplySome(s) ==
    LET m == children[s].image IN
    /\ ChildIn(s, "apply")
    /\ mounted[m] = "rw"
    /\ volumes' = [volumes EXCEPT ![m].tree = "partial"]
    /\ UNCHANGED <<rows, mounted, snapshots, minted, run, children, strayed>>

\* The last layer is in place; another extraction may be in the middle.
ApplyAll(s) ==
    LET m == children[s].image
        others == {t \in Inside(m) \ {s} : children[t].phase = "apply"} IN
    /\ ChildIn(s, "apply")
    /\ mounted[m] = "rw"
    /\ \E tree \in IF others = {} THEN {"whole"} ELSE {"whole", "partial"} :
          volumes' = [volumes EXCEPT ![m].tree = tree]
    /\ children' = [children EXCEPT ![s].phase = "digest"]
    /\ UNCHANGED <<rows, mounted, snapshots, minted, run, strayed>>

TakeDigest(s) ==
    /\ ChildIn(s, "digest")
    /\ children' = [children EXCEPT ![s].phase = "marker",
                                    ![s].digest = volumes[children[s].image].tree]
    /\ UNCHANGED <<rows, volumes, mounted, snapshots, minted, run, strayed>>

\* The marker is written and the process ends; a parent goes on.
WriteMarker(s) ==
    LET m == children[s].image IN
    /\ ChildIn(s, "marker")
    /\ mounted[m] = "rw"
    /\ volumes' = [volumes EXCEPT ![m].marker = children[s].digest]
    /\ children' = [children EXCEPT ![s] = Nil]
    /\ run' = IF Own(s) THEN [run EXCEPT !.step = "unmount"] ELSE run
    /\ UNCHANGED <<rows, mounted, snapshots, minted, strayed>>

\* The process ends without success: its parent, if it has one, fails too.
ChildEnds(s) ==
    /\ children' = [children EXCEPT ![s] = Nil]
    /\ run' = IF Own(s) THEN Nil ELSE run
    /\ UNCHANGED <<rows, volumes, mounted, snapshots, minted, strayed>>

\* Nothing can be written to a volume that is mounted read-only.
WriteRefused(s) ==
    /\ ChildIn(s, "apply") \/ ChildIn(s, "marker")
    /\ mounted[children[s].image] = "ro"
    /\ ChildEnds(s)

ChildFails(s) ==
    /\ "exit" \in RunFaults
    /\ children[s] # Nil
    /\ ChildEnds(s)

-----------------------------------------------------------------------------
(***************************************************************************)
(* The ends of a run other than success.                                   *)
(***************************************************************************)
\* umount is busy, or the volume is unmounted but sealed and does not verify.
RunRefused ==
    /\ \/ /\ AtStep("release") \/ AtStep("unmount")
          /\ ~CanUnmount(run.image)
          /\ UNCHANGED mounted
       \/ /\ AtStep("release")
          /\ CanUnmount(run.image)
          /\ ~run.valid
          /\ Origin.sealed
          /\ mounted' = [mounted EXCEPT ![run.image] = "no"]
    /\ run' = Nil
    /\ UNCHANGED <<rows, volumes, snapshots, minted, children, strayed>>

Orphans == [s \in Slots |-> IF Own(s) THEN [children[s] EXCEPT !.parent = Nil]
                                      ELSE children[s]]

\* A run is killed, exceeds its 90 seconds, or one of its commands fails; a
\* child it waits for is killed with it or stays behind.
RunExits ==
    /\ "exit" \in RunFaults
    /\ run # Nil
    /\ run' = Nil
    /\ children' \in {[s \in Slots |-> IF Own(s) THEN Nil ELSE children[s]]}
                     \cup IF "orphan" \in RunFaults THEN {Orphans} ELSE {}
    /\ UNCHANGED <<rows, volumes, mounted, snapshots, minted, strayed>>

\* Volumes and the database last.  A file whose digest is recorded was synced
\* before; snapshots are not activated by the system.
Reboots ==
    /\ "reboot" \in RunFaults
    /\ run' = Nil
    /\ children' = [s \in Slots |-> Nil]
    /\ mounted' = [m \in Images |-> "no"]
    /\ snapshots' = [op \in Ops |-> IF snapshots[op] = Nil
                                    THEN Nil
                                    ELSE [snapshots[op] EXCEPT !.active = FALSE]]
    /\ UNCHANGED <<rows, volumes, minted, strayed>>

-----------------------------------------------------------------------------
RunStep ==
    \/ Verify
    \/ CreateOrigin
    \/ CheckMount
    \/ Examine
    \/ Release
    \/ Format
    \/ Mount
    \/ \E s \in Slots : Spawn(s)
    \/ Unmount
    \/ Seal
    \/ StageSealed
    \/ CreateSnapshot
    \/ MakeWritable
    \/ ActivateSnapshot
    \/ Registered
    \/ RunRefused

ChildStep(s) ==
    \/ EnterRoot(s)
    \/ ApplyAll(s)
    \/ TakeDigest(s)
    \/ WriteMarker(s)
    \/ WriteRefused(s)

ImageNext ==
    \/ \E op \in Ops, image \in Images : Request(op, image)
    \/ RunStep
    \/ \E s \in Slots : ChildStep(s) \/ ApplySome(s) \/ ChildFails(s)
    \/ RunExits
    \/ Reboots

ImageSpec == ImageInit /\ [][ImageNext]_imageVars

\* Runs and extractions have a time limit at every step, and whoever asked
\* for an operation repeats it until it is registered.
FairImageSpec ==
    /\ ImageSpec
    /\ WF_imageVars(RunStep)
    /\ \A s \in Slots : WF_imageVars(ChildStep(s))
    /\ \A op \in Ops : SF_imageVars(\E image \in Images : Request(op, image))

-----------------------------------------------------------------------------
(***************************************************************************)
(* Properties.                                                             *)
(***************************************************************************)

\* An operation that was ever answered as ready keeps the snapshot it was
\* answered with, and that snapshot was taken of the sealed and complete image
\* of the operation, wherever the runs before it were interrupted.  It needs
\* that no extraction which outlived its run has changed its root into a
\* volume that a later run had formatted meanwhile.
RegisteredIntact ==
    ~strayed =>
        \A op \in Ops :
            rows[op] # Nil /\ rows[op].uuid # 0 =>
                /\ snapshots[op] # Nil
                /\ snapshots[op].uuid = rows[op].uuid
                /\ snapshots[op].origin = rows[op].image
                /\ snapshots[op].tree = "whole"
                /\ volumes[rows[op].image].sealed

\* A sealed origin is never written again, by no later run and by no
\* extraction that was left behind: every operation forks the same files.
SealedStands ==
    [][\A m \in Images :
          volumes[m] # Nil /\ volumes[m].sealed => volumes'[m] = volumes[m]]_imageVars

\* Every operation that is recorded is registered at last if it is repeated,
\* whatever mounts, half-written volumes and extraction processes earlier runs
\* have left behind, once failures have ceased.
Disturbed ==
    \/ RunExits /\ ~RunRefused
    \/ \E s \in Slots : ChildFails(s) /\ ~ChildStep(s)
    \/ Reboots

OperationsComplete ==
    <>[][~Disturbed]_imageVars /\ []~strayed =>
        \A op \in Ops :
            rows[op] # Nil ~> rows[op] # Nil /\ rows[op].phase = "registered"
=============================================================================
