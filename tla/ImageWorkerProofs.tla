------------------------- MODULE ImageWorkerProofs --------------------------
(***************************************************************************)
(* Proofs for every number of images, operations and extraction processes: *)
(* what the origin volumes, their markers and mounts, the snapshots, the   *)
(* run that holds the lock and the processes left behind by earlier runs   *)
(* say of each other.                                                      *)
(***************************************************************************)
EXTENDS ImageWorker, TLAPS

(***************************************************************************)
(* The inductive invariant.                                                *)
(***************************************************************************)

\* An extraction process of the volume as it was formatted last.
FreshChild(s, m) ==
    children[s] # Nil /\ children[s].image = m /\ ~children[s].outdated

\* What the run that holds the lock knows of its row and its volume.
RunKnows ==
    run # Nil =>
        /\ rows[run.op] # Nil
        /\ rows[run.op].image = run.image
        /\ rows[run.op].uuid = run.uuid
        /\ run.step \notin {"verify", "create"} => Origin # Nil

\* What the steps of the run have made of the volume so far.
StepFinds ==
    run # Nil =>
        /\ run.step \notin {"verify", "create", "check", "format"} =>
              Origin.tree # "blank"
        /\ run.step \in {"format", "mount", "spawn", "wait", "unmount"} =>
              ~Origin.sealed
        /\ run.step \in {"mount", "seal"} => mounted[run.image] = "no"
        /\ run.step \in {"mount", "spawn"} =>
              \A s \in Slots : ~FreshChild(s, run.image)
        /\ run.step = "release" /\ run.valid => Origin.marker # Nil
        /\ run.step \in {"unmount", "seal"} => Origin.marker # Nil
        /\ run.step \in {"stage", "snapshot"} => Origin.sealed
        /\ run.step \in {"writable", "activate", "register"} =>
              snapshots[run.op] # Nil /\ run.uuid \in {0, snapshots[run.op].uuid}

\* No one is inside a volume that is not mounted, and a sealed volume is not
\* mounted for writing.
MountsHold ==
    \A m \in Images :
        /\ mounted[m] # "no" => volumes[m] # Nil /\ volumes[m].tree # "blank"
        /\ Inside(m) # {} => mounted[m] # "no"
        /\ volumes[m] # Nil /\ volumes[m].sealed =>
              /\ mounted[m] # "rw"
              /\ volumes[m].tree # "blank"
              /\ volumes[m].marker # Nil

\* A process with a parent is the one the run waits for; a volume has one
\* process at most that was started after it was formatted last.
ChildrenKnown ==
    /\ \A s \in Slots : children[s] # Nil =>
          /\ children[s].parent # Nil =>
                /\ run # Nil /\ run.step = "wait"
                /\ children[s].parent = run.op
                /\ FreshChild(s, run.image)
          /\ children[s].phase = "marker" => children[s].digest # Nil
    /\ \A s, t \in Slots, m \in Images :
          FreshChild(s, m) /\ FreshChild(t, m) => s = t

\* As long as no outdated process has entered a volume, a marker stands for
\* the whole image, and no process that could still write is left.
MarkersTrue ==
    ~strayed =>
        /\ \A m \in Images : volumes[m] # Nil /\ volumes[m].marker # Nil =>
              /\ volumes[m].marker = "whole"
              /\ volumes[m].tree = "whole"
              /\ \A s \in Slots : ~FreshChild(s, m)
        /\ \A s \in Slots : children[s] # Nil =>
              /\ children[s].phase # "load" => ~children[s].outdated
              /\ children[s].phase \in {"digest", "marker"} =>
                    volumes[children[s].image].tree = "whole"
              /\ children[s].phase = "marker" => children[s].digest = "whole"
        /\ run # Nil /\ run.step \in {"mount", "spawn"} => Origin.marker = Nil

\* A snapshot is of the sealed image of its operation, and the row names it.
SnapshotsKnown ==
    \A op \in Ops :
        /\ snapshots[op] # Nil =>
              /\ rows[op] # Nil
              /\ snapshots[op].origin = rows[op].image
              /\ snapshots[op].uuid # 0
              /\ volumes[rows[op].image] # Nil
              /\ volumes[rows[op].image].sealed
              /\ ~strayed => snapshots[op].tree = "whole"
        /\ rows[op] # Nil /\ rows[op].uuid # 0 =>
              snapshots[op] # Nil /\ snapshots[op].uuid = rows[op].uuid

ImageInv ==
    /\ ImageTypeOK
    /\ RunKnows
    /\ StepFinds
    /\ MountsHold
    /\ ChildrenKnown
    /\ MarkersTrue
    /\ SnapshotsKnown

-----------------------------------------------------------------------------
(***************************************************************************)
(* What the entries of the state are.                                      *)
(***************************************************************************)

LEMMA ImageInitInv == ImageInit => ImageInv
<1> SUFFICES ASSUME ImageInit
             PROVE  ImageInv
  OBVIOUS
<1> USE DEF ImageInit
<1>1. ImageTypeOK
  BY DEF ImageTypeOK
<1>2. RunKnows /\ StepFinds /\ SnapshotsKnown
  BY DEF RunKnows, StepFinds, SnapshotsKnown
<1>3. MountsHold /\ ChildrenKnown /\ MarkersTrue
  BY DEF MountsHold, ChildrenKnown, MarkersTrue, Inside, FreshChild
<1>4. QED
  BY <1>1, <1>2, <1>3 DEF ImageInv

\* What is in a table and is not Nil is an entry of it.
LEMMA Entries ==
  ASSUME ImageInv
  PROVE  /\ \A op \in Ops : rows[op] # Nil => rows[op] \in Row
         /\ \A m \in Images : volumes[m] # Nil => volumes[m] \in Volume
         /\ \A op \in Ops : snapshots[op] # Nil => snapshots[op] \in Snapshot
         /\ \A s \in Slots : children[s] # Nil =>
               children[s] \in Child /\ children[s].image \in Images
         /\ run # Nil => run \in Run /\ run.op \in Ops /\ run.image \in Images
  BY DEF ImageInv, ImageTypeOK, Child, Run

\* A run that goes on is the same run at another step.
LEMMA GoneOn ==
  ASSUME ImageInv, run # Nil, NEW step \in Step, GoStep(step)
  PROVE  /\ run' \in Run /\ run' # Nil
         /\ run'.op = run.op /\ run'.image = run.image /\ run'.step = step
         /\ run'.valid = run.valid /\ run'.uuid = run.uuid
<1>1. run \in Run
  BY Entries
<1>2. run' = [run EXCEPT !.step = step]
  BY DEF GoStep
<1>3. QED
  BY <1>1, <1>2, NilAssumption DEF Run

\* stage changes the phase of a row and nothing else of it.
LEMMA Staged ==
  ASSUME ImageInv, run # Nil,
         NEW phase \in {"requested", "verified", "sealed", "registered"},
         rows' = [rows EXCEPT ![run.op].phase = phase]
  PROVE  /\ rows' \in [Ops -> Row \cup {Nil}]
         /\ \A op \in Ops : rows'[op] = Nil <=> rows[op] = Nil
         /\ \A op \in Ops : rows[op] # Nil =>
               rows'[op].image = rows[op].image /\ rows'[op].uuid = rows[op].uuid
<1>1. rows[run.op] \in Row /\ run.op \in Ops
  BY Entries DEF ImageInv, RunKnows
<1> DEFINE row == [rows[run.op] EXCEPT !.phase = phase]
<1>2. /\ row \in Row /\ row # Nil /\ row.image = rows[run.op].image
      /\ row.uuid = rows[run.op].uuid
  BY <1>1, NilAssumption DEF Row
<1>3. rows' = [rows EXCEPT ![run.op] = row]
  OBVIOUS
<1> HIDE DEF row
<1>4. QED
  BY <1>1, <1>2, <1>3 DEF ImageInv, ImageTypeOK, RunKnows

\* A volume that is changed is still a volume, and the others are as before.
LEMMA VolumeChanged ==
  ASSUME ImageInv, NEW m \in Images, NEW v \in Volume,
         volumes' = [volumes EXCEPT ![m] = v]
  PROVE  /\ volumes' \in [Images -> Volume \cup {Nil}]
         /\ volumes'[m] = v /\ v # Nil
         /\ \A n \in Images \ {m} : volumes'[n] = volumes[n]
  BY NilAssumption DEF ImageInv, ImageTypeOK

-----------------------------------------------------------------------------
(***************************************************************************)
(* The steps of a run.                                                     *)
(***************************************************************************)

LEMMA RequestKeeps ==
  ASSUME ImageInv, NEW op \in Ops, NEW image \in Images, Request(op, image)
  PROVE  ImageInv'
<1>1. /\ run = Nil
      /\ run' = [op |-> op, image |-> image, step |-> "verify", valid |-> FALSE,
                 uuid |-> rows'[op].uuid]
      /\ UNCHANGED <<volumes, mounted, snapshots, minted, children, strayed>>
  BY DEF Request
<1>2. /\ rows' \in [Ops -> Row \cup {Nil}]
      /\ rows'[op] # Nil /\ rows'[op].image = image /\ rows'[op] \in Row
      /\ rows[op] = Nil => rows'[op].uuid = 0
      /\ rows[op] # Nil => rows'[op] = rows[op]
      /\ \A p \in Ops \ {op} : rows'[p] = rows[p]
  <2> DEFINE row == [image |-> image, phase |-> "requested", uuid |-> 0]
  <2>1. row \in Row /\ row # Nil
    BY NilAssumption DEF Row
  <2>2. rows' = IF rows[op] = Nil THEN [rows EXCEPT ![op] = row] ELSE rows
    BY DEF Request
  <2>3. rows[op] # Nil => rows[op].image = image
    BY DEF Request
  <2>4. row.image = image /\ row.uuid = 0
    OBVIOUS
  <2> HIDE DEF row
  <2>5. QED
    BY <2>1, <2>2, <2>3, <2>4 DEF ImageInv, ImageTypeOK
<1>3. run' \in Run /\ run' # Nil
  <2>1. rows'[op].uuid \in Nat
    BY <1>2 DEF Row
  <2>2. run' \in Run
    BY <1>1, <2>1 DEF Run, Step
  <2>3. QED
    BY <2>2, NilAssumption
<1>4. ImageTypeOK'
  BY <1>1, <1>2, <1>3 DEF ImageInv, ImageTypeOK
<1>5. RunKnows'
  BY <1>1, <1>2, <1>3 DEF RunKnows
<1>6. StepFinds'
  BY <1>1 DEF StepFinds
<1>7. MountsHold'
  BY <1>1 DEF ImageInv, MountsHold, Inside
<1>8. ChildrenKnown'
  BY <1>1 DEF ImageInv, ChildrenKnown, FreshChild
<1>9. MarkersTrue'
  BY <1>1 DEF ImageInv, MarkersTrue, FreshChild
<1>10. SnapshotsKnown'
  BY <1>1, <1>2 DEF ImageInv, SnapshotsKnown
<1>11. QED
  BY <1>4, <1>5, <1>6, <1>7, <1>8, <1>9, <1>10 DEF ImageInv

LEMMA VerifyKeeps ==
  ASSUME ImageInv, Verify
  PROVE  ImageInv'
<1>1. /\ run # Nil /\ run.step = "verify"
      /\ rows' = [rows EXCEPT ![run.op].phase = "verified"]
      /\ GoStep("create")
      /\ UNCHANGED <<volumes, mounted, snapshots, minted, children, strayed>>
  BY DEF Verify, AtStep
<1>2. /\ run' \in Run /\ run' # Nil
      /\ run'.op = run.op /\ run'.image = run.image /\ run'.step = "create"
      /\ run'.valid = run.valid /\ run'.uuid = run.uuid
  BY <1>1, GoneOn DEF Step
<1>3. /\ rows' \in [Ops -> Row \cup {Nil}]
      /\ \A op \in Ops : rows'[op] = Nil <=> rows[op] = Nil
      /\ \A op \in Ops : rows[op] # Nil =>
            rows'[op].image = rows[op].image /\ rows'[op].uuid = rows[op].uuid
  BY <1>1, Staged
<1>4. ImageTypeOK'
  BY <1>1, <1>2, <1>3 DEF ImageInv, ImageTypeOK
<1>5. RunKnows'
  BY <1>1, <1>2, <1>3, Entries DEF ImageInv, RunKnows
<1>6. StepFinds'
  BY <1>1, <1>2 DEF StepFinds
<1>7. MountsHold'
  BY <1>1 DEF ImageInv, MountsHold, Inside
<1>8. ChildrenKnown'
  BY <1>1 DEF ImageInv, ChildrenKnown, FreshChild
<1>9. MarkersTrue'
  BY <1>1, <1>2 DEF ImageInv, MarkersTrue, FreshChild
<1>10. SnapshotsKnown'
  BY <1>1, <1>3, Entries DEF ImageInv, SnapshotsKnown, Row
<1>11. QED
  BY <1>4, <1>5, <1>6, <1>7, <1>8, <1>9, <1>10 DEF ImageInv

LEMMA CreateOriginKeeps ==
  ASSUME ImageInv, CreateOrigin
  PROVE  ImageInv'
<1> DEFINE blank == [tree |-> "blank", marker |-> Nil, sealed |-> FALSE]
           m == run.image
<1>1. /\ run # Nil /\ run.step = "create" /\ GoStep("check")
      /\ volumes' = IF volumes[m] # Nil THEN volumes
                    ELSE [volumes EXCEPT ![m] = blank]
      /\ UNCHANGED <<rows, mounted, snapshots, minted, children, strayed>>
  BY DEF CreateOrigin, AtStep, Origin
<1>2. /\ run' \in Run /\ run' # Nil
      /\ run'.op = run.op /\ run'.image = m /\ run'.step = "check"
      /\ run'.valid = run.valid /\ run'.uuid = run.uuid
  BY <1>1, GoneOn DEF Step
<1>3. m \in Images /\ run.op \in Ops
  BY <1>1, Entries
<1>4. blank \in Volume /\ blank # Nil
  <2>1. blank \in Volume
    BY DEF Volume, Trees
  <2>2. QED
    BY <2>1, NilAssumption
<1> HIDE DEF m
<1>5. /\ volumes' \in [Images -> Volume \cup {Nil}]
      /\ volumes'[m] # Nil
      /\ volumes[m] = Nil => volumes'[m] = blank
      /\ \A n \in Images : volumes[n] # Nil => volumes'[n] = volumes[n]
      /\ \A n \in Images \ {m} : volumes'[n] = volumes[n]
  BY <1>1, <1>3, <1>4 DEF ImageInv, ImageTypeOK
<1>6. ImageTypeOK'
  BY <1>1, <1>2, <1>5 DEF ImageInv, ImageTypeOK
<1>7. RunKnows'
  BY <1>1, <1>2, <1>5 DEF ImageInv, RunKnows, Origin, m
<1>8. StepFinds'
  BY <1>2 DEF StepFinds
<1>9. MountsHold'
  BY <1>1, <1>5 DEF ImageInv, MountsHold, Inside
<1>10. ChildrenKnown'
  BY <1>1 DEF ImageInv, ChildrenKnown, FreshChild
<1>11. MarkersTrue'
  BY <1>1, <1>2, <1>5, Entries DEF ImageInv, MarkersTrue, FreshChild, MountsHold, Inside
<1>12. SnapshotsKnown'
  BY <1>1, <1>5, Entries DEF ImageInv, SnapshotsKnown, Row
<1>13. QED
  BY <1>6, <1>7, <1>8, <1>9, <1>10, <1>11, <1>12 DEF ImageInv

LEMMA CheckMountKeeps ==
  ASSUME ImageInv, CheckMount
  PROVE  ImageInv'
<1> DEFINE m == run.image
           next == IF volumes[m].tree = "blank" THEN "format" ELSE "examine"
<1>1. /\ run # Nil /\ run.step = "check" /\ GoStep(next) /\ next \in Step
      /\ mounted' = IF volumes[m].tree # "blank" /\ mounted[m] = "no"
                    THEN [mounted EXCEPT ![m] = "ro"]
                    ELSE mounted
      /\ UNCHANGED <<rows, volumes, snapshots, minted, children, strayed>>
  BY DEF CheckMount, AtStep, Origin, Step, ImageInv, ImageTypeOK
<1>2. /\ run' \in Run /\ run' # Nil
      /\ run'.op = run.op /\ run'.image = m /\ run'.step = next
      /\ run'.valid = run.valid /\ run'.uuid = run.uuid
  BY <1>1, GoneOn
<1>3. m \in Images /\ run.op \in Ops /\ volumes[m] # Nil
  BY <1>1, Entries DEF ImageInv, RunKnows, Origin
<1> HIDE DEF m
<1>4. /\ mounted' \in [Images -> {"no", "ro", "rw"}]
      /\ mounted'[m] # mounted[m] =>
            volumes[m].tree # "blank" /\ mounted'[m] = "ro"
      /\ mounted[m] # "no" => mounted'[m] = mounted[m]
      /\ \A n \in Images \ {m} : mounted'[n] = mounted[n]
  BY <1>1, <1>3 DEF ImageInv, ImageTypeOK
<1>5. ImageTypeOK'
  BY <1>1, <1>2, <1>4 DEF ImageInv, ImageTypeOK
<1>6. RunKnows'
  BY <1>1, <1>2, <1>3 DEF ImageInv, RunKnows, Origin, m
<1>7. StepFinds'
  BY <1>1, <1>2, <1>3 DEF StepFinds, ImageInv, MountsHold, Origin
<1>8. MountsHold'
  BY <1>1, <1>3, <1>4 DEF ImageInv, MountsHold, Inside
<1>9. ChildrenKnown'
  BY <1>1 DEF ImageInv, ChildrenKnown, FreshChild
<1>10. MarkersTrue'
  BY <1>1, <1>2 DEF ImageInv, MarkersTrue, FreshChild
<1>11. SnapshotsKnown'
  BY <1>1 DEF ImageInv, SnapshotsKnown
<1>12. QED
  BY <1>5, <1>6, <1>7, <1>8, <1>9, <1>10, <1>11 DEF ImageInv

LEMMA ExamineKeeps ==
  ASSUME ImageInv, Examine
  PROVE  ImageInv'
<1>1. /\ run # Nil /\ run.step = "examine" /\ run \in Run
      /\ run' = [run EXCEPT !.step = "release", !.valid = Verified]
      /\ UNCHANGED <<rows, volumes, mounted, snapshots, minted, children, strayed>>
  BY Entries DEF Examine, AtStep
<1>2. /\ run' \in Run /\ run' # Nil
      /\ run'.op = run.op /\ run'.image = run.image /\ run'.step = "release"
      /\ run'.valid => Origin.marker # Nil
      /\ run'.uuid = run.uuid
  <2>1. Verified \in BOOLEAN /\ (Verified => Origin.marker # Nil)
    BY DEF Verified
  <2> DEFINE next == [run EXCEPT !.step = "release", !.valid = Verified]
  <2>2. /\ next \in Run /\ next.op = run.op /\ next.image = run.image
        /\ next.step = "release" /\ next.valid = Verified /\ next.uuid = run.uuid
    BY <1>1, <2>1 DEF Run, Step
  <2> HIDE DEF next
  <2>3. QED
    BY <1>1, <2>1, <2>2, NilAssumption DEF next
<1>3. ImageTypeOK'
  BY <1>1, <1>2 DEF ImageInv, ImageTypeOK
<1>4. RunKnows'
  BY <1>1, <1>2 DEF ImageInv, RunKnows, Origin
<1>5. StepFinds'
  BY <1>1, <1>2 DEF StepFinds, ImageInv, Origin
<1>6. MountsHold'
  BY <1>1 DEF ImageInv, MountsHold, Inside
<1>7. ChildrenKnown'
  BY <1>1 DEF ImageInv, ChildrenKnown, FreshChild
<1>8. MarkersTrue'
  BY <1>1, <1>2 DEF ImageInv, MarkersTrue, FreshChild
<1>9. SnapshotsKnown'
  BY <1>1 DEF ImageInv, SnapshotsKnown
<1>10. QED
  BY <1>3, <1>4, <1>5, <1>6, <1>7, <1>8, <1>9 DEF ImageInv

LEMMA ReleaseKeeps ==
  ASSUME ImageInv, Release
  PROVE  ImageInv'
<1> DEFINE m == run.image
           next == IF run.valid THEN "seal" ELSE "format"
<1>1. /\ run # Nil /\ run.step = "release" /\ GoStep(next) /\ next \in Step
      /\ mounted[m] = "no" \/ Inside(m) = {}
      /\ run.valid \/ ~volumes[m].sealed
      /\ mounted' = [mounted EXCEPT ![m] = "no"]
      /\ UNCHANGED <<rows, volumes, snapshots, minted, children, strayed>>
  BY DEF Release, AtStep, Origin, Step, CanUnmount
<1>2. /\ run' \in Run /\ run' # Nil
      /\ run'.op = run.op /\ run'.image = m /\ run'.step = next
      /\ run'.valid = run.valid /\ run'.uuid = run.uuid
  BY <1>1, GoneOn
<1>3. /\ m \in Images /\ run.op \in Ops /\ volumes[m] # Nil
      /\ volumes[m].tree # "blank"
      /\ run.valid => volumes[m].marker # Nil
  BY <1>1, Entries DEF ImageInv, RunKnows, StepFinds, Origin
<1> HIDE DEF m
<1>4. /\ mounted' \in [Images -> {"no", "ro", "rw"}]
      /\ mounted'[m] = "no"
      /\ \A n \in Images \ {m} : mounted'[n] = mounted[n]
  BY <1>1, <1>3 DEF ImageInv, ImageTypeOK
<1>5. ImageTypeOK'
  BY <1>1, <1>2, <1>4 DEF ImageInv, ImageTypeOK
<1>6. RunKnows'
  BY <1>1, <1>2, <1>3 DEF ImageInv, RunKnows, Origin, m
<1>7. StepFinds'
  BY <1>1, <1>2, <1>3, <1>4 DEF StepFinds, Origin
<1>8. MountsHold'
  BY <1>1, <1>3, <1>4 DEF ImageInv, MountsHold, Inside
<1>9. ChildrenKnown'
  BY <1>1 DEF ImageInv, ChildrenKnown, FreshChild
<1>10. MarkersTrue'
  BY <1>1, <1>2 DEF ImageInv, MarkersTrue, FreshChild
<1>11. SnapshotsKnown'
  BY <1>1 DEF ImageInv, SnapshotsKnown
<1>12. QED
  BY <1>5, <1>6, <1>7, <1>8, <1>9, <1>10, <1>11 DEF ImageInv

LEMMA FormatKeeps ==
  ASSUME ImageInv, Format
  PROVE  ImageInv'
<1> DEFINE m == run.image
           empty == [volumes[m] EXCEPT !.tree = "empty", !.marker = Nil]
<1>1. /\ run # Nil /\ run.step = "format" /\ GoStep("mount")
      /\ mounted[m] = "no"
      /\ volumes' = [volumes EXCEPT ![m].tree = "empty", ![m].marker = Nil]
      /\ children' = [s \in Slots |->
            IF children[s] # Nil /\ children[s].image = m
            THEN [children[s] EXCEPT !.outdated = TRUE]
            ELSE children[s]]
      /\ UNCHANGED <<rows, mounted, snapshots, minted, strayed>>
  BY DEF Format, AtStep
<1>2. /\ run' \in Run /\ run' # Nil
      /\ run'.op = run.op /\ run'.image = run.image /\ run'.step = "mount"
      /\ run'.valid = run.valid /\ run'.uuid = run.uuid
  BY <1>1, GoneOn DEF Step
<1>3. m \in Images /\ run.op \in Ops /\ volumes[m] \in Volume
      /\ volumes[m] # Nil /\ ~volumes[m].sealed
  BY <1>1, Entries DEF ImageInv, RunKnows, StepFinds, Origin
<1>4. /\ empty \in Volume /\ empty.tree = "empty" /\ empty.marker = Nil
      /\ ~empty.sealed
  BY <1>3 DEF Volume, Trees
<1>5. volumes' = [volumes EXCEPT ![m] = empty]
  BY <1>1, <1>3 DEF ImageInv, ImageTypeOK, Volume
<1> HIDE DEF empty
<1>6. /\ volumes' \in [Images -> Volume \cup {Nil}]
      /\ volumes'[m] = empty /\ empty # Nil
      /\ \A n \in Images \ {m} : volumes'[n] = volumes[n]
  BY <1>3, <1>4, <1>5, VolumeChanged
<1>7. \A s \in Slots :
         /\ children'[s] \in Child \cup {Nil}
         /\ children'[s] = Nil <=> children[s] = Nil
         /\ children[s] # Nil =>
               /\ children'[s].image = children[s].image
               /\ children'[s].parent = children[s].parent
               /\ children'[s].digest = children[s].digest
               /\ children'[s].phase = children[s].phase
               /\ children[s].image = m => children'[s].outdated
               /\ children[s].image # m => children'[s].outdated = children[s].outdated
  <2> SUFFICES ASSUME NEW s \in Slots, children[s] # Nil, children[s].image = m
               PROVE  /\ children'[s] \in Child /\ children'[s] # Nil
                      /\ children'[s].image = children[s].image
                      /\ children'[s].parent = children[s].parent
                      /\ children'[s].digest = children[s].digest
                      /\ children'[s].phase = children[s].phase
                      /\ children'[s].outdated
    BY <1>1 DEF ImageInv, ImageTypeOK
  <2>1. children[s] \in Child
    BY Entries
  <2>2. children'[s] = [children[s] EXCEPT !.outdated = TRUE]
    BY <1>1
  <2>3. QED
    BY <2>1, <2>2, NilAssumption DEF Child
<1>8. \A s \in Slots, n \in Images :
         FreshChild(s, n)' <=> FreshChild(s, n) /\ n # m
  BY <1>7 DEF FreshChild
<1>9. \A s \in Slots : children[s] # Nil /\ children[s].image = m =>
         children[s].phase = "load"
  BY <1>1, <1>3 DEF ImageInv, MountsHold, Inside
<1>10. \A s \in Slots : children[s] # Nil => children[s].parent = Nil
  BY <1>1 DEF ImageInv, ChildrenKnown
<1> HIDE DEF m
<1>11. ImageTypeOK'
  BY <1>1, <1>2, <1>6, <1>7 DEF ImageInv, ImageTypeOK
<1>12. RunKnows'
  BY <1>1, <1>2, <1>6 DEF ImageInv, RunKnows, Origin, m
<1>13. StepFinds'
  <2>1. /\ run'.step = "mount" /\ run'.image = m
        /\ volumes'[m].tree # "blank" /\ ~volumes'[m].sealed
        /\ mounted'[m] = "no"
    BY <1>1, <1>2, <1>4, <1>6 DEF m
  <2>2. \A s \in Slots : ~(children'[s] # Nil /\ children'[s].image = m
                               /\ ~children'[s].outdated)
    BY <1>7
  <2>3. QED
    BY <2>1, <2>2 DEF StepFinds, Origin, FreshChild
<1>14. MountsHold'
  <2>1. \A n \in Images : Inside(n)' = Inside(n)
    BY <1>7 DEF Inside
  <2>2. QED
    BY <1>1, <1>4, <1>6, <2>1 DEF ImageInv, MountsHold
<1>15. ChildrenKnown'
  BY <1>7, <1>8, <1>10 DEF ImageInv, ChildrenKnown
<1>16. MarkersTrue'
  <2> SUFFICES ASSUME ~strayed
               PROVE  MarkersTrue'
    BY <1>1 DEF MarkersTrue
  <2>1. ASSUME NEW n \in Images, volumes'[n] # Nil, volumes'[n].marker # Nil
        PROVE  /\ volumes'[n].marker = "whole"
               /\ volumes'[n].tree = "whole"
               /\ \A s \in Slots : ~FreshChild(s, n)'
    BY <1>4, <1>6, <1>8, <2>1 DEF ImageInv, MarkersTrue
  <2>2. ASSUME NEW s \in Slots, children'[s] # Nil
        PROVE  /\ children'[s].phase # "load" => ~children'[s].outdated
               /\ children'[s].phase \in {"digest", "marker"} =>
                     volumes'[children'[s].image].tree = "whole"
               /\ children'[s].phase = "marker" => children'[s].digest = "whole"
    BY <1>6, <1>7, <1>9, <2>2, Entries DEF ImageInv, MarkersTrue
  <2>3. Origin'.marker = Nil
    BY <1>2, <1>4, <1>6 DEF Origin, m
  <2>4. QED
    BY <2>1, <2>2, <2>3 DEF MarkersTrue
<1>17. SnapshotsKnown'
  BY <1>1, <1>3, <1>6, Entries DEF ImageInv, SnapshotsKnown, Row
<1>18. QED
  BY <1>11, <1>12, <1>13, <1>14, <1>15, <1>16, <1>17 DEF ImageInv

LEMMA MountKeeps ==
  ASSUME ImageInv, Mount
  PROVE  ImageInv'
<1> DEFINE m == run.image
<1>1. /\ run # Nil /\ run.step = "mount" /\ GoStep("spawn")
      /\ mounted' = [mounted EXCEPT ![m] = "rw"]
      /\ UNCHANGED <<rows, volumes, snapshots, minted, children, strayed>>
  BY DEF Mount, AtStep
<1>2. /\ run' \in Run /\ run' # Nil
      /\ run'.op = run.op /\ run'.image = run.image /\ run'.step = "spawn"
      /\ run'.valid = run.valid /\ run'.uuid = run.uuid
  BY <1>1, GoneOn DEF Step
<1>3. /\ m \in Images /\ run.op \in Ops /\ volumes[m] # Nil
      /\ volumes[m].tree # "blank" /\ ~volumes[m].sealed
  BY <1>1, Entries DEF ImageInv, RunKnows, StepFinds, Origin
<1> HIDE DEF m
<1>4. /\ mounted' \in [Images -> {"no", "ro", "rw"}]
      /\ mounted'[m] = "rw"
      /\ \A n \in Images \ {m} : mounted'[n] = mounted[n]
  BY <1>1, <1>3 DEF ImageInv, ImageTypeOK
<1>5. ImageTypeOK'
  BY <1>1, <1>2, <1>4 DEF ImageInv, ImageTypeOK
<1>6. RunKnows'
  BY <1>1, <1>2 DEF ImageInv, RunKnows, Origin
<1>7. StepFinds'
  BY <1>1, <1>2 DEF ImageInv, StepFinds, Origin, FreshChild
<1>8. MountsHold'
  BY <1>1, <1>3, <1>4 DEF ImageInv, MountsHold, Inside
<1>9. ChildrenKnown'
  BY <1>1 DEF ImageInv, ChildrenKnown, FreshChild
<1>10. MarkersTrue'
  BY <1>1, <1>2 DEF ImageInv, MarkersTrue, FreshChild, Origin
<1>11. SnapshotsKnown'
  BY <1>1 DEF ImageInv, SnapshotsKnown
<1>12. QED
  BY <1>5, <1>6, <1>7, <1>8, <1>9, <1>10, <1>11 DEF ImageInv

LEMMA SpawnKeeps ==
  ASSUME ImageInv, NEW s \in Slots, Spawn(s)
  PROVE  ImageInv'
<1> DEFINE child == [image |-> run.image, parent |-> run.op, digest |-> Nil,
                     phase |-> "load", outdated |-> FALSE]
<1>1. /\ run # Nil /\ run.step = "spawn" /\ GoStep("wait")
      /\ children[s] = Nil
      /\ children' = [children EXCEPT ![s] = child]
      /\ UNCHANGED <<rows, volumes, mounted, snapshots, minted, strayed>>
  BY DEF Spawn, AtStep
<1>2. /\ run' \in Run /\ run' # Nil
      /\ run'.op = run.op /\ run'.image = run.image /\ run'.step = "wait"
      /\ run'.valid = run.valid /\ run'.uuid = run.uuid
  BY <1>1, GoneOn DEF Step
<1>3. run.image \in Images /\ run.op \in Ops
  BY <1>1, Entries
<1>4. /\ child \in Child /\ child # Nil
      /\ child.image = run.image /\ child.parent = run.op
      /\ child.phase = "load" /\ ~child.outdated
  <2>1. child \in Child
    BY <1>3 DEF Child
  <2>2. QED
    BY <2>1, NilAssumption
<1> HIDE DEF child
<1>5. /\ children' \in [Slots -> Child \cup {Nil}]
      /\ children'[s] = child
      /\ \A t \in Slots \ {s} : children'[t] = children[t]
  BY <1>1, <1>4 DEF ImageInv, ImageTypeOK
<1>6. \A t \in Slots : ~FreshChild(t, run.image)
  BY <1>1 DEF ImageInv, StepFinds
<1>7. \A t \in Slots \ {s} : children[t] # Nil => children[t].parent = Nil
  BY <1>1 DEF ImageInv, ChildrenKnown
<1>8. ImageTypeOK'
  BY <1>1, <1>2, <1>5 DEF ImageInv, ImageTypeOK
<1>9. RunKnows'
  BY <1>1, <1>2 DEF ImageInv, RunKnows, Origin
<1>10. StepFinds'
  BY <1>1, <1>2 DEF ImageInv, StepFinds, Origin
<1>11. MountsHold'
  <2>1. \A n \in Images : Inside(n)' = Inside(n)
    BY <1>1, <1>4, <1>5 DEF Inside
  <2>2. QED
    BY <1>1, <2>1 DEF ImageInv, MountsHold
<1>12. ChildrenKnown'
  <2>1. ASSUME NEW t \in Slots, children'[t] # Nil
        PROVE  /\ children'[t].parent # Nil =>
                     /\ run' # Nil /\ run'.step = "wait"
                     /\ children'[t].parent = run'.op
                     /\ children'[t].image = run'.image /\ ~children'[t].outdated
               /\ children'[t].phase = "marker" => children'[t].digest # Nil
    BY <1>2, <1>4, <1>5, <1>7, <2>1 DEF ImageInv, ChildrenKnown
  <2>2. ASSUME NEW t \in Slots, NEW u \in Slots, NEW m \in Images,
               FreshChild(t, m)', FreshChild(u, m)'
        PROVE  t = u
    BY <1>4, <1>5, <1>6, <2>2 DEF ImageInv, ChildrenKnown, FreshChild
  <2>3. QED
    BY <2>1, <2>2 DEF ChildrenKnown, FreshChild
<1>13. MarkersTrue'
  <2> SUFFICES ASSUME ~strayed
               PROVE  MarkersTrue'
    BY <1>1 DEF MarkersTrue
  <2>1. ASSUME NEW m \in Images, volumes[m] # Nil, volumes[m].marker # Nil
        PROVE  /\ volumes[m].marker = "whole"
               /\ volumes[m].tree = "whole"
               /\ \A t \in Slots : ~FreshChild(t, m)'
    <3>1. m # run.image
      BY <1>1, <2>1 DEF ImageInv, MarkersTrue, Origin
    <3>2. QED
      BY <1>4, <1>5, <2>1, <3>1 DEF ImageInv, MarkersTrue, FreshChild
  <2>2. ASSUME NEW t \in Slots, children'[t] # Nil
        PROVE  /\ children'[t].phase # "load" => ~children'[t].outdated
               /\ children'[t].phase \in {"digest", "marker"} =>
                     volumes[children'[t].image].tree = "whole"
               /\ children'[t].phase = "marker" => children'[t].digest = "whole"
    BY <1>4, <1>5, <2>2 DEF ImageInv, MarkersTrue
  <2>3. QED
    BY <1>1, <1>2, <2>1, <2>2 DEF MarkersTrue
<1>14. SnapshotsKnown'
  BY <1>1 DEF ImageInv, SnapshotsKnown
<1>15. QED
  BY <1>8, <1>9, <1>10, <1>11, <1>12, <1>13, <1>14 DEF ImageInv

LEMMA UnmountKeeps ==
  ASSUME ImageInv, Unmount
  PROVE  ImageInv'
<1> DEFINE m == run.image
<1>1. /\ run # Nil /\ run.step = "unmount" /\ GoStep("seal")
      /\ mounted[m] = "no" \/ Inside(m) = {}
      /\ mounted' = [mounted EXCEPT ![m] = "no"]
      /\ UNCHANGED <<rows, volumes, snapshots, minted, children, strayed>>
  BY DEF Unmount, AtStep, CanUnmount
<1>2. /\ run' \in Run /\ run' # Nil
      /\ run'.op = run.op /\ run'.image = run.image /\ run'.step = "seal"
      /\ run'.valid = run.valid /\ run'.uuid = run.uuid
  BY <1>1, GoneOn DEF Step
<1>3. m \in Images /\ run.op \in Ops
  BY <1>1, Entries
<1>4. /\ mounted' \in [Images -> {"no", "ro", "rw"}]
      /\ mounted'[m] = "no"
      /\ \A n \in Images \ {m} : mounted'[n] = mounted[n]
  BY <1>1, <1>3 DEF ImageInv, ImageTypeOK
<1>5. ImageTypeOK'
  BY <1>1, <1>2, <1>4 DEF ImageInv, ImageTypeOK
<1>6. RunKnows'
  BY <1>1, <1>2 DEF ImageInv, RunKnows, Origin
<1>7. StepFinds'
  BY <1>1, <1>2, <1>4 DEF ImageInv, StepFinds, Origin
<1>8. MountsHold'
  BY <1>1, <1>3, <1>4 DEF ImageInv, MountsHold, Inside
<1>9. ChildrenKnown'
  BY <1>1 DEF ImageInv, ChildrenKnown, FreshChild
<1>10. MarkersTrue'
  BY <1>1, <1>2 DEF ImageInv, MarkersTrue, FreshChild
<1>11. SnapshotsKnown'
  BY <1>1 DEF ImageInv, SnapshotsKnown
<1>12. QED
  BY <1>5, <1>6, <1>7, <1>8, <1>9, <1>10, <1>11 DEF ImageInv

LEMMA SealKeeps ==
  ASSUME ImageInv, Seal
  PROVE  ImageInv'
<1> DEFINE m == run.image
           closed == [volumes[m] EXCEPT !.sealed = TRUE]
<1>1. /\ run # Nil /\ run.step = "seal" /\ GoStep("stage")
      /\ volumes' = [volumes EXCEPT ![m] = closed]
      /\ UNCHANGED <<rows, mounted, snapshots, minted, children, strayed>>
  BY DEF Seal, AtStep
<1>2. /\ run' \in Run /\ run' # Nil
      /\ run'.op = run.op /\ run'.image = run.image /\ run'.step = "stage"
      /\ run'.valid = run.valid /\ run'.uuid = run.uuid
  BY <1>1, GoneOn DEF Step
<1>3. /\ m \in Images /\ run.op \in Ops /\ volumes[m] \in Volume
      /\ volumes[m] # Nil /\ mounted[m] = "no"
      /\ volumes[m].tree # "blank" /\ volumes[m].marker # Nil
  BY <1>1, Entries DEF ImageInv, RunKnows, StepFinds, Origin
<1>4. /\ closed \in Volume /\ closed.tree = volumes[m].tree
      /\ closed.marker = volumes[m].marker /\ closed.sealed
  BY <1>3 DEF Volume
<1> HIDE DEF closed
<1>5. /\ volumes' \in [Images -> Volume \cup {Nil}]
      /\ volumes'[m] = closed /\ closed # Nil
      /\ \A n \in Images \ {m} : volumes'[n] = volumes[n]
  BY <1>1, <1>3, <1>4, VolumeChanged
<1>6. \A n \in Images :
         /\ volumes'[n] = Nil <=> volumes[n] = Nil
         /\ volumes[n] # Nil =>
               /\ volumes'[n].tree = volumes[n].tree
               /\ volumes'[n].marker = volumes[n].marker
               /\ volumes[n].sealed => volumes'[n].sealed
               /\ volumes'[n].sealed => volumes[n].sealed \/ n = m
  BY <1>3, <1>4, <1>5
<1>7. ImageTypeOK'
  BY <1>1, <1>2, <1>5 DEF ImageInv, ImageTypeOK
<1>8. RunKnows'
  BY <1>1, <1>2, <1>5 DEF ImageInv, RunKnows, Origin
<1>9. StepFinds'
  BY <1>2, <1>3, <1>4, <1>5 DEF StepFinds, Origin
<1>10. MountsHold'
  <2>1. \A n \in Images : Inside(n)' = Inside(n)
    BY <1>1 DEF Inside
  <2>2. QED
    BY <1>1, <1>3, <1>6, <2>1 DEF ImageInv, MountsHold
<1>11. ChildrenKnown'
  BY <1>1 DEF ImageInv, ChildrenKnown, FreshChild
<1>12. MarkersTrue'
  <2> SUFFICES ASSUME ~strayed
               PROVE  MarkersTrue'
    BY <1>1 DEF MarkersTrue
  <2>1. ASSUME NEW s \in Slots, children[s] # Nil,
               children[s].phase \in {"digest", "marker"}
        PROVE  volumes'[children[s].image].tree = "whole"
    <3>1. children[s].image \in Images /\ s \in Inside(children[s].image)
      BY <2>1, Entries DEF Inside
    <3>2. volumes[children[s].image] # Nil
      BY <3>1 DEF ImageInv, MountsHold
    <3>3. QED
      BY <1>6, <2>1, <3>1, <3>2 DEF ImageInv, MarkersTrue
  <2>2. QED
    BY <1>1, <1>2, <1>6, <2>1 DEF ImageInv, MarkersTrue, FreshChild
<1>13. SnapshotsKnown'
  BY <1>1, <1>6, Entries DEF ImageInv, SnapshotsKnown, Row
<1>14. QED
  BY <1>7, <1>8, <1>9, <1>10, <1>11, <1>12, <1>13 DEF ImageInv

LEMMA StageSealedKeeps ==
  ASSUME ImageInv, StageSealed
  PROVE  ImageInv'
<1>1. /\ run # Nil /\ run.step = "stage"
      /\ rows' = [rows EXCEPT ![run.op].phase = "sealed"]
      /\ GoStep("snapshot")
      /\ UNCHANGED <<volumes, mounted, snapshots, minted, children, strayed>>
  BY DEF StageSealed, AtStep
<1>2. /\ run' \in Run /\ run' # Nil
      /\ run'.op = run.op /\ run'.image = run.image /\ run'.step = "snapshot"
      /\ run'.valid = run.valid /\ run'.uuid = run.uuid
  BY <1>1, GoneOn DEF Step
<1>3. /\ rows' \in [Ops -> Row \cup {Nil}]
      /\ \A op \in Ops : rows'[op] = Nil <=> rows[op] = Nil
      /\ \A op \in Ops : rows[op] # Nil =>
            rows'[op].image = rows[op].image /\ rows'[op].uuid = rows[op].uuid
  BY <1>1, Staged
<1>4. ImageTypeOK'
  BY <1>1, <1>2, <1>3 DEF ImageInv, ImageTypeOK
<1>5. RunKnows'
  BY <1>1, <1>2, <1>3, Entries DEF ImageInv, RunKnows, Origin
<1>6. StepFinds'
  BY <1>1, <1>2 DEF ImageInv, StepFinds, Origin
<1>7. MountsHold'
  BY <1>1 DEF ImageInv, MountsHold, Inside
<1>8. ChildrenKnown'
  BY <1>1 DEF ImageInv, ChildrenKnown, FreshChild
<1>9. MarkersTrue'
  BY <1>1, <1>2 DEF ImageInv, MarkersTrue, FreshChild
<1>10. SnapshotsKnown'
  BY <1>1, <1>3, Entries DEF ImageInv, SnapshotsKnown, Row
<1>11. QED
  BY <1>4, <1>5, <1>6, <1>7, <1>8, <1>9, <1>10 DEF ImageInv

LEMMA CreateSnapshotKeeps ==
  ASSUME ImageInv, CreateSnapshot
  PROVE  ImageInv'
<1> DEFINE op == run.op
           m == run.image
<1>1. /\ run # Nil /\ run.step = "snapshot" /\ GoStep("writable")
      /\ UNCHANGED <<rows, volumes, mounted, children, strayed>>
  BY DEF CreateSnapshot, AtStep
<1>2. /\ run' \in Run /\ run' # Nil
      /\ run'.op = run.op /\ run'.image = run.image /\ run'.step = "writable"
      /\ run'.valid = run.valid /\ run'.uuid = run.uuid
  BY <1>1, GoneOn DEF Step
<1>3. /\ op \in Ops /\ m \in Images
      /\ rows[op] # Nil /\ rows[op].image = m /\ rows[op].uuid = run.uuid
      /\ volumes[m] # Nil /\ volumes[m] \in Volume /\ volumes[m].sealed
      /\ minted \in Nat
  BY <1>1, Entries DEF ImageInv, RunKnows, StepFinds, Origin, ImageTypeOK
<1>4. volumes[m].marker # Nil /\ (~strayed => volumes[m].tree = "whole")
  BY <1>3 DEF ImageInv, MountsHold, MarkersTrue
<1>5. /\ snapshots' \in [Ops -> Snapshot \cup {Nil}] /\ minted' \in Nat
      /\ snapshots'[op] # Nil
      /\ snapshots'[op].origin = m /\ snapshots'[op].uuid # 0
      /\ run.uuid \in {0, snapshots'[op].uuid}
      /\ ~strayed => snapshots'[op].tree = "whole"
      /\ \A p \in Ops \ {op} : snapshots'[p] = snapshots[p]
  <2>1. CASE snapshots[op] = Nil
    <3>1. PICK writable \in BOOLEAN :
            snapshots' = [snapshots EXCEPT ![op] =
                [uuid |-> minted + 1, origin |-> m, tree |-> volumes[m].tree,
                 writable |-> writable, active |-> FALSE]]
      BY <2>1 DEF CreateSnapshot, Origin
    <3> DEFINE snap == [uuid |-> minted + 1, origin |-> m,
                        tree |-> volumes[m].tree,
                        writable |-> writable, active |-> FALSE]
    <3>2. volumes[m].tree \in Trees
      BY <1>3 DEF Volume
    <3>3. /\ snap \in Snapshot
          /\ snap.uuid = minted + 1 /\ snap.origin = m
          /\ snap.tree = volumes[m].tree
      BY <1>3, <3>2 DEF Snapshot
    <3>4. snap # Nil
      BY <3>3, NilAssumption
    <3>5. snapshots' = [snapshots EXCEPT ![op] = snap]
      BY <3>1
    <3>6. run.uuid = 0 /\ minted' = minted + 1
      BY <2>1 DEF CreateSnapshot
    <3> HIDE DEF snap, op, m
    <3>7. QED
      BY <1>3, <1>4, <3>3, <3>4, <3>5, <3>6 DEF ImageInv, ImageTypeOK
  <2>2. CASE snapshots[op] # Nil
    <3>1. /\ snapshots' = snapshots /\ minted' = minted
          /\ snapshots[op].origin = m
          /\ run.uuid \in {0, snapshots[op].uuid}
      BY <2>2 DEF CreateSnapshot
    <3>2. snapshots[op].uuid # 0 /\ (~strayed => snapshots[op].tree = "whole")
      BY <1>3, <2>2 DEF ImageInv, SnapshotsKnown
    <3>3. QED
      BY <1>3, <2>2, <3>1, <3>2 DEF ImageInv, ImageTypeOK
  <2>3. QED
    BY <2>1, <2>2
<1>6. ImageTypeOK'
  BY <1>1, <1>2, <1>5 DEF ImageInv, ImageTypeOK
<1>7. RunKnows'
  BY <1>1, <1>2 DEF ImageInv, RunKnows, Origin
<1>8. StepFinds'
  BY <1>1, <1>2, <1>5 DEF ImageInv, StepFinds, Origin
<1>9. MountsHold'
  BY <1>1 DEF ImageInv, MountsHold, Inside
<1>10. ChildrenKnown'
  BY <1>1 DEF ImageInv, ChildrenKnown, FreshChild
<1>11. MarkersTrue'
  BY <1>1, <1>2 DEF ImageInv, MarkersTrue, FreshChild
<1> HIDE DEF op, m
<1>12. SnapshotsKnown'
  <2>1. ASSUME NEW p \in Ops, snapshots'[p] # Nil
        PROVE  /\ rows[p] # Nil
               /\ snapshots'[p].origin = rows[p].image
               /\ snapshots'[p].uuid # 0
               /\ volumes[rows[p].image] # Nil
               /\ volumes[rows[p].image].sealed
               /\ ~strayed => snapshots'[p].tree = "whole"
    BY <1>3, <1>5, <2>1 DEF ImageInv, SnapshotsKnown
  <2>2. ASSUME NEW p \in Ops, rows[p] # Nil, rows[p].uuid # 0
        PROVE  snapshots'[p] # Nil /\ snapshots'[p].uuid = rows[p].uuid
    BY <1>3, <1>5, <2>2 DEF ImageInv, SnapshotsKnown
  <2>3. QED
    BY <1>1, <2>1, <2>2 DEF SnapshotsKnown
<1>13. QED
  BY <1>6, <1>7, <1>8, <1>9, <1>10, <1>11, <1>12 DEF ImageInv

\* Every snapshot is there with its identity, its origin and its files.
SameSnapshot ==
    /\ snapshots' \in [Ops -> Snapshot \cup {Nil}]
    /\ \A op \in Ops :
          /\ snapshots'[op] = Nil <=> snapshots[op] = Nil
          /\ snapshots[op] # Nil =>
                /\ snapshots'[op].uuid = snapshots[op].uuid
                /\ snapshots'[op].origin = snapshots[op].origin
                /\ snapshots'[op].tree = snapshots[op].tree

LEMMA MakeWritableKeeps ==
  ASSUME ImageInv, MakeWritable
  PROVE  ImageInv'
<1>1. /\ run # Nil /\ run.step = "writable" /\ GoStep("activate")
      /\ snapshots' = [snapshots EXCEPT ![run.op].writable = TRUE]
      /\ UNCHANGED <<rows, volumes, mounted, minted, children, strayed>>
  BY DEF MakeWritable, AtStep
<1>2. /\ run' \in Run /\ run' # Nil
      /\ run'.op = run.op /\ run'.image = run.image /\ run'.step = "activate"
      /\ run'.valid = run.valid /\ run'.uuid = run.uuid
  BY <1>1, GoneOn DEF Step
<1>3. SameSnapshot
  <2> DEFINE snap == [snapshots[run.op] EXCEPT !.writable = TRUE]
  <2>1. run.op \in Ops /\ snapshots[run.op] # Nil /\ snapshots[run.op] \in Snapshot
    BY <1>1, Entries DEF ImageInv, StepFinds
  <2>2. /\ snap \in Snapshot /\ snap # Nil
        /\ snap.uuid = snapshots[run.op].uuid
        /\ snap.origin = snapshots[run.op].origin
        /\ snap.tree = snapshots[run.op].tree
    BY <2>1, NilAssumption DEF Snapshot
  <2>3. snapshots' = [snapshots EXCEPT ![run.op] = snap]
    BY <1>1
  <2> HIDE DEF snap
  <2>4. QED
    BY <2>1, <2>2, <2>3 DEF SameSnapshot, ImageInv, ImageTypeOK
<1>4. ImageTypeOK'
  BY <1>1, <1>2, <1>3 DEF ImageInv, ImageTypeOK, SameSnapshot
<1>5. RunKnows'
  BY <1>1, <1>2 DEF ImageInv, RunKnows, Origin
<1>6. StepFinds'
  BY <1>1, <1>2, <1>3, Entries DEF ImageInv, StepFinds, Origin, SameSnapshot
<1>7. MountsHold'
  BY <1>1 DEF ImageInv, MountsHold, Inside
<1>8. ChildrenKnown'
  BY <1>1 DEF ImageInv, ChildrenKnown, FreshChild
<1>9. MarkersTrue'
  BY <1>1, <1>2 DEF ImageInv, MarkersTrue, FreshChild
<1>10. SnapshotsKnown'
  BY <1>1, <1>3 DEF ImageInv, SnapshotsKnown, SameSnapshot
<1>11. QED
  BY <1>4, <1>5, <1>6, <1>7, <1>8, <1>9, <1>10 DEF ImageInv

LEMMA ActivateSnapshotKeeps ==
  ASSUME ImageInv, ActivateSnapshot
  PROVE  ImageInv'
<1>1. /\ run # Nil /\ run.step = "activate" /\ GoStep("register")
      /\ snapshots' = [snapshots EXCEPT ![run.op].active = TRUE]
      /\ UNCHANGED <<rows, volumes, mounted, minted, children, strayed>>
  BY DEF ActivateSnapshot, AtStep
<1>2. /\ run' \in Run /\ run' # Nil
      /\ run'.op = run.op /\ run'.image = run.image /\ run'.step = "register"
      /\ run'.valid = run.valid /\ run'.uuid = run.uuid
  BY <1>1, GoneOn DEF Step
<1>3. SameSnapshot
  <2> DEFINE snap == [snapshots[run.op] EXCEPT !.active = TRUE]
  <2>1. run.op \in Ops /\ snapshots[run.op] # Nil /\ snapshots[run.op] \in Snapshot
    BY <1>1, Entries DEF ImageInv, StepFinds
  <2>2. /\ snap \in Snapshot /\ snap # Nil
        /\ snap.uuid = snapshots[run.op].uuid
        /\ snap.origin = snapshots[run.op].origin
        /\ snap.tree = snapshots[run.op].tree
    BY <2>1, NilAssumption DEF Snapshot
  <2>3. snapshots' = [snapshots EXCEPT ![run.op] = snap]
    BY <1>1
  <2> HIDE DEF snap
  <2>4. QED
    BY <2>1, <2>2, <2>3 DEF SameSnapshot, ImageInv, ImageTypeOK
<1>4. ImageTypeOK'
  BY <1>1, <1>2, <1>3 DEF ImageInv, ImageTypeOK, SameSnapshot
<1>5. RunKnows'
  BY <1>1, <1>2 DEF ImageInv, RunKnows, Origin
<1>6. StepFinds'
  BY <1>1, <1>2, <1>3, Entries DEF ImageInv, StepFinds, Origin, SameSnapshot
<1>7. MountsHold'
  BY <1>1 DEF ImageInv, MountsHold, Inside
<1>8. ChildrenKnown'
  BY <1>1 DEF ImageInv, ChildrenKnown, FreshChild
<1>9. MarkersTrue'
  BY <1>1, <1>2 DEF ImageInv, MarkersTrue, FreshChild
<1>10. SnapshotsKnown'
  BY <1>1, <1>3 DEF ImageInv, SnapshotsKnown, SameSnapshot
<1>11. QED
  BY <1>4, <1>5, <1>6, <1>7, <1>8, <1>9, <1>10 DEF ImageInv

\* The run is over, whether it has succeeded or not.
LEMMA RegisteredKeeps ==
  ASSUME ImageInv, Registered
  PROVE  ImageInv'
<1> DEFINE op == run.op
           row == [rows[op] EXCEPT !.phase = "registered",
                                   !.uuid = snapshots[op].uuid]
<1>1. /\ run # Nil /\ run.step = "register" /\ run' = Nil
      /\ rows' = [rows EXCEPT ![op].phase = "registered",
                              ![op].uuid = snapshots[op].uuid]
      /\ UNCHANGED <<volumes, mounted, snapshots, minted, children, strayed>>
  BY DEF Registered, AtStep
<1>2. /\ op \in Ops /\ rows[op] # Nil /\ rows[op] \in Row
      /\ snapshots[op] # Nil /\ snapshots[op] \in Snapshot
  BY <1>1, Entries DEF ImageInv, RunKnows, StepFinds
<1>3. snapshots[op].uuid \in Nat
  BY <1>2 DEF Snapshot
<1>4. /\ row \in Row /\ row # Nil /\ row.image = rows[op].image
      /\ row.uuid = snapshots[op].uuid
  BY <1>2, <1>3, NilAssumption DEF Row
<1>5. rows' = [rows EXCEPT ![op] = row]
  BY <1>1, <1>2 DEF ImageInv, ImageTypeOK, Row
<1> HIDE DEF row, op
<1>6. /\ rows' \in [Ops -> Row \cup {Nil}]
      /\ rows'[op] = row
      /\ \A p \in Ops \ {op} : rows'[p] = rows[p]
  BY <1>2, <1>4, <1>5 DEF ImageInv, ImageTypeOK
<1>7. ImageTypeOK'
  BY <1>1, <1>6 DEF ImageInv, ImageTypeOK
<1>8. RunKnows' /\ StepFinds'
  BY <1>1 DEF RunKnows, StepFinds
<1>9. MountsHold'
  BY <1>1 DEF ImageInv, MountsHold, Inside
<1>10. ChildrenKnown'
  BY <1>1 DEF ImageInv, ChildrenKnown, FreshChild
<1>11. MarkersTrue'
  BY <1>1 DEF ImageInv, MarkersTrue, FreshChild
<1>12. SnapshotsKnown'
  <2>1. ASSUME NEW p \in Ops, snapshots[p] # Nil
        PROVE  /\ rows'[p] # Nil
               /\ snapshots[p].origin = rows'[p].image
               /\ snapshots[p].uuid # 0
               /\ volumes[rows'[p].image] # Nil
               /\ volumes[rows'[p].image].sealed
               /\ ~strayed => snapshots[p].tree = "whole"
    BY <1>2, <1>4, <1>6, <2>1 DEF ImageInv, SnapshotsKnown
  <2>2. ASSUME NEW p \in Ops, rows'[p] # Nil, rows'[p].uuid # 0
        PROVE  snapshots[p] # Nil /\ snapshots[p].uuid = rows'[p].uuid
    BY <1>2, <1>4, <1>6, <2>2 DEF ImageInv, SnapshotsKnown
  <2>3. QED
    BY <1>1, <2>1, <2>2 DEF SnapshotsKnown
<1>13. QED
  BY <1>7, <1>8, <1>9, <1>10, <1>11, <1>12 DEF ImageInv

-----------------------------------------------------------------------------
(***************************************************************************)
(* The ends of runs and of extraction processes.                           *)
(***************************************************************************)

\* Every process that is left was there before; it may have lost its parent.
FewerChildren ==
    \A s \in Slots : children'[s] # Nil =>
        /\ children[s] # Nil
        /\ children'[s] \in Child
        /\ children'[s].image = children[s].image
        /\ children'[s].phase = children[s].phase
        /\ children'[s].digest = children[s].digest
        /\ children'[s].outdated = children[s].outdated
        /\ children'[s].parent \in {Nil, children[s].parent}

\* A process or a run can end at every point, and a run leaves no process that
\* calls it its parent.
LEMMA EndsKeep ==
  ASSUME ImageInv, FewerChildren, children' \in [Slots -> Child \cup {Nil}],
         run' = run \/ run' = Nil,
         run' = Nil =>
            \A s \in Slots : children'[s] # Nil => children'[s].parent = Nil,
         UNCHANGED <<rows, volumes, mounted, snapshots, minted, strayed>>
  PROVE  ImageInv'
<1>1. ImageTypeOK'
  BY DEF ImageInv, ImageTypeOK
<1>2. RunKnows'
  BY DEF ImageInv, RunKnows, Origin
<1>3. \A s \in Slots, m \in Images : FreshChild(s, m)' => FreshChild(s, m)
  BY DEF FewerChildren, FreshChild
<1>4. StepFinds'
  BY DEF ImageInv, StepFinds, Origin, FewerChildren, FreshChild
<1>5. MountsHold'
  <2>1. \A m \in Images : Inside(m)' \subseteq Inside(m)
    BY DEF Inside, FewerChildren
  <2>2. QED
    BY <2>1 DEF ImageInv, MountsHold
<1>6. ChildrenKnown'
  <2>1. ASSUME NEW s \in Slots, children'[s] # Nil
        PROVE  /\ children'[s].parent # Nil =>
                     /\ run' # Nil /\ run'.step = "wait"
                     /\ children'[s].parent = run'.op
                     /\ FreshChild(s, run.image)'
               /\ children'[s].phase = "marker" => children'[s].digest # Nil
    BY <2>1 DEF ImageInv, ChildrenKnown, FewerChildren, FreshChild
  <2>2. \A s, t \in Slots, m \in Images :
           FreshChild(s, m)' /\ FreshChild(t, m)' => s = t
    BY <1>3 DEF ImageInv, ChildrenKnown
  <2>3. QED
    BY <2>1, <2>2 DEF ChildrenKnown
<1>7. MarkersTrue'
  <2> SUFFICES ASSUME ~strayed
               PROVE  MarkersTrue'
    BY DEF MarkersTrue
  <2>1. ASSUME NEW m \in Images, volumes[m] # Nil, volumes[m].marker # Nil
        PROVE  /\ volumes[m].marker = "whole"
               /\ volumes[m].tree = "whole"
               /\ \A s \in Slots : ~FreshChild(s, m)'
    BY <1>3, <2>1 DEF ImageInv, MarkersTrue
  <2>2. ASSUME NEW s \in Slots, children'[s] # Nil
        PROVE  /\ children'[s].phase # "load" => ~children'[s].outdated
               /\ children'[s].phase \in {"digest", "marker"} =>
                     volumes[children'[s].image].tree = "whole"
               /\ children'[s].phase = "marker" => children'[s].digest = "whole"
    BY <2>2 DEF ImageInv, MarkersTrue, FewerChildren
  <2>3. run' # Nil /\ run'.step \in {"mount", "spawn"} => Origin'.marker = Nil
    BY DEF ImageInv, MarkersTrue, Origin
  <2>4. QED
    BY <2>1, <2>2, <2>3 DEF MarkersTrue
<1>8. SnapshotsKnown'
  BY DEF ImageInv, SnapshotsKnown
<1>9. QED
  BY <1>1, <1>2, <1>4, <1>5, <1>6, <1>7, <1>8 DEF ImageInv

\* A run that is refused leaves the volume mounted while a process is in it, and
\* unmounts it otherwise.
LEMMA RunRefusedKeeps ==
  ASSUME ImageInv, RunRefused
  PROVE  ImageInv'
<1> DEFINE m == run.image
<1>1. /\ run # Nil /\ run.step # "wait" /\ run' = Nil
      /\ UNCHANGED <<rows, volumes, snapshots, minted, children, strayed>>
      /\ \/ mounted' = mounted
         \/ /\ mounted' = [mounted EXCEPT ![m] = "no"]
            /\ mounted[m] = "no" \/ Inside(m) = {}
  BY DEF RunRefused, AtStep, CanUnmount
<1>2. m \in Images
  BY <1>1, Entries
<1>3. \A s \in Slots : children[s] # Nil => children[s].parent = Nil
  BY <1>1 DEF ImageInv, ChildrenKnown
<1> HIDE DEF m
<1>4. /\ mounted' \in [Images -> {"no", "ro", "rw"}]
      /\ \A n \in Images : \/ mounted'[n] = mounted[n]
                           \/ /\ mounted'[n] = "no"
                              /\ mounted[n] = "no" \/ Inside(n) = {}
  BY <1>1, <1>2 DEF ImageInv, ImageTypeOK
<1>5. ImageTypeOK'
  BY <1>1, <1>4 DEF ImageInv, ImageTypeOK
<1>6. RunKnows' /\ StepFinds'
  BY <1>1 DEF RunKnows, StepFinds
<1>7. MountsHold'
  BY <1>1, <1>4 DEF ImageInv, MountsHold, Inside
<1>8. ChildrenKnown'
  BY <1>1, <1>3 DEF ImageInv, ChildrenKnown, FreshChild
<1>9. MarkersTrue'
  BY <1>1 DEF ImageInv, MarkersTrue, FreshChild
<1>10. SnapshotsKnown'
  BY <1>1 DEF ImageInv, SnapshotsKnown
<1>11. QED
  BY <1>5, <1>6, <1>7, <1>8, <1>9, <1>10 DEF ImageInv

\* The process that a run waits for is the only one that has a parent.
LEMMA OneChild ==
  ASSUME ImageInv, NEW s \in Slots, Own(s), NEW t \in Slots,
         children[t] # Nil, children[t].parent # Nil
  PROVE  t = s
<1>1. run # Nil /\ children[s] # Nil /\ children[s].parent = run.op
  BY DEF Own
<1>2. run.op \in Ops /\ run.image \in Images
  BY <1>1, Entries
<1>3. children[s].parent # Nil
  BY <1>1, <1>2, NilAssumption
<1>4. FreshChild(s, run.image) /\ FreshChild(t, run.image)
  BY <1>1, <1>3 DEF ImageInv, ChildrenKnown
<1>5. QED
  BY <1>2, <1>4 DEF ImageInv, ChildrenKnown

LEMMA ChildGone ==
  ASSUME ImageInv, NEW s \in Slots, children' = [children EXCEPT ![s] = Nil],
         run' = run \/ (Own(s) /\ run' = Nil),
         UNCHANGED <<rows, volumes, mounted, snapshots, minted, strayed>>
  PROVE  ImageInv'
<1>1. /\ children'[s] = Nil
      /\ \A t \in Slots \ {s} : children'[t] = children[t]
      /\ children' \in [Slots -> Child \cup {Nil}]
  BY DEF ImageInv, ImageTypeOK
<1>2. FewerChildren
  BY <1>1, Entries DEF FewerChildren
<1>3. run' = Nil =>
         \A t \in Slots : children'[t] # Nil => children'[t].parent = Nil
  <2>1. CASE Own(s)
    BY <1>1, <2>1, OneChild
  <2>2. CASE run' = run
    BY <1>1, <2>2 DEF ImageInv, ChildrenKnown
  <2>3. QED
    BY <2>1, <2>2
<1>4. QED
  BY <1>1, <1>2, <1>3, EndsKeep

LEMMA ChildEndsKeeps ==
  ASSUME ImageInv, NEW s \in Slots, ChildEnds(s)
  PROVE  ImageInv'
  BY ChildGone DEF ChildEnds

LEMMA RunExitsKeeps ==
  ASSUME ImageInv, RunExits
  PROVE  ImageInv'
<1>1. /\ run # Nil /\ run' = Nil
      /\ UNCHANGED <<rows, volumes, mounted, snapshots, minted, strayed>>
      /\ \/ children' = [s \in Slots |-> IF Own(s) THEN Nil ELSE children[s]]
         \/ children' = Orphans
  BY DEF RunExits
<1>2. ASSUME NEW s \in Slots, ~Own(s), children[s] # Nil
      PROVE  children[s].parent = Nil
  BY <1>1, <1>2 DEF Own, ImageInv, ChildrenKnown
<1>3. ASSUME NEW s \in Slots
      PROVE  /\ children'[s] \in Child \cup {Nil}
             /\ children'[s] # Nil =>
                   /\ children[s] # Nil
                   /\ children'[s].image = children[s].image
                   /\ children'[s].phase = children[s].phase
                   /\ children'[s].digest = children[s].digest
                   /\ children'[s].outdated = children[s].outdated
                   /\ children'[s].parent = Nil
  <2>1. CASE ~Own(s)
    <3>1. children'[s] = children[s]
      BY <1>1, <2>1 DEF Orphans
    <3>2. QED
      BY <1>2, <2>1, <3>1 DEF ImageInv, ImageTypeOK
  <2>2. CASE Own(s)
    <3>1. children[s] # Nil /\ children[s] \in Child
      BY <2>2, Entries DEF Own
    <3>2. children'[s] = Nil \/ children'[s] = [children[s] EXCEPT !.parent = Nil]
      BY <1>1, <2>2 DEF Orphans
    <3>3. QED
      BY <3>1, <3>2 DEF Child
  <2>3. QED
    BY <2>1, <2>2
<1>4. children' \in [Slots -> Child \cup {Nil}]
  BY <1>1, <1>3 DEF Orphans
<1>5. FewerChildren
  BY <1>3 DEF FewerChildren
<1>6. QED
  BY <1>1, <1>3, <1>4, <1>5, EndsKeep

LEMMA RebootsKeeps ==
  ASSUME ImageInv, Reboots
  PROVE  ImageInv'
<1>1. /\ run' = Nil /\ children' = [s \in Slots |-> Nil]
      /\ mounted' = [m \in Images |-> "no"]
      /\ UNCHANGED <<rows, volumes, minted, strayed>>
  BY DEF Reboots
<1>2. SameSnapshot
  <2>1. snapshots' = [op \in Ops |-> IF snapshots[op] = Nil
                                     THEN Nil
                                     ELSE [snapshots[op] EXCEPT !.active = FALSE]]
    BY DEF Reboots
  <2>2. ASSUME NEW op \in Ops, snapshots[op] # Nil
        PROVE  /\ snapshots'[op] \in Snapshot /\ snapshots'[op] # Nil
               /\ snapshots'[op].uuid = snapshots[op].uuid
               /\ snapshots'[op].origin = snapshots[op].origin
               /\ snapshots'[op].tree = snapshots[op].tree
    <3>1. snapshots[op] \in Snapshot
      BY <2>2, Entries
    <3>2. snapshots'[op] = [snapshots[op] EXCEPT !.active = FALSE]
      BY <2>1, <2>2
    <3>3. QED
      BY <3>1, <3>2, NilAssumption DEF Snapshot
  <2>3. QED
    BY <2>1, <2>2 DEF SameSnapshot
<1>3. ImageTypeOK'
  BY <1>1, <1>2 DEF ImageInv, ImageTypeOK, SameSnapshot
<1>4. RunKnows' /\ StepFinds'
  BY <1>1 DEF RunKnows, StepFinds
<1>5. MountsHold'
  BY <1>1 DEF ImageInv, MountsHold, Inside
<1>6. ChildrenKnown'
  BY <1>1 DEF ChildrenKnown, FreshChild
<1>7. MarkersTrue'
  BY <1>1 DEF ImageInv, MarkersTrue, FreshChild
<1>8. SnapshotsKnown'
  BY <1>1, <1>2 DEF ImageInv, SnapshotsKnown, SameSnapshot
<1>9. QED
  BY <1>3, <1>4, <1>5, <1>6, <1>7, <1>8 DEF ImageInv

-----------------------------------------------------------------------------
(***************************************************************************)
(* The steps of an extraction process.                                     *)
(***************************************************************************)

\* A process that has changed its root is in a mounted volume, which is not
\* sealed if it can be written.  Unless outdated ones have strayed it is the
\* only one there, and the volume has no marker.
LEMMA InsideVolume ==
  ASSUME ImageInv, NEW s \in Slots, children[s] # Nil, children[s].phase # "load"
  PROVE  LET m == children[s].image IN
         /\ m \in Images
         /\ volumes[m] # Nil /\ volumes[m] \in Volume
         /\ volumes[m].tree # "blank"
         /\ mounted[m] # "no"
         /\ mounted[m] = "rw" => ~volumes[m].sealed
         /\ ~strayed =>
               /\ FreshChild(s, m)
               /\ volumes[m].marker = Nil
               /\ \A t \in Slots \ {s} : ~FreshChild(t, m) /\ t \notin Inside(m)
<1> DEFINE m == children[s].image
<1>1. m \in Images /\ s \in Inside(m)
  BY Entries DEF Inside
<1>2. /\ mounted[m] # "no"
      /\ volumes[m] # Nil /\ volumes[m].tree # "blank"
      /\ mounted[m] = "rw" => ~volumes[m].sealed
  BY <1>1 DEF ImageInv, MountsHold
<1>3. ASSUME ~strayed
      PROVE  /\ FreshChild(s, m)
             /\ volumes[m].marker = Nil
             /\ \A t \in Slots \ {s} : ~FreshChild(t, m) /\ t \notin Inside(m)
  <2>1. FreshChild(s, m)
    BY <1>3 DEF ImageInv, MarkersTrue, FreshChild
  <2>2. \A t \in Slots \ {s} : ~FreshChild(t, m)
    BY <1>1, <2>1 DEF ImageInv, ChildrenKnown
  <2>3. \A t \in Slots : t \in Inside(m) => FreshChild(t, m)
    BY <1>3 DEF ImageInv, MarkersTrue, FreshChild, Inside
  <2>4. volumes[m].marker = Nil
    BY <1>1, <1>2, <1>3, <2>1 DEF ImageInv, MarkersTrue
  <2>5. QED
    BY <2>1, <2>2, <2>3, <2>4
<1>4. volumes[m] \in Volume
  BY <1>1, <1>2, Entries
<1>5. QED
  BY <1>1, <1>2, <1>3, <1>4

\* An outdated process that finds the volume mounted has strayed.
LEMMA EnterRootKeeps ==
  ASSUME ImageInv, NEW s \in Slots, EnterRoot(s)
  PROVE  ImageInv'
<1> DEFINE m == children[s].image
           inner == [children[s] EXCEPT !.phase = "apply"]
<1>1. /\ children[s] # Nil /\ children[s].phase = "load"
      /\ UNCHANGED <<rows, volumes, mounted, snapshots, minted, run>>
  BY DEF EnterRoot, ChildIn
<1>2. children[s] \in Child /\ m \in Images
  BY <1>1, Entries
<1>3. CASE mounted[m] = "no"
  BY <1>1, <1>3, ChildGone DEF EnterRoot
<1>4. CASE mounted[m] # "no"
  <2>1. /\ children' = [children EXCEPT ![s].phase = "apply"]
        /\ strayed' = (strayed \/ children[s].outdated)
    BY <1>4 DEF EnterRoot
  <2>2. children' = [children EXCEPT ![s] = inner]
    BY <2>1
  <2>3. /\ inner \in Child /\ inner # Nil /\ inner.phase = "apply"
        /\ inner.image = m /\ inner.parent = children[s].parent
        /\ inner.digest = children[s].digest
        /\ inner.outdated = children[s].outdated
    BY <1>2, NilAssumption DEF Child
  <2> HIDE DEF inner, m
  <2>4. /\ children' \in [Slots -> Child \cup {Nil}]
        /\ children'[s] = inner
        /\ \A t \in Slots \ {s} : children'[t] = children[t]
    BY <2>2, <2>3 DEF ImageInv, ImageTypeOK
  <2>5. strayed' \in BOOLEAN /\ (~strayed' => ~strayed /\ ~inner.outdated)
    BY <2>1, <2>3 DEF ImageInv, ImageTypeOK
  <2>6. \A t \in Slots, n \in Images : FreshChild(t, n)' <=> FreshChild(t, n)
    BY <1>1, <2>3, <2>4 DEF FreshChild, m
  <2>7. ImageTypeOK'
    BY <1>1, <2>4, <2>5 DEF ImageInv, ImageTypeOK
  <2>8. RunKnows'
    BY <1>1 DEF ImageInv, RunKnows, Origin
  <2>9. StepFinds'
    <3>1. \A t \in Slots : FreshChild(t, run.image)' <=> FreshChild(t, run.image)
      BY <1>1, <2>3, <2>4 DEF FreshChild, m
    <3>2. QED
      BY <1>1, <3>1 DEF ImageInv, StepFinds, Origin
  <2>10. MountsHold'
    <3>1. \A n \in Images : n # m => Inside(n)' = Inside(n)
      BY <2>3, <2>4 DEF Inside, m
    <3>2. QED
      BY <1>1, <1>4, <3>1 DEF ImageInv, MountsHold, m
  <2>11. ChildrenKnown'
    <3>1. ASSUME NEW t \in Slots, children'[t] # Nil
          PROVE  /\ children'[t].parent # Nil =>
                       /\ run # Nil /\ run.step = "wait"
                       /\ children'[t].parent = run.op
                       /\ children'[t].image = run.image /\ ~children'[t].outdated
                 /\ children'[t].phase = "marker" => children'[t].digest # Nil
      BY <1>1, <2>3, <2>4, <3>1 DEF ImageInv, ChildrenKnown, FreshChild, m
    <3>2. \A t, u \in Slots, n \in Images :
             FreshChild(t, n)' /\ FreshChild(u, n)' => t = u
      BY <2>6 DEF ImageInv, ChildrenKnown
    <3>3. QED
      BY <1>1, <3>1, <3>2 DEF ChildrenKnown, FreshChild
  <2>12. MarkersTrue'
    <3> SUFFICES ASSUME ~strayed'
                 PROVE  MarkersTrue'
      BY DEF MarkersTrue
    <3>1. ASSUME NEW n \in Images, volumes[n] # Nil, volumes[n].marker # Nil
          PROVE  /\ volumes[n].marker = "whole"
                 /\ volumes[n].tree = "whole"
                 /\ \A t \in Slots : ~FreshChild(t, n)'
      BY <2>5, <2>6, <3>1 DEF ImageInv, MarkersTrue
    <3>2. ASSUME NEW t \in Slots, children'[t] # Nil
          PROVE  /\ children'[t].phase # "load" => ~children'[t].outdated
                 /\ children'[t].phase \in {"digest", "marker"} =>
                       volumes[children'[t].image].tree = "whole"
                 /\ children'[t].phase = "marker" => children'[t].digest = "whole"
      BY <2>3, <2>4, <2>5, <3>2 DEF ImageInv, MarkersTrue
    <3>3. run # Nil /\ run.step \in {"mount", "spawn"} => Origin.marker = Nil
      BY <2>5 DEF ImageInv, MarkersTrue
    <3>4. QED
      BY <1>1, <3>1, <3>2, <3>3 DEF MarkersTrue, Origin
  <2>13. SnapshotsKnown'
    BY <1>1, <2>5 DEF ImageInv, SnapshotsKnown
  <2>14. QED
    BY <2>7, <2>8, <2>9, <2>10, <2>11, <2>12, <2>13 DEF ImageInv
<1>5. QED
  BY <1>3, <1>4

LEMMA ApplySomeKeeps ==
  ASSUME ImageInv, NEW s \in Slots, ApplySome(s)
  PROVE  ImageInv'
<1> DEFINE m == children[s].image
           v == [volumes[m] EXCEPT !.tree = "partial"]
<1>1. /\ children[s] # Nil /\ children[s].phase = "apply" /\ mounted[m] = "rw"
      /\ volumes' = [volumes EXCEPT ![m] = v]
      /\ UNCHANGED <<rows, mounted, snapshots, minted, run, children, strayed>>
  BY DEF ApplySome, ChildIn
<1>2. /\ m \in Images /\ volumes[m] # Nil /\ volumes[m] \in Volume
      /\ volumes[m].tree # "blank" /\ ~volumes[m].sealed
      /\ ~strayed =>
            /\ FreshChild(s, m)
            /\ volumes[m].marker = Nil
            /\ \A t \in Slots \ {s} : ~FreshChild(t, m) /\ t \notin Inside(m)
  BY <1>1, InsideVolume
<1>3. /\ v \in Volume /\ v.tree = "partial"
      /\ v.marker = volumes[m].marker /\ ~v.sealed
  BY <1>2 DEF Volume, Trees
<1> HIDE DEF v
<1>4. /\ volumes' \in [Images -> Volume \cup {Nil}]
      /\ volumes'[m] = v /\ v # Nil
      /\ \A n \in Images \ {m} : volumes'[n] = volumes[n]
  BY <1>1, <1>2, <1>3, VolumeChanged
<1> HIDE DEF m
<1>5. ImageTypeOK'
  BY <1>1, <1>4 DEF ImageInv, ImageTypeOK
<1>6. RunKnows'
  BY <1>1, <1>4, Entries DEF ImageInv, RunKnows, Origin
<1>7. StepFinds'
  BY <1>1, <1>2, <1>3, <1>4, Entries DEF ImageInv, StepFinds, Origin, FreshChild
<1>8. MountsHold'
  BY <1>1, <1>3, <1>4 DEF ImageInv, MountsHold, Inside
<1>9. ChildrenKnown'
  BY <1>1 DEF ImageInv, ChildrenKnown, FreshChild
<1>10. MarkersTrue'
  <2> SUFFICES ASSUME ~strayed
               PROVE  MarkersTrue'
    BY <1>1 DEF MarkersTrue
  <2>1. ASSUME NEW n \in Images, volumes'[n] # Nil, volumes'[n].marker # Nil
        PROVE  /\ volumes'[n].marker = "whole"
               /\ volumes'[n].tree = "whole"
               /\ \A t \in Slots : ~FreshChild(t, n)
    BY <1>2, <1>3, <1>4, <2>1 DEF ImageInv, MarkersTrue
  <2>2. ASSUME NEW t \in Slots, children[t] # Nil
        PROVE  /\ children[t].phase # "load" => ~children[t].outdated
               /\ children[t].phase \in {"digest", "marker"} =>
                     volumes'[children[t].image].tree = "whole"
               /\ children[t].phase = "marker" => children[t].digest = "whole"
    <3>1. children[t].phase \in {"digest", "marker"} => children[t].image # m
      BY <1>1, <1>2, <2>2 DEF Inside
    <3>2. QED
      BY <1>4, <2>2, <3>1, Entries DEF ImageInv, MarkersTrue
  <2>3. run # Nil /\ run.step \in {"mount", "spawn"} => volumes'[run.image].marker = Nil
    BY <1>2, <1>3, <1>4, Entries DEF ImageInv, MarkersTrue, Origin
  <2>4. QED
    BY <1>1, <2>1, <2>2, <2>3 DEF MarkersTrue, Origin, FreshChild
<1>11. SnapshotsKnown'
  BY <1>1, <1>2, <1>4, Entries DEF ImageInv, SnapshotsKnown, Row
<1>12. QED
  BY <1>5, <1>6, <1>7, <1>8, <1>9, <1>10, <1>11 DEF ImageInv

LEMMA ApplyAllKeeps ==
  ASSUME ImageInv, NEW s \in Slots, ApplyAll(s)
  PROVE  ImageInv'
<1> DEFINE m == children[s].image
           child == [children[s] EXCEPT !.phase = "digest"]
<1>1. /\ children[s] # Nil /\ children[s].phase = "apply" /\ mounted[m] = "rw"
      /\ children' = [children EXCEPT ![s] = child]
      /\ UNCHANGED <<rows, mounted, snapshots, minted, run, strayed>>
  BY DEF ApplyAll, ChildIn
<1>2. /\ m \in Images /\ volumes[m] # Nil /\ volumes[m] \in Volume
      /\ volumes[m].tree # "blank" /\ ~volumes[m].sealed
      /\ ~strayed =>
            /\ FreshChild(s, m)
            /\ volumes[m].marker = Nil
            /\ \A t \in Slots \ {s} : ~FreshChild(t, m) /\ t \notin Inside(m)
  BY <1>1, InsideVolume
<1>3. PICK tree \in {"whole", "partial"} :
         /\ volumes' = [volumes EXCEPT ![m].tree = tree]
         /\ ~strayed => tree = "whole"
  <2> DEFINE others == {t \in Inside(m) \ {s} : children[t].phase = "apply"}
  <2>1. \E tree \in IF others = {} THEN {"whole"} ELSE {"whole", "partial"} :
           volumes' = [volumes EXCEPT ![m].tree = tree]
    BY DEF ApplyAll
  <2>2. ~strayed => others = {}
    BY <1>2 DEF Inside
  <2> HIDE DEF others
  <2>3. QED
    BY <2>1, <2>2
<1> DEFINE v == [volumes[m] EXCEPT !.tree = tree]
<1>4. /\ v \in Volume /\ v.tree = tree
      /\ v.marker = volumes[m].marker /\ ~v.sealed
  BY <1>2 DEF Volume, Trees
<1>5. volumes' = [volumes EXCEPT ![m] = v]
  BY <1>3
<1>6. /\ child \in Child /\ child # Nil
      /\ child.phase = "digest" /\ child.image = m
      /\ child.parent = children[s].parent
      /\ child.outdated = children[s].outdated
  <2>1. children[s] \in Child
    BY <1>1, Entries
  <2>2. QED
    BY <2>1, NilAssumption DEF Child
<1> HIDE DEF v, child
<1>7. /\ volumes' \in [Images -> Volume \cup {Nil}]
      /\ volumes'[m] = v /\ v # Nil
      /\ \A n \in Images \ {m} : volumes'[n] = volumes[n]
  BY <1>2, <1>4, <1>5, VolumeChanged
<1>8. /\ children' \in [Slots -> Child \cup {Nil}]
      /\ children'[s] = child
      /\ \A t \in Slots \ {s} : children'[t] = children[t]
  BY <1>1, <1>6 DEF ImageInv, ImageTypeOK
<1>9. \A t \in Slots : \A n : FreshChild(t, n)' <=> FreshChild(t, n)
  BY <1>1, <1>6, <1>8 DEF FreshChild
<1>10. ImageTypeOK'
  BY <1>1, <1>7, <1>8 DEF ImageInv, ImageTypeOK
<1>11. RunKnows'
  BY <1>1, <1>2, <1>4, <1>7, Entries DEF ImageInv, RunKnows, Origin, m
<1>12. StepFinds'
  <2>1. \A t \in Slots : FreshChild(t, run.image)' <=> FreshChild(t, run.image)
    BY <1>1, <1>6, <1>8 DEF FreshChild
  <2>2. run # Nil =>
           /\ volumes[run.image] # Nil /\ volumes[run.image].tree # "blank" =>
                 volumes'[run.image].tree # "blank"
           /\ volumes[run.image] # Nil =>
                 /\ volumes'[run.image].marker = volumes[run.image].marker
                 /\ volumes'[run.image].sealed <=> volumes[run.image].sealed
    BY <1>2, <1>3, <1>4, <1>7, Entries
  <2>3. run # Nil /\ run.step \notin {"verify", "create"} =>
           volumes[run.image] # Nil
    BY DEF ImageInv, RunKnows, Origin
  <2>4. QED
    BY <1>1, <2>1, <2>2, <2>3 DEF ImageInv, StepFinds, Origin
<1>13. MountsHold'
  <2>1. \A n \in Images : Inside(n)' = Inside(n)
    BY <1>1, <1>6, <1>8 DEF Inside
  <2>2. QED
    BY <1>1, <1>3, <1>4, <1>7, <2>1 DEF ImageInv, MountsHold
<1>14. ChildrenKnown'
  <2>1. ASSUME NEW t \in Slots, children'[t] # Nil
        PROVE  /\ children'[t].parent # Nil =>
                     /\ run # Nil /\ run.step = "wait"
                     /\ children'[t].parent = run.op
                     /\ children'[t].image = run.image /\ ~children'[t].outdated
               /\ children'[t].phase = "marker" => children'[t].digest # Nil
    BY <1>1, <1>6, <1>8, <2>1 DEF ImageInv, ChildrenKnown, FreshChild
  <2>2. \A t, u \in Slots, n \in Images :
           FreshChild(t, n)' /\ FreshChild(u, n)' => t = u
    BY <1>9 DEF ImageInv, ChildrenKnown
  <2>3. QED
    BY <1>1, <2>1, <2>2 DEF ChildrenKnown, FreshChild
<1>15. MarkersTrue'
  <2> SUFFICES ASSUME ~strayed
               PROVE  MarkersTrue'
    BY <1>1 DEF MarkersTrue
  <2>1. ASSUME NEW n \in Images, volumes'[n] # Nil, volumes'[n].marker # Nil
        PROVE  /\ volumes'[n].marker = "whole"
               /\ volumes'[n].tree = "whole"
               /\ \A t \in Slots : ~FreshChild(t, n)'
    <3>1. n # m
      BY <1>2, <1>4, <1>7, <2>1
    <3>2. QED
      BY <1>7, <1>9, <2>1, <3>1 DEF ImageInv, MarkersTrue
  <2>2. ASSUME NEW t \in Slots, children'[t] # Nil
        PROVE  /\ children'[t].phase # "load" => ~children'[t].outdated
               /\ children'[t].phase \in {"digest", "marker"} =>
                     volumes'[children'[t].image].tree = "whole"
               /\ children'[t].phase = "marker" => children'[t].digest = "whole"
    <3>1. CASE t = s
      BY <1>2, <1>3, <1>4, <1>6, <1>7, <1>8, <3>1 DEF FreshChild
    <3>2. CASE t # s
      <4>1. children[t].phase \in {"digest", "marker"} => children[t].image # m
        BY <1>2, <1>8, <2>2, <3>2 DEF Inside
      <4>2. QED
        BY <1>7, <1>8, <2>2, <3>2, <4>1, Entries DEF ImageInv, MarkersTrue
    <3>3. QED
      BY <3>1, <3>2
  <2>3. run # Nil /\ run.step \in {"mount", "spawn"} => volumes'[run.image].marker = Nil
    BY <1>2, <1>4, <1>7, Entries DEF ImageInv, MarkersTrue, Origin
  <2>4. QED
    BY <1>1, <2>1, <2>2, <2>3 DEF MarkersTrue, Origin
<1>16. SnapshotsKnown'
  BY <1>1, <1>2, <1>7, Entries DEF ImageInv, SnapshotsKnown, Row
<1>17. QED
  BY <1>10, <1>11, <1>12, <1>13, <1>14, <1>15, <1>16 DEF ImageInv

LEMMA TakeDigestKeeps ==
  ASSUME ImageInv, NEW s \in Slots, TakeDigest(s)
  PROVE  ImageInv'
<1> DEFINE m == children[s].image
           child == [children[s] EXCEPT !.phase = "marker",
                                        !.digest = volumes[m].tree]
<1>1. /\ children[s] # Nil /\ children[s].phase = "digest"
      /\ children' = [children EXCEPT ![s].phase = "marker",
                                      ![s].digest = volumes[m].tree]
      /\ UNCHANGED <<rows, volumes, mounted, snapshots, minted, run, strayed>>
  BY DEF TakeDigest, ChildIn
<1>2. children[s] \in Child
  BY <1>1, Entries
<1>3. volumes[m].tree \in Trees /\ volumes[m].tree # Nil
  <2>1. volumes[m] \in Volume
    BY <1>1, InsideVolume
  <2>2. QED
    BY <2>1, ImageWorkerAssumption DEF Volume, Trees
<1>4. children' = [children EXCEPT ![s] = child]
  BY <1>1, <1>2 DEF ImageInv, ImageTypeOK, Child
<1>5. /\ child \in Child /\ child # Nil
      /\ child.phase = "marker" /\ child.image = m
      /\ child.digest = volumes[m].tree
      /\ child.parent = children[s].parent
      /\ child.outdated = children[s].outdated
  BY <1>2, <1>3, NilAssumption DEF Child
<1> HIDE DEF child
<1>6. /\ children' \in [Slots -> Child \cup {Nil}]
      /\ children'[s] = child
      /\ \A t \in Slots \ {s} : children'[t] = children[t]
  BY <1>4, <1>5 DEF ImageInv, ImageTypeOK
<1>7. \A t \in Slots : \A n : FreshChild(t, n)' <=> FreshChild(t, n)
  BY <1>1, <1>5, <1>6 DEF FreshChild
<1>8. ImageTypeOK'
  BY <1>1, <1>6 DEF ImageInv, ImageTypeOK
<1>9. RunKnows'
  BY <1>1 DEF ImageInv, RunKnows, Origin
<1>10. StepFinds'
  <2>1. \A t \in Slots : FreshChild(t, run.image)' <=> FreshChild(t, run.image)
    BY <1>1, <1>5, <1>6 DEF FreshChild
  <2>2. QED
    BY <1>1, <2>1 DEF ImageInv, StepFinds, Origin
<1>11. MountsHold'
  <2>1. \A t \in Slots :
           /\ children'[t] # Nil <=> children[t] # Nil
           /\ children'[t].image = children[t].image
           /\ children'[t].phase # "load" <=> children[t].phase # "load"
    BY <1>1, <1>5, <1>6
  <2>2. \A n \in Images : Inside(n)' = Inside(n)
    BY <2>1 DEF Inside
  <2>3. QED
    BY <1>1, <2>2 DEF ImageInv, MountsHold
<1>12. ChildrenKnown'
  <2>1. ASSUME NEW t \in Slots, children'[t] # Nil
        PROVE  /\ children'[t].parent # Nil =>
                     /\ run # Nil /\ run.step = "wait"
                     /\ children'[t].parent = run.op
                     /\ children'[t].image = run.image /\ ~children'[t].outdated
               /\ children'[t].phase = "marker" => children'[t].digest # Nil
    BY <1>1, <1>3, <1>5, <1>6, <2>1 DEF ImageInv, ChildrenKnown, FreshChild
  <2>2. \A t, u \in Slots, n \in Images :
           FreshChild(t, n)' /\ FreshChild(u, n)' => t = u
    BY <1>7 DEF ImageInv, ChildrenKnown
  <2>3. QED
    BY <1>1, <2>1, <2>2 DEF ChildrenKnown, FreshChild
<1>13. MarkersTrue'
  <2> SUFFICES ASSUME ~strayed
               PROVE  MarkersTrue'
    BY <1>1 DEF MarkersTrue
  <2>1. ASSUME NEW n \in Images, volumes[n] # Nil, volumes[n].marker # Nil
        PROVE  /\ volumes[n].marker = "whole"
               /\ volumes[n].tree = "whole"
               /\ \A t \in Slots : ~FreshChild(t, n)'
    BY <1>7, <2>1 DEF ImageInv, MarkersTrue
  <2>2. ASSUME NEW t \in Slots, children'[t] # Nil
        PROVE  /\ children'[t].phase # "load" => ~children'[t].outdated
               /\ children'[t].phase \in {"digest", "marker"} =>
                     volumes[children'[t].image].tree = "whole"
               /\ children'[t].phase = "marker" => children'[t].digest = "whole"
    BY <1>1, <1>5, <1>6, <2>2 DEF ImageInv, MarkersTrue
  <2>3. QED
    BY <1>1, <2>1, <2>2 DEF ImageInv, MarkersTrue, Origin
<1>14. SnapshotsKnown'
  BY <1>1 DEF ImageInv, SnapshotsKnown
<1>15. QED
  BY <1>8, <1>9, <1>10, <1>11, <1>12, <1>13, <1>14 DEF ImageInv

LEMMA WriteMarkerKeeps ==
  ASSUME ImageInv, NEW s \in Slots, WriteMarker(s)
  PROVE  ImageInv'
<1> DEFINE m == children[s].image
           v == [volumes[m] EXCEPT !.marker = children[s].digest]
<1>1. /\ children[s] # Nil /\ children[s].phase = "marker" /\ mounted[m] = "rw"
      /\ volumes' = [volumes EXCEPT ![m] = v]
      /\ children' = [children EXCEPT ![s] = Nil]
      /\ run' = IF Own(s) THEN [run EXCEPT !.step = "unmount"] ELSE run
      /\ UNCHANGED <<rows, mounted, snapshots, minted, strayed>>
  BY DEF WriteMarker, ChildIn
<1>2. /\ m \in Images /\ volumes[m] # Nil /\ volumes[m] \in Volume
      /\ volumes[m].tree # "blank" /\ ~volumes[m].sealed
      /\ ~strayed =>
            /\ FreshChild(s, m)
            /\ volumes[m].marker = Nil
            /\ \A t \in Slots \ {s} : ~FreshChild(t, m) /\ t \notin Inside(m)
  BY <1>1, InsideVolume
<1>3. /\ children[s].digest \in Trees /\ children[s].digest # Nil
      /\ ~strayed => children[s].digest = "whole" /\ volumes[m].tree = "whole"
  <2>1. children[s] \in Child
    BY <1>1, Entries
  <2>2. children[s].digest # Nil
    BY <1>1 DEF ImageInv, ChildrenKnown
  <2>3. ~strayed => children[s].digest = "whole" /\ volumes[m].tree = "whole"
    BY <1>1 DEF ImageInv, MarkersTrue
  <2>4. QED
    BY <2>1, <2>2, <2>3 DEF Child
<1>4. /\ v \in Volume /\ v.tree = volumes[m].tree
      /\ v.marker = children[s].digest /\ ~v.sealed
  BY <1>2, <1>3 DEF Volume
<1> HIDE DEF v
<1>5. /\ volumes' \in [Images -> Volume \cup {Nil}]
      /\ volumes'[m] = v /\ v # Nil
      /\ \A n \in Images \ {m} : volumes'[n] = volumes[n]
  BY <1>1, <1>2, <1>4, VolumeChanged
<1>6. /\ children' \in [Slots -> Child \cup {Nil}]
      /\ children'[s] = Nil
      /\ \A t \in Slots \ {s} : children'[t] = children[t]
  BY <1>1 DEF ImageInv, ImageTypeOK
<1>7. CASE ~Own(s)
  <2>1. run' = run
    BY <1>1, <1>7
  <2>2. ImageTypeOK'
    BY <1>1, <1>5, <1>6, <2>1 DEF ImageInv, ImageTypeOK
  <2>3. RunKnows'
    BY <1>1, <1>2, <1>4, <1>5, <2>1, Entries DEF ImageInv, RunKnows, Origin, m
  <2>4. StepFinds'
    <3>1. \A t \in Slots : FreshChild(t, run.image)' => FreshChild(t, run.image)
      BY <1>6, <2>1 DEF FreshChild
    <3>2. run # Nil /\ volumes[run.image] # Nil =>
             /\ volumes'[run.image].tree = volumes[run.image].tree
             /\ volumes[run.image].marker # Nil => volumes'[run.image].marker # Nil
             /\ volumes'[run.image].sealed <=> volumes[run.image].sealed
      BY <1>2, <1>3, <1>4, <1>5, Entries
    <3>3. run # Nil /\ run.step \notin {"verify", "create"} =>
             volumes[run.image] # Nil
      BY DEF ImageInv, RunKnows, Origin
    <3>4. QED
      BY <1>1, <2>1, <3>1, <3>2, <3>3 DEF ImageInv, StepFinds, Origin
  <2>5. \A t \in Slots, n \in Images : FreshChild(t, n)' => FreshChild(t, n) /\ t # s
    BY <1>6 DEF FreshChild
  <2>6. MountsHold'
    <3>1. \A n \in Images : Inside(n)' \subseteq Inside(n)
      BY <1>6 DEF Inside
    <3>2. QED
      BY <1>1, <1>2, <1>4, <1>5, <3>1 DEF ImageInv, MountsHold
  <2>7. ChildrenKnown'
    <3>1. ASSUME NEW t \in Slots, children'[t] # Nil
          PROVE  /\ children'[t].parent # Nil =>
                       /\ run # Nil /\ run.step = "wait"
                       /\ children'[t].parent = run.op
                       /\ children'[t].image = run.image /\ ~children'[t].outdated
                 /\ children'[t].phase = "marker" => children'[t].digest # Nil
      BY <1>6, <3>1 DEF ImageInv, ChildrenKnown, FreshChild
    <3>2. \A t, u \in Slots, n \in Images :
             FreshChild(t, n)' /\ FreshChild(u, n)' => t = u
      BY <2>5 DEF ImageInv, ChildrenKnown
    <3>3. QED
      BY <2>1, <3>1, <3>2 DEF ChildrenKnown, FreshChild
  <2>8. MarkersTrue'
    <3> SUFFICES ASSUME ~strayed
                 PROVE  MarkersTrue'
      BY <1>1 DEF MarkersTrue
    <3>1. ASSUME NEW n \in Images, volumes'[n] # Nil, volumes'[n].marker # Nil
          PROVE  /\ volumes'[n].marker = "whole"
                 /\ volumes'[n].tree = "whole"
                 /\ \A t \in Slots : ~FreshChild(t, n)'
      BY <1>2, <1>3, <1>4, <1>5, <2>5, <3>1 DEF ImageInv, MarkersTrue
    <3>2. ASSUME NEW t \in Slots, children'[t] # Nil
          PROVE  /\ children'[t].phase # "load" => ~children'[t].outdated
                 /\ children'[t].phase \in {"digest", "marker"} =>
                       volumes'[children'[t].image].tree = "whole"
                 /\ children'[t].phase = "marker" => children'[t].digest = "whole"
      <4>1. children'[t] = children[t] /\ children[t] # Nil
        BY <1>6, <3>2
      <4>2. children[t].image \in Images
        BY <4>1, Entries
      <4>3. children[t].image = m => volumes'[m].tree = "whole"
        BY <1>3, <1>4, <1>5
      <4>4. QED
        BY <1>5, <4>1, <4>2, <4>3 DEF ImageInv, MarkersTrue
    <3>3. run # Nil /\ run.step \in {"mount", "spawn"} =>
             volumes'[run.image].marker = Nil
      <4>1. run # Nil /\ run.step \in {"mount", "spawn"} => run.image # m
        BY <1>2 DEF ImageInv, StepFinds
      <4>2. QED
        BY <1>5, <4>1, Entries DEF ImageInv, MarkersTrue, Origin
    <3>4. QED
      BY <2>1, <3>1, <3>2, <3>3 DEF MarkersTrue, Origin
  <2>9. SnapshotsKnown'
    BY <1>1, <1>2, <1>5, Entries DEF ImageInv, SnapshotsKnown, Row
  <2>10. QED
    BY <2>2, <2>3, <2>4, <2>6, <2>7, <2>8, <2>9 DEF ImageInv
<1>8. CASE Own(s)
  <2>1. run # Nil /\ run.step = "wait" /\ children[s].parent = run.op
    BY <1>8 DEF Own
  <2>2. GoStep("unmount")
    BY <1>1, <1>8 DEF GoStep
  <2>3. /\ run' \in Run /\ run' # Nil
        /\ run'.op = run.op /\ run'.image = run.image /\ run'.step = "unmount"
        /\ run'.valid = run.valid /\ run'.uuid = run.uuid
    BY <2>1, <2>2, GoneOn DEF Step
  <2>4. run.image = m
    <3>1. children[s].parent # Nil
      BY <2>1, Entries, NilAssumption
    <3>2. QED
      BY <1>1, <3>1 DEF ImageInv, ChildrenKnown, FreshChild
  <2>5. \A t \in Slots : children'[t] # Nil =>
           children'[t] = children[t] /\ children[t] # Nil /\ t # s
                 /\ children'[t].parent = Nil
    BY <1>6, <1>8, OneChild
  <2>6. ImageTypeOK'
    BY <1>1, <1>5, <1>6, <2>3 DEF ImageInv, ImageTypeOK
  <2>7. RunKnows'
    BY <1>1, <1>5, <2>1, <2>3, <2>4 DEF ImageInv, RunKnows, Origin
  <2>8. StepFinds'
    BY <1>2, <1>3, <1>4, <1>5, <2>3, <2>4 DEF StepFinds, Origin
  <2>9. \A t \in Slots, n \in Images : FreshChild(t, n)' => FreshChild(t, n) /\ t # s
    BY <2>5 DEF FreshChild
  <2>10. MountsHold'
    <3>1. \A n \in Images : Inside(n)' \subseteq Inside(n)
      BY <2>5 DEF Inside
    <3>2. QED
      BY <1>1, <1>2, <1>4, <1>5, <3>1 DEF ImageInv, MountsHold
  <2>11. ChildrenKnown'
    <3>1. \A t \in Slots : children'[t] # Nil =>
             /\ children'[t].parent = Nil
             /\ children'[t].phase = "marker" => children'[t].digest # Nil
      BY <2>5 DEF ImageInv, ChildrenKnown
    <3>2. \A t, u \in Slots, n \in Images :
             FreshChild(t, n)' /\ FreshChild(u, n)' => t = u
      BY <2>9 DEF ImageInv, ChildrenKnown
    <3>3. QED
      BY <3>1, <3>2 DEF ChildrenKnown
  <2>12. MarkersTrue'
    <3> SUFFICES ASSUME ~strayed
                 PROVE  MarkersTrue'
      BY <1>1 DEF MarkersTrue
    <3>1. ASSUME NEW n \in Images, volumes'[n] # Nil, volumes'[n].marker # Nil
          PROVE  /\ volumes'[n].marker = "whole"
                 /\ volumes'[n].tree = "whole"
                 /\ \A t \in Slots : ~FreshChild(t, n)'
      BY <1>2, <1>3, <1>4, <1>5, <2>9, <3>1 DEF ImageInv, MarkersTrue
    <3>2. ASSUME NEW t \in Slots, children'[t] # Nil
          PROVE  /\ children'[t].phase # "load" => ~children'[t].outdated
                 /\ children'[t].phase \in {"digest", "marker"} =>
                       volumes'[children'[t].image].tree = "whole"
                 /\ children'[t].phase = "marker" => children'[t].digest = "whole"
      <4>1. children'[t] = children[t] /\ children[t] # Nil
        BY <2>5, <3>2
      <4>2. children[t].image \in Images
        BY <4>1, Entries
      <4>3. children[t].image = m => volumes'[m].tree = "whole"
        BY <1>3, <1>4, <1>5
      <4>4. QED
        BY <1>5, <4>1, <4>2, <4>3 DEF ImageInv, MarkersTrue
    <3>3. QED
      BY <2>3, <3>1, <3>2 DEF MarkersTrue
  <2>13. SnapshotsKnown'
    BY <1>1, <1>2, <1>5, Entries DEF ImageInv, SnapshotsKnown, Row
  <2>14. QED
    BY <2>6, <2>7, <2>8, <2>10, <2>11, <2>12, <2>13 DEF ImageInv
<1>9. QED
  BY <1>7, <1>8

-----------------------------------------------------------------------------
(***************************************************************************)
(* The theorems.                                                           *)
(***************************************************************************)

LEMMA ImageStutterKeeps ==
  ASSUME ImageInv, UNCHANGED imageVars
  PROVE  ImageInv'
<1> USE DEF imageVars
<1>1. ImageTypeOK' /\ RunKnows'
  BY DEF ImageInv, ImageTypeOK, RunKnows, Origin
<1>2. StepFinds'
  BY DEF ImageInv, StepFinds, Origin, FreshChild
<1>3. MountsHold' /\ ChildrenKnown'
  BY DEF ImageInv, MountsHold, ChildrenKnown, Inside, FreshChild
<1>4. MarkersTrue' /\ SnapshotsKnown'
  BY DEF ImageInv, MarkersTrue, SnapshotsKnown, Origin, FreshChild
<1>5. QED
  BY <1>1, <1>2, <1>3, <1>4 DEF ImageInv

LEMMA ImageNextKeeps ==
  ASSUME ImageInv, [ImageNext]_imageVars
  PROVE  ImageInv'
<1>1. CASE \E op \in Ops, image \in Images : Request(op, image)
  BY <1>1, RequestKeeps
<1>2. CASE RunStep
  BY <1>2, VerifyKeeps, CreateOriginKeeps, CheckMountKeeps, ExamineKeeps,
     ReleaseKeeps, FormatKeeps, MountKeeps, SpawnKeeps, UnmountKeeps, SealKeeps,
     StageSealedKeeps, CreateSnapshotKeeps, MakeWritableKeeps,
     ActivateSnapshotKeeps, RegisteredKeeps, RunRefusedKeeps DEF RunStep
<1>3. ASSUME NEW s \in Slots, ChildStep(s) \/ ApplySome(s) \/ ChildFails(s)
      PROVE  ImageInv'
  BY <1>3, EnterRootKeeps, ApplySomeKeeps, ApplyAllKeeps, TakeDigestKeeps,
     WriteMarkerKeeps, ChildEndsKeeps DEF ChildStep, WriteRefused, ChildFails
<1>4. CASE RunExits
  BY <1>4, RunExitsKeeps
<1>5. CASE Reboots
  BY <1>5, RebootsKeeps
<1>6. CASE UNCHANGED imageVars
  BY <1>6, ImageStutterKeeps
<1>7. QED
  BY <1>1, <1>2, <1>3, <1>4, <1>5, <1>6 DEF ImageNext

\* The inductive invariant holds in every reachable state of the image worker.
THEOREM ImageInvHolds == ImageSpec => []ImageInv
<1>1. ImageInit => ImageInv
  BY ImageInitInv
<1>2. ImageInv /\ [ImageNext]_imageVars => ImageInv'
  BY ImageNextKeeps
<1>3. QED
  BY <1>1, <1>2, PTL DEF ImageSpec

\* Tables, volumes, the run and its processes are always of their types.
THEOREM ImageTypeCorrect == ImageSpec => []ImageTypeOK
<1>1. ImageInv => ImageTypeOK
  BY DEF ImageInv
<1>2. QED
  BY <1>1, ImageInvHolds, PTL

\* registered: the snapshot an operation was answered with is of the sealed
\* and complete image, wherever the runs before were interrupted.
THEOREM RegisteredStays == ImageSpec => []RegisteredIntact
<1>1. ImageInv => RegisteredIntact
  BY DEF ImageInv, SnapshotsKnown, RegisteredIntact
<1>2. QED
  BY <1>1, ImageInvHolds, PTL

\* lvchange -pr: nothing writes to an origin volume that is sealed.
THEOREM SealedStays == ImageSpec => SealedStands
<1>1. ImageInv /\ [ImageNext]_imageVars =>
         [\A m \in Images :
             volumes[m] # Nil /\ volumes[m].sealed =>
                volumes'[m] = volumes[m]]_imageVars
  <2> SUFFICES ASSUME ImageInv, ImageNext, NEW m \in Images,
                      volumes[m] # Nil, volumes[m].sealed
               PROVE  volumes'[m] = volumes[m]
    OBVIOUS
  <2>1. volumes \in [Images -> Volume \cup {Nil}] /\ volumes[m] \in Volume
    BY Entries DEF ImageInv, ImageTypeOK
  <2>2. CASE CreateOrigin
    BY <2>1, <2>2 DEF CreateOrigin, Origin
  <2>3. CASE Format
    <3>1. run # Nil /\ run.step = "format"
      BY <2>3 DEF Format, AtStep
    <3>2. run.image # m
      BY <3>1 DEF ImageInv, StepFinds, Origin
    <3>3. QED
      BY <2>1, <2>3, <3>2 DEF Format
  <2>4. CASE Seal
    <3>1. volumes' = [volumes EXCEPT ![run.image].sealed = TRUE]
      BY <2>4 DEF Seal
    <3>2. run.image = m => volumes'[m] = [volumes[m] EXCEPT !.sealed = TRUE]
      BY <2>1, <3>1
    <3>3. [volumes[m] EXCEPT !.sealed = TRUE] = volumes[m]
      BY <2>1 DEF Volume
    <3>4. QED
      BY <2>1, <3>1, <3>2, <3>3
  <2>5. ASSUME NEW s \in Slots, ApplySome(s) \/ ApplyAll(s) \/ WriteMarker(s)
        PROVE  volumes'[m] = volumes[m]
    <3>1. children[s] # Nil /\ children[s].phase # "load"
          /\ mounted[children[s].image] = "rw"
      BY <2>5 DEF ApplySome, ApplyAll, WriteMarker, ChildIn
    <3>2. children[s].image # m
      BY <3>1, InsideVolume
    <3>3. QED
      BY <2>1, <2>5, <3>2 DEF ApplySome, ApplyAll, WriteMarker
  <2>6. \/ volumes' = volumes \/ CreateOrigin \/ Format \/ Seal
        \/ \E s \in Slots : ApplySome(s) \/ ApplyAll(s) \/ WriteMarker(s)
    BY DEF ImageNext, RunStep, ChildStep, Request, Verify, CheckMount, Examine,
           Release, Mount, Spawn, Unmount, StageSealed, CreateSnapshot,
           MakeWritable, ActivateSnapshot, Registered, RunRefused, EnterRoot,
           TakeDigest, WriteRefused, ChildFails, ChildEnds, RunExits, Reboots
  <2>7. QED
    BY <2>2, <2>3, <2>4, <2>5, <2>6
<1>2. QED
  BY <1>1, ImageInvHolds, PTL DEF ImageSpec, SealedStands
=============================================================================
