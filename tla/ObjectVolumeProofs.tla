--------------------------- MODULE ObjectVolumeProofs --------------------------
(***************************************************************************)
(* Proofs about ObjectVolume for any number of objects, requests and calls *)
(* and for every set of faults.  PUTs and growth meet in the volume only,  *)
(* so each program has an inductive invariant of its own, which the steps  *)
(* of the other one leave alone.                                           *)
(***************************************************************************)
EXTENDS ObjectVolume, FiniteSetTheorems, TLAPS

(***************************************************************************)
(* Types.  What another volume can take is a size because a volume is      *)
(* never larger than its group; an answered PUT has a place because it has *)
(* left its first step behind.                                             *)
(***************************************************************************)
Placed ==
    \A s \in Slots :
        puts[s] # None /\ puts[s].step # "create" => puts[s].place \in Places

TypeInv ==
    /\ VolumesTypeOK
    /\ lv + ballast <= GroupSize
    /\ Placed

\* Files left behind by some of the slots are a finite number.
LEMMA SomeSlots ==
    ASSUME NEW S \in SUBSET Slots
    PROVE  Cardinality(S) \in Nat
<1>1. IsFiniteSet(S)
  BY StoreAssumption, FS_Subset
<1> QED
  BY <1>1, FS_CardinalityType

LEMMA InitTypeInv ==
    ASSUME Init
    PROVE  TypeInv
BY VolumeAssumption
   DEF Init, VolumeInit, StoreInit, GrowInit, TypeInv, VolumesTypeOK, VolumeTypeOK,
       StoreTypeOK, GrowTypeOK, Placed

\* The steps of a PUT keep the types of the store.
LEMMA PutKeepsType ==
    ASSUME StoreTypeOK, Placed, NEW s \in Slots, PutStep(s) \/ PutFails(s)
    PROVE  (StoreTypeOK /\ Placed)'
<1> USE DEF StoreTypeOK, Placed, PutAt, GoPut, Put, Places, Here
<1>1. CASE CreateTemp(s)
  BY <1>1 DEF CreateTemp
<1>2. CASE WriteBody(s)
  BY <1>2 DEF WriteBody
<1>3. CASE SyncTemp(s)
  BY <1>3 DEF SyncTemp
<1>4. CASE LinkName(s)
  BY <1>4 DEF LinkName, Entry
<1>5. CASE RemoveTemp(s)
  BY <1>5 DEF RemoveTemp
<1>6. CASE SyncRoot(s)
  <2>1. puts[s].id \in Objects /\ puts[s].place \in Places
    BY <1>6 DEF SyncRoot
  <2>2. [id |-> puts[s].id, place |-> puts[s].place] \in [id : Objects, place : Places]
    BY <2>1
  <2>3. acknowledged' \in SUBSET [id : Objects, place : Places]
    BY <1>6, <2>2 DEF SyncRoot, Answered
  <2>4. \A id \in Objects : Settled(id) \in Entry \cup {None}
    BY DEF Settled, Entry
  <2>5. entries' \in [Objects -> Entry \cup {None}]
    BY <1>6, <2>4 DEF SyncRoot
  <2>6. puts' \in [Slots -> Put \cup {None}] /\ Placed'
    BY <1>6 DEF SyncRoot
  <2> QED
    BY <1>6, <2>3, <2>5, <2>6 DEF SyncRoot
<1>7. CASE PutRefused(s) \/ PutFails(s)
  BY <1>7 DEF PutRefused, PutFails, PutEnds
<1> QED
  BY <1>1, <1>2, <1>3, <1>4, <1>5, <1>6, <1>7 DEF PutStep

LEMMA BeginKeepsType ==
    ASSUME StoreTypeOK, Placed, NEW s \in Slots, NEW id \in Objects, Begin(s, id)
    PROVE  (StoreTypeOK /\ Placed)'
BY DEF StoreTypeOK, Placed, Begin, Put, Places

LEMMA UnmountKeepsType ==
    ASSUME StoreTypeOK, Placed, Detached
    PROVE  (StoreTypeOK /\ Placed)'
<1>1. \A id \in Objects : Flushed(id) \in Entry \cup {None}
  BY DEF StoreTypeOK, Flushed, Entry
<1> QED
  BY <1>1 DEF StoreTypeOK, Placed, Detached

\* Both the service and the machine may stop with files open.
LEMMA DeathKeepsType ==
    ASSUME StoreTypeOK, ServiceDies
    PROVE  (StoreTypeOK /\ Placed)'
<1>1. PICK partial \in SUBSET {s \in Slots : Open(s) /\ puts[s].step = "write"} :
          strays' = strays + Cardinality(Temporary \cup partial)
  BY DEF ServiceDies
<1>2. Cardinality(Temporary \cup partial) \in Nat
  BY SomeSlots DEF Temporary
<1>3. strays' \in Nat
  BY <1>1, <1>2 DEF StoreTypeOK
<1>4. puts' = [s \in Slots |-> None] /\ serving' = FALSE
  BY DEF ServiceDies
<1>5. entries' = entries /\ acknowledged' = acknowledged
  BY DEF ServiceDies
<1> QED
  BY <1>3, <1>4, <1>5 DEF StoreTypeOK, Placed

LEMMA EntryIsSome ==
    ASSUME NEW entry, entry \in Entry
    PROVE  entry # None
BY NoneStoreAssumption

\* What a name stands for after power has failed.
LEMMA SurvivorOf ==
    ASSUME StoreLosesPower, NEW id \in Objects
    PROVE  /\ entries[id] = None => entries'[id] = None
           /\ entries[id] # None =>
                 \/ entries'[id] = AfterPower(entries[id])
                 \/ entries'[id] = None /\ ~entries[id].durable
<1>1. entries'[id] \in Survivors(id)
  BY DEF StoreLosesPower
<1> QED
  BY <1>1 DEF Survivors

LEMMA PowerKeepsType ==
    ASSUME StoreTypeOK, StoreLosesPower
    PROVE  (StoreTypeOK /\ Placed)'
<1>1. Cardinality(Temporary) \in Nat
  BY SomeSlots DEF Temporary
<1>2. strays' \in Nat
  BY <1>1 DEF StoreLosesPower, StoreTypeOK
<1>3. ASSUME NEW id \in Objects
      PROVE  entries'[id] \in Entry \cup {None}
  <2>1. entries[id] # None => AfterPower(entries[id]) \in Entry
    BY DEF StoreTypeOK, Entry, AfterPower
  <2> QED
    BY <2>1, SurvivorOf
<1>4. entries' \in [Objects -> Entry \cup {None}]
  BY <1>3 DEF StoreLosesPower
<1>5. puts' = [s \in Slots |-> None] /\ serving' = FALSE /\ acknowledged' = acknowledged
  BY DEF StoreLosesPower
<1> QED
  BY <1>2, <1>4, <1>5 DEF StoreTypeOK, Placed

\* The rows of the table.
LEMMA RowsAreOperations ==
    ASSUME GrowTypeOK
    PROVE  /\ DOMAIN rows = 1 .. Len(rows) /\ Len(rows) \in Nat
           /\ \A k \in DOMAIN rows :
                 /\ rows[k] \in Operation
                 /\ rows[k].target \in Nat
                 /\ rows[k].done \in BOOLEAN
<1>1. \A k \in DOMAIN rows : rows[k] \in Operation
  BY DEF GrowTypeOK
<1>2. \A row \in Operation : row.target \in Nat /\ row.done \in BOOLEAN
  BY DEF Operation
<1> QED
  BY <1>1, <1>2 DEF GrowTypeOK

\* What a call does to the table, the volume and itself.
LEMMA IntentKeepsType ==
    ASSUME GrowTypeOK, VolumeTypeOK, NEW c \in Calls, NEW used, Intend(c, used)
    PROVE  GrowTypeOK'
<1>1. Wanted(c) \in Nat
  BY GrowAssumption DEF Wanted, VolumeTypeOK
<1>2. [id |-> c.id, target |-> Wanted(c), done |-> FALSE] \in Operation
  BY <1>1 DEF Operation
<1>3. rows' \in Seq(Operation)
  BY <1>2 DEF Intend, GrowTypeOK
<1>4. call' \in Running
  BY DEF Intend, Holding, Running, GrowTypeOK, VolumeTypeOK
<1> QED
  BY <1>3, <1>4 DEF GrowTypeOK

LEMMA ResumeKeepsType ==
    ASSUME GrowTypeOK, VolumeTypeOK, NEW c \in Calls, Resume(c)
    PROVE  GrowTypeOK'
<1>1. PICK k \in Pending : call' = Holding(k)
  BY DEF Resume
<1>2. call' \in Running
  BY <1>1 DEF Pending, Holding, Running, GrowTypeOK, VolumeTypeOK
<1> QED
  BY <1>2 DEF Resume, GrowTypeOK

\* A row that a call holds is in the table (RowHeld is part of CallSound below).
RowHeld == call # None => call.row \in DOMAIN rows

LEMMA CallKeepsType ==
    ASSUME GrowTypeOK, VolumeTypeOK, RowHeld, lv + ballast <= GroupSize,
           CallStep \/ CallDies \/ ResizeCut
    PROVE  (GrowTypeOK /\ VolumeTypeOK /\ lv + ballast <= GroupSize)'
<1> USE DEF GrowTypeOK, VolumeTypeOK, CallAt, Running, RowHeld
<1>1. CASE Extend
  <2>1. Target \in Nat
    BY <1>1, RowsAreOperations DEF Extend, Target
  <2> QED
    BY <1>1, <2>1, VolumeAssumption DEF Extend, Free
<1>2. CASE Resize
  BY <1>2 DEF Resize
<1>3. CASE Complete
  <2>1. call.row \in DOMAIN rows
    BY <1>3 DEF Complete
  <2>2. [rows[call.row] EXCEPT !.done = TRUE] \in Operation
    BY <2>1, RowsAreOperations DEF Operation
  <2>3. rows' = [rows EXCEPT ![call.row] = [rows[call.row] EXCEPT !.done = TRUE]]
    BY <1>3 DEF Complete
  <2>4. rows' \in Seq(Operation)
    BY <2>1, <2>2, <2>3
  <2> QED
    BY <1>3, <2>4 DEF Complete, volumeVars
<1>4. CASE CallRefused \/ CallDies
  BY <1>4 DEF CallRefused, CallDies, CallEnds, volumeVars
<1>5. CASE ResizeCut
  BY <1>5 DEF ResizeCut
<1> QED
  BY <1>1, <1>2, <1>3, <1>4, <1>5 DEF CallStep

LEMMA SpaceKeepsType ==
    ASSUME VolumeTypeOK, lv + ballast <= GroupSize, TakeSpace \/ ReturnSpace
    PROVE  (VolumeTypeOK /\ lv + ballast <= GroupSize)'
BY VolumeAssumption DEF VolumeTypeOK, TakeSpace, ReturnSpace, Free

(***************************************************************************)
(* Growth.  A call holds the one pending operation, and until it extends   *)
(* the volume nobody else does: the size it has read is the size.          *)
(***************************************************************************)
CallSound ==
    call # None =>
        /\ call.row \in DOMAIN rows
        /\ ~rows[call.row].done
        /\ call.step = "extend" => call.current = lv

GrowInv == GrowthAccounted /\ CallSound

LEMMA IntentKeepsGrowth ==
    ASSUME GrowTypeOK, VolumeTypeOK, GrowInv, NEW c \in Calls, NEW used, Intend(c, used)
    PROVE  GrowInv'
<1> DEFINE row == [id |-> c.id, target |-> Wanted(c), done |-> FALSE]
<1>1. /\ rows' = Append(rows, row)
      /\ lv' = lv /\ fs' = fs
      /\ call' = Holding(Len(rows) + 1)
  BY DEF Intend, volumeVars
<1>2. /\ Len(rows') = Len(rows) + 1
      /\ \A k \in DOMAIN rows : k \in DOMAIN rows' /\ rows'[k] = rows[k]
      /\ rows'[Len(rows) + 1] = row
      /\ DOMAIN rows' = 1 .. Len(rows) + 1
      /\ DOMAIN rows = 1 .. Len(rows)
  BY <1>1 DEF GrowTypeOK
<1>3. \A k \in DOMAIN rows : rows[k].done
  BY DEF Intend, CanIntend, Pending
<1>4. OnePending'
  BY <1>2, <1>3 DEF OnePending, GrowTypeOK
<1>5. SizeRecorded'
  BY <1>1, <1>2 DEF SizeRecorded, GrowInv, GrowthAccounted
<1>6. DoneIsReached'
  BY <1>1, <1>2 DEF DoneIsReached, GrowInv, GrowthAccounted, GrowTypeOK
<1>7. CallSound'
  BY <1>1, <1>2 DEF CallSound, Holding, GrowTypeOK
<1> QED
  BY <1>1, <1>4, <1>5, <1>6, <1>7 DEF GrowInv, GrowthAccounted

LEMMA ResumeKeepsGrowth ==
    ASSUME GrowInv, NEW c \in Calls, Resume(c)
    PROVE  GrowInv'
<1>1. PICK k \in Pending : call' = Holding(k)
  BY DEF Resume
<1>2. UNCHANGED <<rows, lv, fs>>
  BY DEF Resume, volumeVars
<1> QED
  BY <1>1, <1>2 DEF Pending, Holding, GrowInv, GrowthAccounted, OnePending, SizeRecorded,
     DoneIsReached, CallSound

LEMMA CallKeepsGrowth ==
    ASSUME GrowTypeOK, VolumeTypeOK, GrowInv, CallStep \/ CallDies \/ ResizeCut
    PROVE  GrowInv'
<1> USE DEF GrowTypeOK, VolumeTypeOK, GrowInv, CallSound, CallAt, Running
<1>1. CASE Extend
  <2>1. /\ call.row \in DOMAIN rows
        /\ Target = rows[call.row].target
        /\ Target \in Nat
        /\ call.current = lv
    BY <1>1, RowsAreOperations DEF Extend, Target
  <2>2. /\ rows' = rows /\ fs' = fs
        /\ lv' = Target \/ lv' = lv
        /\ lv <= lv'
    BY <1>1, <2>1 DEF Extend
  <2>3. SizeRecorded'
    BY <2>1, <2>2 DEF SizeRecorded, GrowthAccounted
  <2>4. CallSound'
    BY <1>1, <2>1, <2>2 DEF Extend
  <2> QED
    BY <2>1, <2>2, <2>3, <2>4 DEF GrowthAccounted, OnePending, DoneIsReached
<1>2. CASE Resize \/ ResizeCut
  <2>1. /\ rows' = rows /\ lv' = lv
        /\ fs <= fs' /\ fs' <= lv' /\ fs' \in Nat
    BY <1>2 DEF Resize, ResizeCut, GrowthAccounted
  <2>2. CallSound'
    BY <1>2, <2>1 DEF Resize, ResizeCut
  <2>3. DoneIsReached'
    BY <2>1, RowsAreOperations DEF DoneIsReached, GrowthAccounted
  <2> QED
    BY <2>1, <2>2, <2>3 DEF GrowthAccounted, OnePending, SizeRecorded
<1>3. CASE Complete
  <2>1. /\ UNCHANGED <<lv, fs>>
        /\ call' = None
        /\ rows' = [rows EXCEPT ![call.row].done = TRUE]
        /\ Target <= fs
    BY <1>3 DEF Complete, volumeVars
  <2>2. /\ DOMAIN rows' = DOMAIN rows /\ Len(rows') = Len(rows)
        /\ \A k \in DOMAIN rows :
              /\ rows'[k].target = rows[k].target
              /\ rows'[k].done => rows[k].done \/ k = call.row
              /\ rows[k].done => rows'[k].done
    BY <2>1, RowsAreOperations DEF Operation
  <2>3. OnePending'
    BY <2>2 DEF OnePending, GrowthAccounted
  <2>4. SizeRecorded'
    BY <2>1, <2>2 DEF SizeRecorded, GrowthAccounted
  <2>5. DoneIsReached'
    BY <2>1, <2>2 DEF DoneIsReached, GrowthAccounted, Target
  <2> QED
    BY <2>1, <2>3, <2>4, <2>5 DEF GrowthAccounted
<1>4. CASE CallRefused \/ CallDies
  BY <1>4 DEF CallRefused, CallDies, CallEnds, volumeVars, GrowthAccounted, OnePending,
     SizeRecorded, DoneIsReached
<1> QED
  BY <1>1, <1>2, <1>3, <1>4 DEF CallStep

LEMMA SpaceKeepsGrowth ==
    ASSUME GrowInv, UNCHANGED <<lv, fs, growVars>>
    PROVE  GrowInv'
BY DEF GrowInv, GrowthAccounted, OnePending, SizeRecorded, DoneIsReached, CallSound,
   growVars

(***************************************************************************)
(* Storage.  A PUT that has linked its file, or found the name, has synced *)
(* the content before; what is not mounted has been written out.           *)
(***************************************************************************)
PutSound(s) ==
    puts[s] # None =>
        /\ puts[s].step \in {"link", "remove", "syncdir"} => puts[s].synced
        /\ puts[s].step \in {"remove", "syncdir"} /\ puts[s].place = "volume"
           => entries[puts[s].id] # None

StoreInv ==
    /\ ObjectsWhole
    /\ AcknowledgedStand
    /\ \A s \in Slots : PutSound(s)
    /\ ~mounted => \A id \in Stored : entries[id].durable

LEMMA PutKeepsStore ==
    ASSUME StoreTypeOK, StoreInv, NEW s \in Slots, PutStep(s) \/ PutFails(s),
           mounted' = mounted
    PROVE  StoreInv'
<1> USE DEF StoreTypeOK, StoreInv, PutAt, GoPut, Put, Here, ObjectsWhole, AcknowledgedStand,
        PutSound, Stored
<1>1. CASE CreateTemp(s)
  BY <1>1 DEF CreateTemp
<1>2. CASE WriteBody(s)
  BY <1>2 DEF WriteBody
<1>3. CASE SyncTemp(s)
  BY <1>3 DEF SyncTemp
<1>4. CASE LinkName(s)
  BY <1>4 DEF LinkName, Entry
<1>5. CASE RemoveTemp(s)
  BY <1>5 DEF RemoveTemp
<1>6. CASE SyncRoot(s)
  <2>1. \A id \in Objects : entries'[id] = None <=> entries[id] = None
    BY <1>6, NoneStoreAssumption DEF SyncRoot, Settled, Entry
  <2>2. \A id \in Objects : entries[id] # None => entries'[id].data = "synced"
    BY <1>6 DEF SyncRoot, Settled, Entry
  <2>3. \A id \in Objects : entries[id] # None /\ entries[id].durable => entries'[id].durable
    BY <1>6 DEF SyncRoot, Settled, Entry
  <2>4. \A id \in Objects : entries[id] # None /\ mounted => entries'[id].durable
    BY <1>6 DEF SyncRoot, Settled, Entry
  <2>5. ObjectsWhole'
    BY <2>1, <2>2 DEF ObjectsWhole, Stored
  <2>6. ~mounted' => \A id \in Stored' : entries'[id].durable
    BY <2>1, <2>3
  <2>7. ASSUME NEW a \in acknowledged', a.place = "volume"
        PROVE  entries[a.id] # None /\ a.id \in Objects
    <3>1. CASE a \in acknowledged
      BY <2>7, <3>1
    <3>2. CASE a = [id |-> puts[s].id, place |-> puts[s].place]
      BY <1>6, <2>7, <3>2 DEF SyncRoot
    <3> QED
      BY <1>6, <3>1, <3>2 DEF SyncRoot, Answered
  <2>8. ASSUME NEW a \in acknowledged', a.place = "volume"
        PROVE  entries'[a.id].durable
    <3>1. CASE mounted
      BY <2>4, <2>7, <2>8, <3>1
    <3>2. CASE ~mounted
      <4>1. entries[a.id].durable
        BY <2>7, <2>8, <3>2
      <4> QED
        BY <2>3, <2>7, <2>8, <4>1
    <3> QED
      BY <3>1, <3>2
  <2>9. AcknowledgedStand'
    BY <2>1, <2>2, <2>7, <2>8
  <2>10. \A t \in Slots : PutSound(t)'
    BY <1>6, <2>1 DEF SyncRoot
  <2> QED
    BY <2>5, <2>6, <2>9, <2>10
<1>7. CASE PutRefused(s) \/ PutFails(s)
  BY <1>7 DEF PutRefused, PutFails, PutEnds
<1> QED
  BY <1>1, <1>2, <1>3, <1>4, <1>5, <1>6, <1>7 DEF PutStep

LEMMA BeginKeepsStore ==
    ASSUME StoreTypeOK, StoreInv, NEW s \in Slots, NEW id \in Objects, Begin(s, id),
           mounted' = mounted
    PROVE  StoreInv'
BY DEF StoreTypeOK, StoreInv, ObjectsWhole, AcknowledgedStand, PutSound, Stored, Begin

LEMMA DeathKeepsStore ==
    ASSUME StoreInv, ServiceDies \/ ServiceStarts, mounted' = mounted
    PROVE  StoreInv'
BY DEF StoreInv, ObjectsWhole, AcknowledgedStand, PutSound, Stored, ServiceDies, ServiceStarts

LEMMA UnmountKeepsStore ==
    ASSUME StoreTypeOK, StoreInv, Detached
    PROVE  StoreInv'
<1>1. ASSUME NEW id \in Objects, entries[id] # None
      PROVE  /\ entries'[id] # None
             /\ entries'[id].durable /\ entries'[id].data = entries[id].data
  <2>1. entries[id].data = "synced"
    BY <1>1 DEF StoreInv, ObjectsWhole, Stored
  <2>2. entries'[id] = [data |-> "synced", durable |-> TRUE]
    BY <1>1, <2>1 DEF Detached, Flushed
  <2>3. entries'[id] # None
    BY <2>2, EntryIsSome DEF Entry
  <2>4. entries'[id].durable
    BY <2>2
  <2>5. entries'[id].data = "synced"
    BY <2>2
  <2> QED
    BY <2>1, <2>3, <2>4, <2>5
<1>2. \A id \in Objects : entries[id] = None => entries'[id] = None
  BY DEF Detached, Flushed
<1> QED
  BY <1>1, <1>2 DEF StoreTypeOK, StoreInv, ObjectsWhole, AcknowledgedStand, PutSound, Stored,
     Detached, Put

LEMMA PowerKeepsStore ==
    ASSUME StoreTypeOK, StoreInv, StoreLosesPower
    PROVE  StoreInv'
<1>1. ASSUME NEW id \in Objects
      PROVE  /\ entries'[id] # None =>
                    entries'[id].data = "synced" /\ entries'[id].durable
             /\ entries[id] # None /\ entries[id].durable => entries'[id] # None
  <2>1. CASE entries[id] = None
    BY <2>1, SurvivorOf
  <2>2. CASE entries[id] # None
    <3>1. entries[id].data = "synced"
      BY <2>2 DEF StoreInv, ObjectsWhole, Stored
    <3>2. AfterPower(entries[id]) = [data |-> "synced", durable |-> TRUE]
      BY <3>1 DEF AfterPower
    <3>3. AfterPower(entries[id]) # None
      BY <3>2, EntryIsSome DEF Entry
    <3> QED
      BY <2>2, <3>2, <3>3, SurvivorOf
  <2> QED
    BY <2>1, <2>2
<1>2. puts' = [s \in Slots |-> None] /\ acknowledged' = acknowledged
  BY DEF StoreLosesPower
<1> QED
  BY <1>1, <1>2 DEF StoreTypeOK, StoreInv, ObjectsWhole, AcknowledgedStand, PutSound, Stored

(***************************************************************************)
(* The two programs together.                                              *)
(***************************************************************************)
Inv == TypeInv /\ GrowInv /\ StoreInv

LEMMA InitInv ==
    ASSUME Init
    PROVE  Inv
<1>1. TypeInv
  BY InitTypeInv
<1>2. GrowInv
  BY VolumeAssumption
     DEF Init, VolumeInit, GrowInit, GrowInv, GrowthAccounted, OnePending, SizeRecorded,
         DoneIsReached, CallSound
<1>3. StoreInv
  BY DEF Init, VolumeInit, StoreInit, StoreInv, ObjectsWhole, AcknowledgedStand, PutSound,
     Stored
<1> QED
  BY <1>1, <1>2, <1>3 DEF Inv

\* A step of the store, or of those who mount, leaves growth alone.
LEMMA GrowthApart ==
    ASSUME GrowTypeOK, GrowInv, UNCHANGED <<lv, fs, growVars>>
    PROVE  GrowTypeOK' /\ GrowInv'
<1>1. GrowTypeOK'
  BY DEF GrowTypeOK, growVars
<1> QED
  BY <1>1, SpaceKeepsGrowth

\* A step of the controller leaves the store alone.
LEMMA StoreApart ==
    ASSUME StoreTypeOK, Placed, StoreInv, mounted' = mounted, UNCHANGED storeVars
    PROVE  (StoreTypeOK /\ Placed)' /\ StoreInv'
<1>1. (StoreTypeOK /\ Placed)'
  BY DEF StoreTypeOK, Placed, storeVars
<1>2. StoreInv'
  BY DEF StoreInv, ObjectsWhole, AcknowledgedStand, PutSound, Stored, storeVars
<1> QED
  BY <1>1, <1>2

LEMMA NextKeepsInv ==
    ASSUME Inv, [Next]_vars
    PROVE  Inv'
<1> USE DEF Inv, TypeInv, VolumesTypeOK
<1>1. CASE UNCHANGED <<volumeVars, growVars>>
      /\ \/ \E s \in Slots : PutStep(s) \/ PutFails(s)
         \/ \E s \in Slots, id \in Objects : Begin(s, id)
         \/ ServiceStarts
         \/ ServiceDies
  <2>1. VolumeTypeOK' /\ (lv + ballast <= GroupSize)' /\ mounted' = mounted
    BY <1>1 DEF VolumeTypeOK, volumeVars
  <2>2. GrowTypeOK' /\ GrowInv'
    BY <1>1, GrowthApart DEF volumeVars
  <2>3. CASE \E s \in Slots : PutStep(s) \/ PutFails(s)
    BY <2>1, <2>2, <2>3, PutKeepsType, PutKeepsStore
  <2>4. CASE \E s \in Slots, id \in Objects : Begin(s, id)
    BY <2>1, <2>2, <2>4, BeginKeepsType, BeginKeepsStore
  <2>5. CASE ServiceDies
    BY <2>1, <2>2, <2>5, DeathKeepsType, DeathKeepsStore
  <2>6. CASE ServiceStarts
    <3>1. (StoreTypeOK /\ Placed)'
      BY <2>6 DEF ServiceStarts, StoreTypeOK, Placed
    <3> QED
      BY <2>1, <2>2, <2>6, <3>1, DeathKeepsStore
  <2> QED
    BY <1>1, <2>3, <2>4, <2>5, <2>6
<1>2. CASE UNCHANGED storeVars
      /\ \/ \E c \in Calls : Intend(c, Used) \/ Resume(c)
         \/ CallStep \/ CallDies \/ ResizeCut
  <2>1. mounted' = mounted
    BY <1>2 DEF Intend, Resume, CallStep, Extend, Resize, Complete, CallRefused, CallDies,
       CallEnds, ResizeCut, volumeVars
  <2>2. (StoreTypeOK /\ Placed)' /\ StoreInv'
    BY <1>2, <2>1, StoreApart
  <2>3. CASE \E c \in Calls : Intend(c, Used) \/ Resume(c)
    <3>1. UNCHANGED volumeVars
      BY <2>3 DEF Intend, Resume
    <3>2. VolumeTypeOK' /\ (lv + ballast <= GroupSize)'
      BY <3>1 DEF VolumeTypeOK, volumeVars
    <3>3. GrowTypeOK'
      BY <2>3, IntentKeepsType, ResumeKeepsType
    <3>4. GrowInv'
      BY <2>3, IntentKeepsGrowth, ResumeKeepsGrowth
    <3> QED
      BY <2>2, <3>2, <3>3, <3>4
  <2>4. CASE CallStep \/ CallDies \/ ResizeCut
    <3>1. RowHeld
      BY DEF RowHeld, GrowInv, CallSound
    <3>2. GrowTypeOK' /\ VolumeTypeOK' /\ (lv + ballast <= GroupSize)'
      BY <2>4, <3>1, CallKeepsType
    <3>3. GrowInv'
      BY <2>4, CallKeepsGrowth
    <3> QED
      BY <2>2, <3>2, <3>3
  <2> QED
    BY <1>2, <2>3, <2>4
<1>3. CASE Unmount
  <2>1. VolumeTypeOK' /\ (lv + ballast <= GroupSize)'
    BY <1>3 DEF Unmount, VolumeTypeOK
  <2>2. GrowTypeOK' /\ GrowInv'
    BY <1>3, GrowthApart DEF Unmount
  <2> QED
    BY <1>3, <2>1, <2>2, UnmountKeepsType, UnmountKeepsStore DEF Unmount
<1>4. CASE Mount
  <2>1. VolumeTypeOK' /\ (lv + ballast <= GroupSize)'
    BY <1>4 DEF Mount, VolumeTypeOK
  <2>2. GrowTypeOK' /\ GrowInv'
    BY <1>4, GrowthApart DEF Mount
  <2>3. (StoreTypeOK /\ Placed)' /\ mounted'
    BY <1>4 DEF Mount, storeVars, StoreTypeOK, Placed
  <2>4. StoreInv'
    BY <1>4 DEF Mount, StoreInv, ObjectsWhole, AcknowledgedStand, PutSound, Stored, storeVars
  <2> QED
    BY <2>1, <2>2, <2>3, <2>4
<1>5. CASE PowerFails
  <2>1. VolumeTypeOK' /\ (lv + ballast <= GroupSize)'
    BY <1>5 DEF PowerFails, VolumeTypeOK
  <2>2. GrowTypeOK'
    BY <1>5 DEF PowerFails, GrowTypeOK
  <2>3. GrowInv'
    BY <1>5 DEF PowerFails, GrowInv, GrowthAccounted, OnePending, SizeRecorded,
       DoneIsReached, CallSound
  <2> QED
    BY <1>5, <2>1, <2>2, <2>3, PowerKeepsType, PowerKeepsStore DEF PowerFails
<1>6. CASE Space
  <2>1. VolumeTypeOK' /\ (lv + ballast <= GroupSize)'
    BY <1>6, SpaceKeepsType DEF Space
  <2>2. UNCHANGED <<mounted, lv, fs>>
    BY <1>6 DEF Space, TakeSpace, ReturnSpace
  <2>3. GrowTypeOK' /\ GrowInv'
    BY <1>6, <2>2, GrowthApart DEF Space
  <2> QED
    BY <1>6, <2>1, <2>2, <2>3, StoreApart DEF Space
<1>7. CASE UNCHANGED vars
  <2>1. VolumeTypeOK' /\ (lv + ballast <= GroupSize)' /\ mounted' = mounted
    BY <1>7 DEF vars, VolumeTypeOK, volumeVars
  <2>2. GrowTypeOK' /\ GrowInv'
    BY <1>7, GrowthApart DEF vars, volumeVars
  <2> QED
    BY <1>7, <2>1, <2>2, StoreApart DEF vars
<1> QED
  BY <1>1, <1>2, <1>3, <1>4, <1>5, <1>6, <1>7
     DEF Next, StoreStep, Upload, StoreStarts, StoreFails, Grows, GrowStep, GrowFails

\* The inductive invariant holds in every reachable state.
THEOREM InvHolds == Spec => []Inv
<1>1. Init => Inv
  BY InitInv
<1>2. Inv /\ [Next]_vars => Inv'
  BY NextKeepsInv
<1> QED
  BY <1>1, <1>2, PTL DEF Spec

\* Sizes stay sizes within the group, the table has operations in it, and a PUT
\* that is answered has a place.
THEOREM VolumesTypeCorrect == Spec => []VolumesTypeOK
  BY InvHolds, PTL DEF Inv, TypeInv

\* An acknowledged object (the 201 of ServeHTTP) stays on the volume, whole.
THEOREM AcknowledgedStays == Spec => []AcknowledgedStand
  BY InvHolds, PTL DEF Inv, StoreInv

\* No name on the volume ever stands for content that was not synced before
\* os.Link, whatever is lost when power fails.
THEOREM ObjectsStayWhole == Spec => []ObjectsWhole
  BY InvHolds, PTL DEF Inv, StoreInv

\* The growth controller's table tells the volume's size, and a done operation
\* has been reached, however often calls of step() were cut short.
THEOREM GrowthIsAccounted == Spec => []GrowthAccounted
  BY InvHolds, PTL DEF Inv, GrowInv
=============================================================================
