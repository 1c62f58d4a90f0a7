----------------------------- MODULE ObjectStore ------------------------------
(***************************************************************************)
(* The object store (cmd/objects/main.go): concurrent PUTs of immutable    *)
(* objects that are named by their digest.  A PUT looks at the mount,      *)
(* writes a temporary file and syncs it, links it under the name of the    *)
(* object, removes the temporary name, syncs the directory and answers.    *)
(*                                                                         *)
(* Paths are looked up anew at every step, so a volume that is mounted or  *)
(* unmounted between two of them is seen by the second.  "plain" is the    *)
(* directory below the mount point.  A body with the wrong digest is a PUT *)
(* that fails.  GET and the health request read and change nothing.        *)
(***************************************************************************)
EXTENDS Volume

CONSTANTS
    Objects,     \* digests
    Slots,       \* requests served at once (16)
    MaxStrays    \* bound: temporary files left behind

ASSUME StoreAssumption == MaxStrays \in Nat /\ IsFiniteSet(Slots)

VARIABLES
    serving,       \* the service runs
    puts,          \* the PUT in each slot, or None
    entries,       \* the objects on the volume, or None
    strays,        \* temporary files on the volume that no PUT will remove
    acknowledged   \* history: answered PUTs and where they put their file

storeVars == <<serving, puts, entries, strays, acknowledged>>

Places == {"volume", "plain"}

Entry == [data : {"cached", "synced", "torn"}, durable : BOOLEAN]

Put == [id : Objects, place : Places \cup {None}, synced : BOOLEAN, linked : BOOLEAN,
        step : {"create", "write", "sync", "link", "remove", "syncdir"}]

ASSUME NoneStoreAssumption == None \notin Entry \cup Put

StoreTypeOK ==
    /\ serving \in BOOLEAN
    /\ puts \in [Slots -> Put \cup {None}]
    /\ entries \in [Objects -> Entry \cup {None}]
    /\ strays \in Nat
    /\ acknowledged \in SUBSET [id : Objects, place : Places]

StoreInit ==
    /\ serving = TRUE
    /\ puts = [s \in Slots |-> None]
    /\ entries = [id \in Objects |-> None]
    /\ strays = 0
    /\ acknowledged = {}

-----------------------------------------------------------------------------
PutAt(s, step) == puts[s] # None /\ puts[s].step = step

GoPut(s, step) == puts' = [puts EXCEPT ![s].step = step]

\* The temporary file is an inode of its own; once it is linked it is the
\* object's.
Occupies(s) ==
    /\ puts[s] # None
    /\ puts[s].place = "volume"
    /\ puts[s].step \in {"sync", "link", "remove"}
    /\ ~puts[s].linked

Temporary == {s \in Slots : Occupies(s)}

Stored == {id \in Objects : entries[id] # None}

Used == Cardinality(Stored) + strays + Cardinality(Temporary)

Open(s) ==
    /\ puts[s] # None
    /\ puts[s].place = "volume"
    /\ puts[s].step \in {"write", "sync"}

\* A slot is free and owned() holds.
Begin(s, id) ==
    /\ serving
    /\ puts[s] = None
    /\ mounted
    /\ puts' = [puts EXCEPT ![s] = [id |-> id, place |-> None, synced |-> FALSE,
                                    linked |-> FALSE, step |-> "create"]]
    /\ UNCHANGED <<serving, entries, strays, acknowledged>>

CreateTemp(s) ==
    /\ PutAt(s, "create")
    /\ puts' = [puts EXCEPT ![s].place = Here, ![s].step = "write"]
    /\ UNCHANGED <<serving, entries, strays, acknowledged>>

WriteBody(s) ==
    /\ PutAt(s, "write")
    /\ puts[s].place = "volume" => Used < fs
    /\ GoPut(s, "sync")
    /\ UNCHANGED <<serving, entries, strays, acknowledged>>

\* Mutant of SyncTemp: the file is closed only.
CloseTemp(s) ==
    /\ PutAt(s, "sync")
    /\ GoPut(s, "link")
    /\ UNCHANGED <<serving, entries, strays, acknowledged>>

SyncTemp(s) ==
    /\ PutAt(s, "sync")
    /\ puts' = [puts EXCEPT ![s].synced = TRUE, ![s].step = "link"]
    /\ UNCHANGED <<serving, entries, strays, acknowledged>>

\* A name that is taken stays as it is and has to hold the right content.
LinkName(s) ==
    LET id == puts[s].id IN
    /\ PutAt(s, "link")
    /\ puts[s].place = Here
    /\ IF Here = "volume" /\ entries[id] = None
       THEN /\ entries' = [entries EXCEPT ![id] =
                  [data |-> IF puts[s].synced THEN "synced" ELSE "cached",
                   durable |-> FALSE]]
            /\ puts' = [puts EXCEPT ![s].linked = TRUE, ![s].step = "remove"]
       ELSE /\ Here = "volume" => entries[id].data # "torn"
            /\ GoPut(s, "remove")
            /\ UNCHANGED entries
    /\ UNCHANGED <<serving, strays, acknowledged>>

RemoveTemp(s) ==
    /\ PutAt(s, "remove")
    /\ puts[s].place = Here
    /\ GoPut(s, "syncdir")
    /\ UNCHANGED <<serving, entries, strays, acknowledged>>

Settled(id) ==
    IF entries[id] = None THEN None ELSE [entries[id] EXCEPT !.durable = TRUE]

Answered(s) ==
    acknowledged \cup {[id |-> puts[s].id, place |-> puts[s].place]}

\* Mutant of SyncRoot: a name that was taken needs no sync.
SyncOwnName(s) ==
    /\ PutAt(s, "syncdir")
    /\ entries' = IF Here = "volume" /\ puts[s].linked
                  THEN [id \in Objects |-> Settled(id)]
                  ELSE entries
    /\ acknowledged' = Answered(s)
    /\ puts' = [puts EXCEPT ![s] = None]
    /\ UNCHANGED <<serving, strays>>

\* The directory is synced with every name in it, and the PUT is answered.
SyncRoot(s) ==
    /\ PutAt(s, "syncdir")
    /\ entries' = IF Here = "volume" THEN [id \in Objects |-> Settled(id)] ELSE entries
    /\ acknowledged' = Answered(s)
    /\ puts' = [puts EXCEPT ![s] = None]
    /\ UNCHANGED <<serving, strays>>

\* The deferred os.Remove takes the temporary file away where it is found.
PutEnds(s) ==
    /\ puts' = [puts EXCEPT ![s] = None]
    /\ strays' = strays + (IF Occupies(s) /\ ~mounted THEN 1 ELSE 0)
    /\ UNCHANGED <<serving, entries, acknowledged>>

\* The volume is full, or the temporary name is not where the path leads now.
PutRefused(s) ==
    /\ \/ PutAt(s, "write") /\ puts[s].place = "volume" /\ Used >= fs
       \/ PutAt(s, "link") /\ puts[s].place # Here
       \/ PutAt(s, "remove") /\ puts[s].place # Here
    /\ PutEnds(s)

\* The client goes away or sends something else, or a call fails.  The name may
\* also be there with other content, which ObjectsWhole excludes.
PutFails(s) == puts[s] # None /\ PutEnds(s)

PutStep(s) ==
    \/ CreateTemp(s)
    \/ WriteBody(s)
    \/ SyncTemp(s)
    \/ LinkName(s)
    \/ RemoveTemp(s)
    \/ SyncRoot(s)
    \/ PutRefused(s)

-----------------------------------------------------------------------------
\* Files that were being written stay behind with what they have.
ServiceDies ==
    /\ serving
    /\ serving' = FALSE
    /\ puts' = [s \in Slots |-> None]
    /\ \E partial \in SUBSET {s \in Slots : Open(s) /\ puts[s].step = "write"} :
          /\ Used + Cardinality(partial) <= fs
          /\ strays' = strays + Cardinality(Temporary \cup partial)
    /\ strays' <= MaxStrays
    /\ UNCHANGED <<entries, acknowledged>>

\* main ends at once when owned() fails.
ServiceStarts ==
    /\ ~serving
    /\ mounted
    /\ serving' = TRUE
    /\ UNCHANGED <<puts, entries, strays, acknowledged>>

\* umount refuses while a file is open and writes out everything else.
Flushed(id) ==
    IF entries[id] = None
    THEN None
    ELSE [data |-> IF entries[id].data = "cached" THEN "synced" ELSE entries[id].data,
          durable |-> TRUE]

CanDetach == \A s \in Slots : ~Open(s)

Detached ==
    /\ strays + Cardinality(Temporary) <= MaxStrays
    /\ entries' = [id \in Objects |-> Flushed(id)]
    /\ UNCHANGED <<serving, puts, strays, acknowledged>>

\* Without a sync a name may be lost, and with its name the content.
AfterPower(entry) ==
    [data |-> IF entry.data = "cached" THEN "torn" ELSE entry.data, durable |-> TRUE]

Survivors(id) ==
    IF entries[id] = None
    THEN {None}
    ELSE {AfterPower(entries[id])} \cup (IF entries[id].durable THEN {} ELSE {None})

StoreLosesPower ==
    /\ serving' = FALSE
    /\ puts' = [s \in Slots |-> None]
    /\ entries' \in [Objects -> UNION {Survivors(id) : id \in Objects}]
    /\ \A id \in Objects : entries'[id] \in Survivors(id)
    /\ strays' \in strays .. (strays + Cardinality(Temporary))
    /\ strays' <= MaxStrays
    /\ UNCHANGED acknowledged

-----------------------------------------------------------------------------
\* An object that was acknowledged is on the volume, whole and under a durable
\* name, whatever PUTs of the same object do at the same time and whatever is
\* lost at a power failure.  It needs that the file was created on the volume:
\* owned() looks at the mount before that, and does not hold it.
AcknowledgedStand ==
    \A a \in acknowledged :
        a.place = "volume" =>
            /\ entries[a.id] # None
            /\ entries[a.id].data = "synced"
            /\ entries[a.id].durable

\* What can be read under the name of an object was on disk before the name
\* was: no crash ever leaves a name with other content, acknowledged or not.
ObjectsWhole == \A id \in Stored : entries[id].data = "synced"
=============================================================================
