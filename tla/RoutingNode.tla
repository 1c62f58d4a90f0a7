---------------------------- MODULE RoutingNode -----------------------------
(***************************************************************************)
(* One routing node: the HTTP handlers publish, recover and view of        *)
(* routing/src/main.rs, the writer lock they share, storage::save step by  *)
(* step, and process crashes, power failures and restarts at every point.  *)
(*                                                                         *)
(* The request handlers run on a multi-threaded runtime, so publish's      *)
(* first credential check, its try_lock and everything behind the lock are *)
(* separate steps.  Behind the lock the candidate is computed from the     *)
(* active state, written to a temporary file, synced, renamed over the     *)
(* state file, the directory is synced, and only then is the candidate     *)
(* activated and the request answered.                                     *)
(***************************************************************************)
EXTENDS RoutingState

CONSTANTS
    Offers,             \* the snapshots that publishers and recovery send
    MaxInFlight,        \* bound: publish requests between check and lock
    MaxUnsynced,        \* bound: no more saves fail while a power failure
                        \* may leave this many different files
    Faults,             \* the kinds of failure that may happen
    Corrupt             \* a state file whose contents were lost

ASSUME OffersAssumption == Offers \subseteq Snapshot

ASSUME FaultsAssumption == Faults \subseteq {"save", "crash", "power"}

TemporaryFile == [contents : State, synced : BOOLEAN]

ASSUME FileAssumption == Corrupt \notin State /\ None \notin TemporaryFile

VARIABLES
    up,             \* the process runs
    active,         \* Server.active, the state every reader is served
    authenticated,  \* publish requests that passed the first credential check
    writer,         \* the request that holds Server.writer, or None
    temporary,      \* the temporary file: contents, and whether it is synced
    disk,           \* the contents of the state file, as a reader finds them
    survivors,      \* the contents a power failure may leave in the state file
    acknowledged,   \* history: the state of the last request answered Ok
    confirmed       \* history: the incarnation in which each owner last
                    \* published to this process, 0 if it has not

vars == <<up, active, authenticated, writer, temporary, disk, survivors,
          acknowledged, confirmed>>

\* The steps of storage::save, then send_replace.
Phase == {"write", "sync", "rename", "sync_directory", "activate"}

Request == [owner : Owners, expected : Credentials]

Writer ==
    [owner : Owners,
     expected : Credentials \cup {None},  \* None for administrative requests
     candidate : State,
     phase : Phase]

TypeOK ==
    /\ up \in BOOLEAN
    /\ active \in State
    /\ authenticated \in SUBSET Request
    /\ writer \in Writer \cup {None}
    /\ temporary \in TemporaryFile \cup {None}
    /\ disk \in State
    /\ survivors \in SUBSET (State \cup {Corrupt})
    /\ acknowledged \in State
    /\ confirmed \in [Owners -> U64]

Init ==
    /\ up = TRUE
    /\ active = EmptyState
    /\ authenticated = {}
    /\ writer = None
    /\ temporary = None
    /\ disk = EmptyState
    /\ survivors = {EmptyState}
    /\ acknowledged = EmptyState
    /\ confirmed = [o \in Owners |-> 0]

-----------------------------------------------------------------------------
(***************************************************************************)
(* publish                                                                 *)
(***************************************************************************)

\* The token's hash is compared with the active state's before the lock is
\* taken.  A wrong token is refused and leaves no trace.
Authenticate(o, token) ==
    /\ up
    /\ Cardinality(authenticated) < MaxInFlight
    /\ token = Credential(active, o)
    /\ authenticated' = authenticated \cup {[owner |-> o, expected |-> token]}
    /\ UNCHANGED <<up, active, writer, temporary, disk, survivors,
                   acknowledged, confirmed>>

\* Mutant of NotFenced: the first check is trusted.
CheckedBefore(request) == request \in authenticated

\* Behind the lock the credential is read again: recovery may have replaced
\* it since the first check.
NotFenced(request) == Credential(active, request.owner) = request.expected

CanPublish(request, next) ==
    LET o == request.owner IN
    /\ NotFenced(request)
    /\ CanCommit(active, o, next)

\* Mutant of BeginSave: the candidate is activated before it is saved.
BeginActivated(o, expected, candidate) ==
    writer' = [owner |-> o, expected |-> expected, candidate |-> candidate,
               phase |-> "activate"]

BeginSave(o, expected, candidate) ==
    writer' = [owner |-> o, expected |-> expected, candidate |-> candidate,
               phase |-> "write"]

\* The snapshot is not looked at before this step, so it is chosen here.
Publish(request, next) ==
    /\ up
    /\ request \in authenticated
    /\ writer = None
    /\ CanPublish(request, next)
    /\ BeginSave(request.owner, request.expected,
                 Accepted(active, request.owner, next))
    /\ authenticated' = authenticated \ {request}
    /\ UNCHANGED <<up, active, temporary, disk, survivors, acknowledged,
                   confirmed>>

\* 503 writer busy, 401 credential fenced or 409 conflict.
PublishRefused(request, next) ==
    /\ up
    /\ request \in authenticated
    /\ writer # None \/ ~CanPublish(request, next)
    /\ authenticated' = authenticated \ {request}
    /\ UNCHANGED <<up, active, writer, temporary, disk, survivors,
                   acknowledged, confirmed>>

-----------------------------------------------------------------------------
(***************************************************************************)
(* recover: one handler, which freezes when the request has no snapshot.   *)
(***************************************************************************)
Freeze(o, op) ==
    /\ up
    /\ writer = None
    /\ CanFreeze(active, o, op)
    /\ BeginSave(o, None, Frozen(active, o, op))
    /\ UNCHANGED <<up, active, authenticated, temporary, disk, survivors,
                   acknowledged, confirmed>>

Recover(o, op, next, hash) ==
    /\ up
    /\ writer = None
    /\ CanRecover(active, o, op, next, hash)
    /\ BeginSave(o, None, Recovered(active, o, op, next, hash))
    /\ UNCHANGED <<up, active, authenticated, temporary, disk, survivors,
                   acknowledged, confirmed>>

-----------------------------------------------------------------------------
(***************************************************************************)
(* storage::save and the activation, in the task that owns the lock.       *)
(***************************************************************************)
At(phase) == up /\ writer # None /\ writer.phase = phase

\* Mutant of SaveWrite: the file is renamed without having been synced.
SaveWriteOnly ==
    /\ At("write")
    /\ temporary' = [contents |-> writer.candidate, synced |-> FALSE]
    /\ writer' = [writer EXCEPT !.phase = "rename"]
    /\ UNCHANGED <<up, active, authenticated, disk, survivors, acknowledged,
                   confirmed>>

SaveWrite ==
    /\ At("write")
    /\ temporary' = [contents |-> writer.candidate, synced |-> FALSE]
    /\ writer' = [writer EXCEPT !.phase = "sync"]
    /\ UNCHANGED <<up, active, authenticated, disk, survivors, acknowledged,
                   confirmed>>

SaveSync ==
    /\ At("sync")
    /\ temporary' = [temporary EXCEPT !.synced = TRUE]
    /\ writer' = [writer EXCEPT !.phase = "rename"]
    /\ UNCHANGED <<up, active, authenticated, disk, survivors, acknowledged,
                   confirmed>>

\* Mutant of SaveRename: the directory is not synced.
SaveRenameOnly ==
    /\ At("rename")
    /\ disk' = temporary.contents
    /\ survivors' = survivors \cup {temporary.contents}
    /\ temporary' = None
    /\ writer' = [writer EXCEPT !.phase = "activate"]
    /\ UNCHANGED <<up, active, authenticated, acknowledged, confirmed>>

\* Until the directory is synced a power failure may keep the old entry.  A
\* renamed file whose data was never synced may come back without its data.
SaveRename ==
    /\ At("rename")
    /\ disk' = temporary.contents
    /\ survivors' = survivors \cup {temporary.contents}
                    \cup (IF temporary.synced THEN {} ELSE {Corrupt})
    /\ temporary' = None
    /\ writer' = [writer EXCEPT !.phase = "sync_directory"]
    /\ UNCHANGED <<up, active, authenticated, acknowledged, confirmed>>

SaveSyncDirectory ==
    /\ At("sync_directory")
    /\ survivors' = {disk}
    /\ writer' = [writer EXCEPT !.phase = "activate"]
    /\ UNCHANGED <<up, active, authenticated, temporary, disk, acknowledged,
                   confirmed>>

\* Any step of save may fail: 507, the lock is released, nothing activated.
\* The temporary file that stays behind is truncated before its next use
\* and never read, so it is forgotten here.
SaveFails ==
    /\ "save" \in Faults
    /\ Cardinality(survivors) <= MaxUnsynced
    /\ up
    /\ writer # None
    /\ writer.phase # "activate"
    /\ writer' = None
    /\ temporary' = None
    /\ UNCHANGED <<up, active, authenticated, disk, survivors, acknowledged,
                   confirmed>>

\* send_replace and the Ok response.
Activate ==
    /\ At("activate")
    /\ active' = writer.candidate
    /\ acknowledged' = writer.candidate
    /\ confirmed' =
          IF writer.expected = None
          THEN confirmed
          ELSE [confirmed EXCEPT ![writer.owner] =
                  writer.candidate.owners[writer.owner].snapshot.incarnation]
    /\ writer' = None
    /\ UNCHANGED <<up, authenticated, temporary, disk, survivors>>

-----------------------------------------------------------------------------
(***************************************************************************)
(* Failures and restart.                                                   *)
(***************************************************************************)
LoseMemory ==
    /\ up' = FALSE
    /\ authenticated' = {}
    /\ writer' = None
    /\ temporary' = None
    /\ confirmed' = [o \in Owners |-> 0]

\* The kernel keeps the files as they are.
Crash ==
    /\ "crash" \in Faults
    /\ Cardinality(survivors) <= MaxUnsynced
    /\ up
    /\ LoseMemory
    /\ UNCHANGED <<active, disk, survivors, acknowledged>>

\* The machine stops: the state file is one of those that may survive.
PowerFailure(contents) ==
    /\ "power" \in Faults
    /\ contents \in survivors
    /\ contents # Corrupt
    /\ LoseMemory
    /\ disk' = contents
    /\ survivors' = {contents}
    /\ UNCHANGED <<active, acknowledged>>

\* main: a state that does not load keeps the node down.
Restart ==
    /\ ~up
    /\ Loads(disk)
    /\ up' = TRUE
    /\ active' = AfterRestart(disk)
    /\ UNCHANGED <<authenticated, writer, temporary, disk, survivors,
                   acknowledged, confirmed>>

Save == SaveWrite \/ SaveSync \/ SaveRename \/ SaveSyncDirectory

Next ==
    \/ \E o \in Owners, token \in Credentials : Authenticate(o, token)
    \/ \E request \in authenticated, next \in Offers : Publish(request, next)
    \/ \E request \in authenticated, next \in Offers :
          PublishRefused(request, next)
    \/ \E o \in Owners, op \in Operations : Freeze(o, op)
    \/ \E o \in Owners, op \in Operations, next \in Offers,
          hash \in Credentials : Recover(o, op, next, hash)
    \/ Save
    \/ SaveFails
    \/ Activate
    \/ Crash
    \/ \E contents \in survivors : PowerFailure(contents)
    \/ Restart

Spec == Init /\ [][Next]_vars

-----------------------------------------------------------------------------
(***************************************************************************)
(* Properties.                                                             *)
(***************************************************************************)

\* An update that publish or recover answered with Ok is never lost or
\* undone: not by a crash or a power failure at any step of a later save,
\* not by a failed save, not by the state that is served after a restart.
AcknowledgedSurvives ==
    /\ \A contents \in survivors \ {Corrupt} : Extends(acknowledged, contents)
    /\ Extends(acknowledged, disk)
    /\ up => Extends(acknowledged, active)

\* Whatever a failure leaves on disk, main starts from it: the file is whole,
\* within load's size limit, passes validate_metadata, and every owner's
\* snapshot is accepted again.  A state that accept, freeze or recover
\* produced but the startup check rejects would keep the node down for good.
AlwaysStarts ==
    \A contents \in survivors \cup {disk} :
        contents # Corrupt /\ Loads(contents)

\* A crash of the process takes back nothing a reader may have been served:
\* the state file is at all times at least as new as the active state.
ServedSurvivesCrash == up => Extends(active, disk)

\* No socket is ever routed to two instances, of one owner or of two, even
\* after a deletion: accept reserves endpoints for the lab's lifetime.
EndpointsExclusive == Exclusive(active)

\* A publish that passed its credential check before a recovery replaced the
\* credential never commits: what is being saved for a publisher carries the
\* credential that is valid while it is being saved.
FencedNeverCommits ==
    writer # None /\ writer.expected # None =>
        Credential(active, writer.owner) = writer.expected

\* A route is shown as fresh only if its owner itself has published to this
\* process under the incarnation shown: not merely after a restart, a freeze
\* or a recovery.
FreshMeansConfirmed ==
    \A o \in Known(active) :
        up /\ ~active.owners[o].stale =>
            confirmed[o] = active.owners[o].snapshot.incarnation

\* accept's budget for the largest representation: however full the view is,
\* an owner that is not frozen can still delete any live record, as long as
\* its counters are not exhausted.
Deletion(snapshot, i) ==
    [snapshot EXCEPT !.revision = @ + 1,
                     !.records[i].revision = snapshot.revision + 1,
                     !.records[i].deleted = TRUE]

DeletionAlwaysFits ==
    \A o \in Known(active) :
        /\ active.owners[o].frozen_by = None
        /\ active.generation < MaxU64
        /\ active.owners[o].snapshot.revision < MaxU64
        => \A i \in RecordIds(active.owners[o].snapshot) :
              CanAccept(active, o, Deletion(active.owners[o].snapshot, i))

\* Once a freeze is answered, the owner's accepted history stays as it was in
\* the answer until that very operation recovers it, whatever fails in
\* between.  Recovery merges what two nodes answered and relies on neither
\* moving on.  Only where a recovery that was saved, but never answered, has
\* moved the history already, later operations may have moved it again.
FrozenHistoryStands ==
    [][\A o \in Known(acknowledged) :
          LET old == acknowledged.owners[o]
              new == acknowledged'.owners[o] IN
          old.frozen_by # None =>
              \/ /\ new.snapshot = old.snapshot
                 /\ new.frozen_by = old.frozen_by
              \/ /\ new.recovery # None
                 /\ new.snapshot.incarnation > old.snapshot.incarnation
                 /\ active.owners[o].snapshot = old.snapshot =>
                       new.recovery.operation = old.frozen_by]_vars

\* What the order of storage::save and send_replace maintains at every step:
\* the candidate builds on the active state, the files hold what the phase
\* says they hold, nothing of an acknowledged update is missing from any file
\* that may survive, and no state gives one endpoint to two instances.
WriterInv ==
    writer # None =>
        /\ up
        /\ Extends(active, writer.candidate)
        /\ Valid(writer.candidate)
        /\ writer.candidate.owners[writer.owner] # None
        /\ writer.phase \in {"sync", "rename"} =>
              temporary # None /\ temporary.contents = writer.candidate
        /\ writer.phase = "rename" => temporary.synced = TRUE
        /\ writer.phase \in {"sync_directory", "activate"} =>
              disk = writer.candidate
        /\ writer.phase = "activate" => survivors = {disk}

FilesInv ==
    /\ disk \in survivors
    /\ Corrupt \notin survivors
    /\ \A contents \in survivors :
          Extends(acknowledged, contents) /\ Valid(contents)

ServedInv ==
    /\ Valid(active)
    /\ up => Extends(acknowledged, active) /\ Extends(active, disk)

SaveProtocol == WriterInv /\ FilesInv /\ ServedInv

\* The node with all its steps and failures implements the promise of
\* RouteHistory: acknowledged updates only accumulate, and what is served
\* after any restart contains them.
Promise == INSTANCE RouteHistory WITH
    history <- acknowledged,
    view <- IF up THEN active ELSE None

KeepsPromise == Promise!HistorySpec

\* One request that is accepted leads from state s to state t.
Handled(s, t) ==
    \E o \in Owners :
        \/ \E next \in Offers : CanCommit(s, o, next) /\ t = Accepted(s, o, next)
        \/ \E op \in Operations :
              \/ CanFreeze(s, o, op) /\ t = Frozen(s, o, op)
              \/ \E next \in Offers, hash \in Credentials :
                    /\ CanRecover(s, o, op, next, hash)
                    /\ t = Recovered(s, o, op, next, hash)

\* Every request takes effect at once or not at all: what is served is, after
\* each answer, exactly one accepted request further, and every restart would
\* find it; a save that was cut short leaves the effect of its whole request
\* or none of it.  The lock, the order of storage::save and send_replace, and
\* what a failure at each point leaves behind are behind AtomicNode.
Atomically == INSTANCE AtomicNode WITH
    Empty <- EmptyState,
    Handles <- Handled,
    AtRestart <- AfterRestart,
    view <- IF up THEN active ELSE None,
    kept <- survivors

HandlesAtomically == Atomically!AtomicSpec
=============================================================================
