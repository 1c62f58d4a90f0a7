------------------------------ MODULE Recovery ------------------------------
(***************************************************************************)
(* Restoring a worker from a backup: the command cmd/worker/recover.go     *)
(* together with the worker and the two routing nodes of module Worker.    *)
(*                                                                         *)
(* The operator stops the daemon, creates the restore guard, puts an old   *)
(* database back and runs the command, again and again until it succeeds.  *)
(* The command freezes the owner on both routers, collects and merges the  *)
(* histories they accepted, journals the result with a new credential,     *)
(* installs it on both routers, and only then rewrites the database and    *)
(* the configuration and removes the guard.  It may die after any step;    *)
(* posts of the old daemon may still be under way all along.               *)
(*                                                                         *)
(* A journal file per operation is assumed.  The quarantine list and the   *)
(* acknowledgements in the journal are reported and never read back.       *)
(***************************************************************************)
EXTENDS Worker

CONSTANTS
    FreshCredential,  \* FreshCredential[op]: the credential op's journal keeps
    RerunComplete,    \* the operator may run a completed operation again
    StaleBackup       \* and may restore a backup older than the last recovery

ASSUME RecoveryAssumption ==
    /\ FreshCredential \in [Operations -> Credentials]
    /\ RerunComplete \in BOOLEAN
    /\ StaleBackup \in BOOLEAN

\* The command draws the token of a journal from the system's random source:
\* it is not the configured one.
ASSUME FreshAssumption ==
    \A op \in Operations : FreshCredential[op] # InitialCredential[Self]

VARIABLES
    backup,   \* the last copy of the database, or None
    journal,  \* by operation: the journal file, or None
    command   \* the running recovery command, or None

recoveryVars == <<backup, journal, command>>

allVars == <<workerVars, recoveryVars>>

Journal == [snapshot : Snapshot \cup {None}, complete : BOOLEAN]

\* None is no history and no journal.
ASSUME NoneJournalAssumption == None \notin Snapshot /\ None \notin Journal

Step == {"freeze", "collect", "prepare", "recover", "update", "configure",
         "complete", "unguard"}

Command ==
    [operation : Operations, step : Step, router : Routers,
     merged : Snapshot \cup {None}]

RecoveryTypeOK ==
    /\ WorkerTypeOK
    /\ backup \in [db : Snapshot,
                   operations : [Names -> [request : Request, revision : U64]
                                          \cup {None}]] \cup {None}
    /\ journal \in [Operations -> Journal \cup {None}]
    /\ command \in Command \cup {None}

RecoveryInit ==
    /\ WorkerInit
    /\ backup = None
    /\ journal = [op \in Operations |-> None]
    /\ command = None

-----------------------------------------------------------------------------
(***************************************************************************)
(* The operator.                                                           *)
(***************************************************************************)
TakeBackup ==
    /\ guard = None
    /\ backup' = [db |-> db, operations |-> operations]
    /\ UNCHANGED <<workerVars, journal, command>>

\* Publication is turned off before the old database is put back.
Restore(op) ==
    /\ ~running
    /\ command = None
    /\ guard = None
    /\ backup # None
    /\ StaleBackup \/ backup.db.incarnation = db.incarnation
    /\ journal[op] = None
    /\ guard' = op
    /\ db' = backup.db
    /\ operations' = backup.operations
    /\ UNCHANGED <<running, token, units, verified, loop, network, routers,
                   recoveryVars>>

-----------------------------------------------------------------------------
(***************************************************************************)
(* The command, step by step.                                              *)
(***************************************************************************)
DoStep(step) == command # None /\ command.step = step

Goto(step, router, merged) ==
    command' = [command EXCEPT !.step = step, !.router = router, !.merged = merged]

\* Mutant of RunCommand: an interrupted recovery begins from the start.
RunCommandAnew(op) ==
    /\ ~running
    /\ command = None
    /\ guard = op
    /\ journal' = [journal EXCEPT ![op] = [snapshot |-> None, complete |-> FALSE]]
    /\ command' = [operation |-> op, step |-> "freeze", router |-> 1, merged |-> None]
    /\ UNCHANGED <<workerVars, backup>>

\* It needs the lock of the database, so the daemon is down.  The guard is
\* written first, over whatever it held: that the operator names the operation
\* the guard belongs to is an assumption.  A journal with a snapshot resumes
\* behind the merge.
RunCommand(op) ==
    /\ ~running
    /\ command = None
    /\ \/ guard = op
       \/ RerunComplete /\ guard = None /\ journal[op] # None
    /\ guard' = op
    /\ journal' = IF journal[op] = None
                  THEN [journal EXCEPT ![op] = [snapshot |-> None, complete |-> FALSE]]
                  ELSE journal
    /\ command' = [operation |-> op,
                   step |-> IF journal'[op].snapshot = None
                            THEN "freeze" ELSE "recover",
                   router |-> 1, merged |-> None]
    /\ UNCHANGED <<running, token, db, operations, units, verified, loop,
                   network, routers, backup>>

\* Any error return and any crash; what was durable stays.
CommandDies ==
    /\ command # None
    /\ command' = None
    /\ UNCHANGED <<workerVars, backup, journal>>

\* A router handles an administrative call while the command waits for it, not
\* after the command's three seconds have passed.
SetRouter(r, s) == routers' = [routers EXCEPT ![r] = Uncounted(s)]

\* Both routers are frozen before any history is collected.
FreezeRouter ==
    /\ DoStep("freeze")
    /\ CanFreeze(routers[command.router], Self, command.operation)
    /\ SetRouter(command.router,
                 Frozen(routers[command.router], Self, command.operation))
    /\ IF command.router = 1
       THEN Goto("freeze", 2, None)
       ELSE Goto("collect", 1, [db EXCEPT !.records = [i \in Ids |-> None]])
    /\ UNCHANGED <<running, guard, token, db, operations, units, verified, loop,
                   network, backup, journal>>

MaxOf(m, n) == IF m > n THEN m ELSE n

MergeRecord(old, new) ==
    CASE new = None -> old
      [] new # None /\ old = None -> new
      [] OTHER -> [(IF new.revision > old.revision THEN new ELSE old)
                      EXCEPT !.deleted = old.deleted \/ new.deleted]

\* Mutant of Merge: the router asked last is believed.
MergeLast(merged, accepted) == accepted

Merge(merged, accepted) ==
    [incarnation |-> MaxOf(merged.incarnation, accepted.incarnation),
     revision |-> MaxOf(merged.revision, accepted.revision),
     records |-> [i \in Ids |->
                    MergeRecord(merged.records[i], accepted.records[i])]]

SameIdentity(a, b) == a.app = b.app /\ a.endpoint = b.endpoint

IdentitiesAgree(merged, accepted) ==
    \A i \in RecordIds(merged) \cap RecordIds(accepted) :
        SameIdentity(merged.records[i], accepted.records[i])

\* The second freeze call changes nothing and returns the frozen history.
CollectRouter ==
    LET r == command.router
        accepted == routers[r].owners[Self].snapshot
    IN
    /\ DoStep("collect")
    /\ CanFreeze(routers[r], Self, command.operation)
    /\ IdentitiesAgree(command.merged, accepted)
    /\ SetRouter(r, Frozen(routers[r], Self, command.operation))
    /\ Goto(IF r = 1 THEN "collect" ELSE "prepare", 2,
            Merge(command.merged, accepted))
    /\ UNCHANGED <<running, guard, token, db, operations, units, verified, loop,
                   network, backup, journal>>

\* A deletion the backup knows of is kept for an instance the routers know.
KeepDeletion(accepted, old) ==
    IF /\ accepted # None
       /\ old # None
       /\ old.deleted
       /\ SameIdentity(accepted, old)
    THEN [accepted EXCEPT !.deleted = TRUE,
                          !.revision = MaxOf(accepted.revision, old.revision)]
    ELSE accepted

Prepared(merged) ==
    [incarnation |-> merged.incarnation + 1,
     revision |-> merged.revision + 1,
     records |-> [i \in Ids |-> KeepDeletion(merged.records[i], db.records[i])]]

\* Mutant of Prepare: the numbers may overflow.
PrepareUnchecked ==
    /\ DoStep("prepare")
    /\ journal' = [journal EXCEPT ![command.operation].snapshot =
                      Prepared(command.merged)]
    /\ Goto("recover", 1, None)
    /\ UNCHANGED <<workerVars, backup>>

Prepare ==
    /\ DoStep("prepare")
    /\ command.merged.incarnation < MaxI64
    /\ command.merged.revision < MaxI64
    /\ journal' = [journal EXCEPT ![command.operation].snapshot =
                      Prepared(command.merged)]
    /\ Goto("recover", 1, None)
    /\ UNCHANGED <<workerVars, backup>>

\* Mutant of RecoverRouter: one router's acknowledgement is enough.
RecoverOneRouter ==
    LET r == command.router
        op == command.operation
        snapshot == journal[op].snapshot
        hash == FreshCredential[op]
    IN
    /\ DoStep("recover")
    /\ CanRecover(routers[r], Self, op, snapshot, hash)
    /\ SetRouter(r, Recovered(routers[r], Self, op, snapshot, hash))
    /\ Goto("update", 2, None)
    /\ UNCHANGED <<running, guard, token, db, operations, units, verified, loop,
                   network, backup, journal>>

RecoverRouter ==
    LET r == command.router
        op == command.operation
        snapshot == journal[op].snapshot
        hash == FreshCredential[op]
    IN
    /\ DoStep("recover")
    /\ CanRecover(routers[r], Self, op, snapshot, hash)
    /\ SetRouter(r, Recovered(routers[r], Self, op, snapshot, hash))
    /\ Goto(IF r = 1 THEN "recover" ELSE "update", 2, None)
    /\ UNCHANGED <<running, guard, token, db, operations, units, verified, loop,
                   network, backup, journal>>

\* Mutant of UpdateDatabase: the restored database is left as it is.
SkipDatabase ==
    /\ DoStep("update")
    /\ Goto("configure", 2, None)
    /\ UNCHANGED <<workerVars, backup, journal>>

\* UPDATE routing_state; routing_operations stays as the backup had it.
UpdateDatabase ==
    /\ DoStep("update")
    /\ db' = journal[command.operation].snapshot
    /\ Goto("configure", 2, None)
    /\ UNCHANGED <<running, guard, token, operations, units, verified, loop,
                   network, routers, backup, journal>>

WriteConfig ==
    /\ DoStep("configure")
    /\ token' = FreshCredential[command.operation]
    /\ Goto("complete", 2, None)
    /\ UNCHANGED <<running, guard, db, operations, units, verified, loop,
                   network, routers, backup, journal>>

MarkComplete ==
    /\ DoStep("complete")
    /\ journal' = [journal EXCEPT ![command.operation].complete = TRUE]
    /\ Goto("unguard", 2, None)
    /\ UNCHANGED <<workerVars, backup>>

RemoveGuard ==
    /\ DoStep("unguard")
    /\ guard' = None
    /\ command' = None
    /\ UNCHANGED <<running, token, db, operations, units, verified, loop,
                   network, routers, backup, journal>>

CommandStep ==
    \/ FreezeRouter
    \/ CollectRouter
    \/ Prepare
    \/ RecoverRouter
    \/ UpdateDatabase
    \/ WriteConfig
    \/ MarkComplete
    \/ RemoveGuard

-----------------------------------------------------------------------------
\* The daemon cannot start while the command holds the lock.
WorkerStep ==
    /\ WorkerNext
    /\ command # None => ~running'
    /\ UNCHANGED recoveryVars

RecoveryNext ==
    \/ WorkerStep
    \/ TakeBackup
    \/ \E op \in Operations : Restore(op) \/ RunCommand(op)
    \/ CommandDies
    \/ CommandStep

RecoverySpec == RecoveryInit /\ [][RecoveryNext]_allVars

\* While the guard exists the operator stops a daemon that runs and repeats
\* the command; the command itself does not pause.
FairRecoverySpec ==
    /\ RecoverySpec
    /\ WF_allVars(guard # None /\ DaemonStops /\ UNCHANGED recoveryVars)
    /\ SF_allVars(\E op \in Operations : guard = op /\ RunCommand(op))
    /\ WF_allVars(CommandStep)

-----------------------------------------------------------------------------
(***************************************************************************)
(* Properties.                                                             *)
(***************************************************************************)

\* Once a result is journalled, both routers will accept it, whatever was
\* interrupted and whatever late post arrived in between: the merge respects
\* every rule of accept for both of two different histories, and a repeated
\* call is recognised as the same result.
ResultAcceptable ==
    \A op \in Operations :
        guard = op /\ journal[op] # None /\ journal[op].snapshot # None =>
            \A r \in Routers :
                CanRecover(routers[r], Self, op, journal[op].snapshot,
                           FreshCredential[op])

\* Nothing is published under the reconciled incarnation before both routers
\* have installed it and with it fenced the old credential.
BothFenceFirst ==
    \A post \in network, r \in Routers :
        post.snapshot.incarnation > 1 =>
            /\ routers[r].owners[Self] # None
            /\ routers[r].owners[Self].snapshot.incarnation
                  >= post.snapshot.incarnation
            /\ Credential(routers[r], Self) # InitialCredential[Self]

\* A tombstone any router holds is a tombstone for the worker as soon as the
\* worker may publish and supervise again.
TombstonesStay ==
    guard = None =>
        \A r \in Routers, i \in Ids : Tombstone(r, i) => DeletedHere(i)

\* The restored database or some router has the last number there is.
Exhausted ==
    \/ MaxI64 \in {db.revision, db.incarnation}
    \/ \E r \in Routers :
          /\ routers[r].owners[Self] # None
          /\ MaxI64 \in {routers[r].owners[Self].snapshot.revision,
                         routers[r].owners[Self].snapshot.incarnation}

\* A recovery of an owner both routers know completes when it is repeated by
\* its operation's name, wherever earlier attempts died: no interrupted
\* attempt leaves the guard, the fences and the journal in a state from which
\* the command cannot go on, short of the numbers running out.
RecoveryCompletes ==
    <>[][~CommandDies]_allVars =>
        ((guard # None /\ \A r \in Routers : routers[r].owners[Self] # None)
            ~> (guard = None \/ Exhausted))
=============================================================================
