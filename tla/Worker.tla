------------------------------- MODULE Worker -------------------------------
(***************************************************************************)
(* The worker daemon (cmd/worker/serve.go) and the two routing nodes it    *)
(* publishes to.  An administrator registers and deletes instances; each   *)
(* request is one SQLite transaction.  The publish loop takes the routers  *)
(* in turn: it reads the snapshot, brings every supervised unit in line    *)
(* with it, verifies what each live unit serves, and posts the snapshot.   *)
(* A post may be lost, and one that timed out may still be handled later.  *)
(*                                                                         *)
(* A routing node handles a post in one step: RoutingNode, with its lock,  *)
(* save and activation, implements AtomicNode, which does.  The routers    *)
(* here keep what they have taken, as RoutingNode does with all it has     *)
(* acknowledged: that a power failure may take an update back which was    *)
(* served after a crash and never acknowledged is not part of this module. *)
(* Its generation, which every publication advances, is not counted here:  *)
(* 2^64 publications are not reached.  What /status reports of the last    *)
(* post to each router is left out.                                        *)
(***************************************************************************)
EXTENDS RoutingState

CONSTANTS
    Self,            \* config.Owner
    Workloads,       \* Workloads[i]: application and endpoint of instance i
    Names,           \* operation names of registrations
    OperationLimit,  \* rows of routing_operations before only deletions pass
    MaxI64,          \* the largest revision the worker hands out
    MaxPosts,        \* bound: posts under way at once
    WorkerFaults,    \* the kinds of failure that may happen, besides lost posts
    Preloaded        \* what the routers hold of the other owners at first

Routers == 1 .. 2

Request == [id : Ids, deleted : BOOLEAN]

ASSUME WorkerAssumption ==
    /\ Self \in Owners
    /\ Workloads \in [Ids -> [app : Apps, endpoint : Endpoints]]
    /\ OperationLimit \in Nat
    /\ MaxI64 \in U64
    /\ WorkerFaults \subseteq {"unit", "probe", "daemon"}
    /\ Preloaded \in State
    /\ Preloaded.owners[Self] = None

VARIABLES
    running,     \* the daemon runs and holds the lock of its database
    guard,       \* the restore guard file: None, or the recovery's name
    token,       \* config.Token, as the hash the routers compare
    db,          \* routing_state.body
    operations,  \* routing_operations: request and revision by name, or None
    units,       \* the instances whose supervised unit is active
    verified,    \* the instances whose last observation is "verified"
    loop,        \* where the publish loop is
    network,     \* posts sent and not yet handled
    routers      \* the active state of each routing node

workerVars == <<running, guard, token, db, operations, units, verified, loop,
                network, routers>>

Post == [router : Routers, snapshot : Snapshot, token : Credentials]

Loop ==
    [router : Routers, phase : {"read", "reconcile", "await"},
     snapshot : Snapshot \cup {None}, todo : SUBSET Ids]

LoopAt(router) ==
    [router |-> router, phase |-> "read", snapshot |-> None, todo |-> {}]

InitialSnapshot ==
    [incarnation |-> 1, revision |-> 1, records |-> [i \in Ids |-> None]]

WorkerTypeOK ==
    /\ running \in BOOLEAN
    /\ guard \in Operations \cup {None}
    /\ token \in Credentials
    /\ db \in Snapshot
    /\ operations \in [Names -> [request : Request, revision : U64] \cup {None}]
    /\ units \in SUBSET Ids
    /\ verified \in SUBSET Ids
    /\ loop \in Loop
    /\ network \in SUBSET Post
    /\ routers \in [Routers -> State]

WorkerInit ==
    /\ running = TRUE
    /\ guard = None
    /\ token = InitialCredential[Self]
    /\ db = InitialSnapshot
    /\ operations = [n \in Names |-> None]
    /\ units = {}
    /\ verified = {}
    /\ loop = LoopAt(1)
    /\ network = {}
    /\ routers = [r \in Routers |-> Preloaded]

-----------------------------------------------------------------------------
(***************************************************************************)
(* register, in one transaction under the daemon's mutex.                  *)
(***************************************************************************)
\* Mutant of CanRegister: a deleted instance may come back.
CanRegisterAgain(request) ==
    LET old == db.records[request.id] IN
    /\ old = None => ~request.deleted /\ Cardinality(RecordIds(db)) < RecordLimit
    /\ db.revision < MaxI64

\* Mutant of CanRegister: the last rows are not kept for deletions.
CanRegisterWhileRoom(request) ==
    LET old == db.records[request.id] IN
    /\ Cardinality({n \in Names : operations[n] # None}) < OperationLimit
    /\ old # None /\ old.deleted => request.deleted
    /\ old = None => ~request.deleted /\ Cardinality(RecordIds(db)) < RecordLimit
    /\ db.revision < MaxI64

CanRegister(request) ==
    LET old == db.records[request.id]
        intended == Workloads[request.id]
        full == Cardinality({n \in Names : operations[n] # None}) >= OperationLimit
    IN
    /\ full => old # None /\ ~old.deleted /\ request.deleted
    /\ old # None =>
          /\ old.app = intended.app
          /\ old.endpoint = intended.endpoint
          /\ old.deleted => request.deleted
    /\ old = None =>
          ~request.deleted /\ Cardinality(RecordIds(db)) < RecordLimit
    /\ \A i \in RecordIds(db) \ {request.id} :
          db.records[i].endpoint # intended.endpoint
    /\ db.revision < MaxI64

\* Mutant of Registered: the deletion is not written.
RegisteredLive(request) ==
    [db EXCEPT
        !.revision = @ + 1,
        !.records[request.id] =
            [app |-> Workloads[request.id].app,
             endpoint |-> Workloads[request.id].endpoint,
             revision |-> db.revision + 1,
             deleted |-> FALSE]]

\* Mutant of Registered: only the record's revision advances.
RegisteredSilently(request) ==
    [db EXCEPT
        !.records[request.id] =
            [app |-> Workloads[request.id].app,
             endpoint |-> Workloads[request.id].endpoint,
             revision |-> db.revision,
             deleted |-> request.deleted]]

Registered(request) ==
    [db EXCEPT
        !.revision = @ + 1,
        !.records[request.id] =
            [app |-> Workloads[request.id].app,
             endpoint |-> Workloads[request.id].endpoint,
             revision |-> db.revision + 1,
             deleted |-> request.deleted]]

Register(name, request) ==
    /\ running
    /\ guard = None
    /\ operations[name] = None
    /\ CanRegister(request)
    /\ db' = Registered(request)
    /\ operations' = [operations EXCEPT ![name] =
                        [request |-> request, revision |-> db.revision + 1]]
    /\ UNCHANGED <<running, guard, token, units, verified, loop, network, routers>>

\* The operation is known: the same request is answered as before.
RegisterAgain(name, request) ==
    /\ running
    /\ guard = None
    /\ operations[name] # None
    /\ operations[name].request = request
    /\ UNCHANGED workerVars

-----------------------------------------------------------------------------
(***************************************************************************)
(* publishLoop and reconcileWorkloads.                                     *)
(***************************************************************************)
NextTurn == LoopAt(IF loop.router = 1 THEN 2 ELSE 1)

LoopIn(phase) == running /\ loop.phase = phase

ReadSnapshot ==
    /\ LoopIn("read")
    /\ loop' =
          IF guard # None
          THEN NextTurn
          ELSE [loop EXCEPT !.phase = "reconcile", !.snapshot = db,
                            !.todo = RecordIds(db)]
    /\ UNCHANGED <<running, guard, token, db, operations, units, verified,
                   network, routers>>

\* The unit of a live record is started and then has to answer with the
\* right identity; the unit of a deleted record is stopped.
ReconcileRecord(i) ==
    /\ LoopIn("reconcile")
    /\ i \in loop.todo
    /\ IF loop.snapshot.records[i].deleted
       THEN units' = units \ {i} /\ verified' = verified \ {i}
       ELSE units' = units \cup {i} /\ verified' = verified \cup {i}
    /\ loop' = [loop EXCEPT !.todo = @ \ {i}]
    /\ UNCHANGED <<running, guard, token, db, operations, network, routers>>

\* Mutant of ReconcileFails: the turn goes on without the instance.
ReconcileSkips(i) ==
    /\ "probe" \in WorkerFaults
    /\ LoopIn("reconcile")
    /\ i \in loop.todo
    /\ verified' = verified \ {i}
    /\ loop' = [loop EXCEPT !.todo = @ \ {i}]
    /\ UNCHANGED <<running, guard, token, db, operations, units, network, routers>>

\* systemctl fails, or it succeeds and the probe fails: the observation of a
\* live record stays unknown and this turn posts nothing.  If it is is-active
\* that fails, the running unit of a deleted record counts as stopped and is left
\* as it is, and the turn goes on.
ReconcileFails(i) ==
    /\ "probe" \in WorkerFaults
    /\ LoopIn("reconcile")
    /\ i \in loop.todo
    /\ \/ /\ loop.snapshot.records[i].deleted
          /\ i \in units
          /\ verified' = verified \ {i}
          /\ loop' = [loop EXCEPT !.todo = @ \ {i}]
          /\ UNCHANGED units
       \/ /\ loop.snapshot.records[i].deleted
          /\ loop' = NextTurn
          /\ UNCHANGED <<units, verified>>
       \/ /\ ~loop.snapshot.records[i].deleted
          /\ units' \in {units, units \cup {i}}
          /\ verified' = verified \ {i}
          /\ loop' = NextTurn
    /\ UNCHANGED <<running, guard, token, db, operations, network, routers>>

SendPost ==
    /\ LoopIn("reconcile")
    /\ loop.todo = {}
    /\ Cardinality(network) < MaxPosts
    /\ network' = network \cup {[router |-> loop.router,
                                 snapshot |-> loop.snapshot, token |-> token]}
    /\ loop' = [loop EXCEPT !.phase = "await"]
    /\ UNCHANGED <<running, guard, token, db, operations, units, verified,
                   routers>>

\* The response came back, or two seconds passed: either way the next turn.
EndPost ==
    /\ LoopIn("await")
    /\ loop' = NextTurn
    /\ UNCHANGED <<running, guard, token, db, operations, units, verified,
                   network, routers>>

Uncounted(s) == [s EXCEPT !.generation = 0]

\* A routing node handles a post: wrong credential and conflict leave its
\* state alone, otherwise the snapshot is committed.
HandlePost(post) ==
    LET s == routers[post.router] IN
    /\ post \in network
    /\ network' = network \ {post}
    /\ routers' =
          IF post.token = Credential(s, Self) /\ CanCommit(s, Self, post.snapshot)
          THEN [routers EXCEPT ![post.router] =
                  Uncounted(Accepted(s, Self, post.snapshot))]
          ELSE routers
    /\ UNCHANGED <<running, guard, token, db, operations, units, verified, loop>>

LosePost(post) ==
    /\ post \in network
    /\ network' = network \ {post}
    /\ UNCHANGED <<running, guard, token, db, operations, units, verified, loop,
                   routers>>

-----------------------------------------------------------------------------
(***************************************************************************)
(* Failures around the daemon.  Units are supervised apart from it.        *)
(***************************************************************************)
UnitDies(i) ==
    /\ "unit" \in WorkerFaults
    /\ i \in units
    /\ units' = units \ {i}
    /\ UNCHANGED <<running, guard, token, db, operations, verified, loop,
                   network, routers>>

DaemonStops ==
    /\ "daemon" \in WorkerFaults
    /\ running
    /\ running' = FALSE
    /\ verified' = {}
    /\ loop' = LoopAt(1)
    /\ UNCHANGED <<guard, token, db, operations, units, network, routers>>

DaemonStarts ==
    /\ ~running
    /\ running' = TRUE
    /\ UNCHANGED <<guard, token, db, operations, units, verified, loop, network,
                   routers>>

Administer ==
    \E name \in Names, request \in Request :
        Register(name, request) \/ RegisterAgain(name, request)

Reconcile == \E i \in Ids : ReconcileRecord(i)

PublishTurn == ReadSnapshot \/ SendPost \/ EndPost

WorkerNext ==
    \/ Administer
    \/ Reconcile
    \/ \E i \in Ids : ReconcileFails(i)
    \/ PublishTurn
    \/ \E post \in network : HandlePost(post) \/ LosePost(post)
    \/ \E i \in Ids : UnitDies(i)
    \/ DaemonStops
    \/ DaemonStarts

WorkerSpec == WorkerInit /\ [][WorkerNext]_workerVars

\* The loop is an endless loop in the daemon, a stopped daemon is restarted
\* by its supervisor, and a router that is tried again and again answers at
\* some time.
WorkerFairness ==
    /\ WF_workerVars(DaemonStarts)
    /\ WF_workerVars(PublishTurn)
    /\ WF_workerVars(Reconcile)
    /\ \A r \in Routers :
          SF_workerVars(\E post \in network : post.router = r /\ HandlePost(post))

FairWorkerSpec == WorkerSpec /\ WorkerFairness

-----------------------------------------------------------------------------
(***************************************************************************)
(* Properties.                                                             *)
(***************************************************************************)

\* What a routing node has accepted from this worker.
AcceptedRecord(r, i) == RecordOf(routers[r], Self, i)

Tombstone(r, i) == AcceptedRecord(r, i) # None /\ AcceptedRecord(r, i).deleted

DeletedHere(i) == db.records[i] # None /\ db.records[i].deleted

\* The worker's database contains everything a routing node has accepted from
\* it, in the same incarnation: a post that arrives late, after newer ones or
\* after a restart of the daemon, never puts a router ahead of the worker.
\* Were it ahead, every later snapshot would be refused as regressed.
WorkerAhead ==
    guard = None =>
        \A r \in Routers :
            LET entry == routers[r].owners[Self] IN
            entry # None =>
                /\ entry.snapshot.incarnation = db.incarnation
                /\ entry.snapshot.revision <= db.revision
                /\ \A i \in RecordIds(entry.snapshot) :
                      RecordExtends(entry.snapshot.records[i], db.records[i])

\* A snapshot is posted only after every live instance in it has been
\* verified in the same turn, and no instance that was deleted in it is still
\* counted as verified.
PostsVerifiedOnly ==
    loop.phase = "await" =>
        \A i \in RecordIds(loop.snapshot) :
            i \in verified <=> ~loop.snapshot.records[i].deleted

\* Every operation in routing_operations was answered with "durable": true and
\* is answered so again when it is retried: its intent is in the database.
AnsweredIsDurable ==
    \A n \in Names :
        guard = None /\ operations[n] # None =>
            LET request == operations[n].request
                record == db.records[request.id] IN
            /\ record # None
            /\ record.revision >= operations[n].revision
            /\ request.deleted => record.deleted

\* routing_operations keeps a reserve: whatever was registered before, an
\* instance that is live can still be deleted under a fresh operation name.
DeletionReserve ==
    db.revision < MaxI64 =>
        \A i \in RecordIds(db) :
            db.records[i].deleted \/ CanRegister([id |-> i, deleted |-> TRUE])

\* A deletion the worker has accepted reaches both routers and stops the
\* unit, although posts are lost, delayed and overtaken, provided that the
\* daemon and its probes do not fail forever.
EventuallyUndisturbed ==
    <>[][~DaemonStops /\ \A i \in Ids : ~ReconcileFails(i)]_workerVars

DeletionsArrive ==
    EventuallyUndisturbed =>
        \A i \in Ids :
            DeletedHere(i) ~>
                i \notin units /\ \A r \in Routers : Tombstone(r, i)

\* The same for an instance that a router already routes: however full the
\* complete view is, its deletion gets through.
RoutedDeletionsArrive ==
    EventuallyUndisturbed =>
        \A i \in Ids, r \in Routers :
            AcceptedRecord(r, i) # None /\ DeletedHere(i) ~> Tombstone(r, i)

StageOf(record) ==
    CASE record = None -> "absent"
      [] record # None /\ record.deleted -> "deleted"
      [] OTHER -> "live"

\* How far the worker wants each instance, once the guard is gone.
Intended ==
    IF guard = None THEN [i \in Ids |-> StageOf(db.records[i])] ELSE None

\* How far each router has each instance.
Routed == [r \in Routers |-> [i \in Ids |-> StageOf(AcceptedRecord(r, i))]]

\* The worker's database leads and the routers follow, whatever is lost,
\* delayed or overtaken between them: each instance comes up once and goes
\* down once, in the database as on every router, and no router is ahead.  A
\* recovery may take the database back, but not behind a router.
Registering == INSTANCE Registry WITH intended <- Intended, routed <- Routed

KeepsRegistry == Registering!RegistrySpec

\* None is no intent.
ASSUME NoneIntentAssumption == None \notin Registering!Stages
=============================================================================
