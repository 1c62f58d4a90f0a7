--------------------------- MODULE RecoveryProofs ---------------------------
(***************************************************************************)
(* Proofs about the worker daemon and about its recovery.                  *)
(*                                                                         *)
(* The first part is about the daemon alone, for every set of instances,   *)
(* operation names and failures, every number of posts under way, every    *)
(* capacity of the routing nodes and whatever they hold of other owners.   *)
(* Its lemmas about single steps do not assume that the restore guard is   *)
(* absent, so that the second part can use them.                           *)
(*                                                                         *)
(* The second part adds the recovery command, and every step at which the  *)
(* command, the daemon or a post is lost.  It is about an operator who     *)
(* does not run a completed operation again: run recovery_rerun shows what *)
(* that would do.                                                          *)
(*                                                                         *)
(* The third part follows the copies of the worker's database to the       *)
(* routing nodes and the backup: both nodes accept what is merged.         *)
(*                                                                         *)
(* The last part shows that worker and routing nodes, with and without     *)
(* recoveries, implement the registry of module Registry.                  *)
(***************************************************************************)
EXTENDS Recovery, RoutingStateProofs

-----------------------------------------------------------------------------
(***************************************************************************)
(* The worker: the inductive invariant.                                    *)
(***************************************************************************)

\* No record is newer than its snapshot.
RevisionsBounded(snapshot) ==
    \A i \in RecordIds(snapshot) :
        snapshot.records[i].revision <= snapshot.revision

\* The database holds what register admits: every instance as the settings
\* describe it, no endpoint twice, no revision from the future.
DatabaseSound ==
    /\ RevisionsBounded(db)
    /\ \A i \in RecordIds(db) :
          /\ db.records[i].app = Workloads[i].app
          /\ db.records[i].endpoint = Workloads[i].endpoint
          /\ \A j \in RecordIds(db) \ {i} :
                db.records[j].endpoint # db.records[i].endpoint

\* The publish loop has dealt with every instance of its snapshot that it no
\* longer has to do.
LoopSound ==
    loop.phase # "read" =>
        /\ loop.snapshot \in Snapshot
        /\ loop.phase = "await" => loop.todo = {}
        /\ \A i \in RecordIds(loop.snapshot) \ loop.todo :
              i \in verified <=> ~loop.snapshot.records[i].deleted

\* `later' says everything `earlier' says, in the same incarnation.
Follows(earlier, later) ==
    /\ earlier.incarnation = later.incarnation
    /\ earlier.revision <= later.revision
    /\ \A i \in RecordIds(earlier) :
          RecordExtends(earlier.records[i], later.records[i])

\* Wherever a snapshot of this incarnation has got to, the database has not
\* fallen behind it; the routing nodes hold no other incarnation.
SnapshotsFollowed ==
    /\ loop.phase # "read" => Follows(loop.snapshot, db)
    /\ \A post \in network :
          post.snapshot.incarnation = db.incarnation => Follows(post.snapshot, db)
    /\ \A r \in Routers :
          IF routers[r].owners[Self] = None
          THEN db.incarnation = 1
          ELSE Follows(routers[r].owners[Self].snapshot, db)

Inv ==
    /\ WorkerTypeOK
    /\ guard = None
    /\ DatabaseSound
    /\ LoopSound
    /\ SnapshotsFollowed
    /\ AnsweredIsDurable

-----------------------------------------------------------------------------
(***************************************************************************)
(* Lemmas about the operators.                                             *)
(***************************************************************************)

\* Every snapshot follows itself.
LEMMA FollowsReflexive ==
  ASSUME NEW a \in Snapshot
  PROVE  Follows(a, a)
<1>1. \A i \in RecordIds(a) : a.records[i] \in Record
  BY DEF RecordIds, Snapshot
<1>2. QED
  BY <1>1 DEF Follows, RecordIds, RecordExtends, Record, Snapshot, U64

\* What follows a later snapshot follows the earlier one.
LEMMA FollowsTransitive ==
  ASSUME NEW a \in Snapshot, NEW b \in Snapshot, NEW c \in Snapshot,
         Follows(a, b), Follows(b, c)
  PROVE  Follows(a, c)
<1>1. a.incarnation = c.incarnation
  BY DEF Follows
<1>2. a.revision <= c.revision
  BY DEF Follows, Snapshot, U64
<1>3. ASSUME NEW i \in RecordIds(a)
      PROVE  RecordExtends(a.records[i], c.records[i])
  <2>1. RecordExtends(a.records[i], b.records[i])
    BY DEF Follows
  <2>2. i \in Ids /\ i \in RecordIds(b)
    BY <2>1 DEF RecordIds, RecordExtends
  <2>3. RecordExtends(b.records[i], c.records[i])
    BY <2>2 DEF Follows
  <2>4. /\ a.records[i] \in Record
        /\ b.records[i] \in Record
        /\ c.records[i] \in Record \cup {None}
    BY <2>2 DEF RecordIds, Snapshot
  <2>5. QED
    BY <2>1, <2>3, <2>4, RecordExtendsTransitive
<1>4. QED
  BY <1>1, <1>2, <1>3 DEF Follows

\* register writes a snapshot in which one record is new or replaced.
LEMMA RegisteredIsSnapshot ==
  ASSUME WorkerTypeOK, NEW request \in Request, CanRegister(request)
  PROVE  /\ Registered(request) \in Snapshot
         /\ db.revision + 1 \in U64
         /\ Registered(request).incarnation = db.incarnation
         /\ Registered(request).revision = db.revision + 1
         /\ \A i \in Ids :
               Registered(request).records[i] =
                  IF i = request.id
                  THEN [app |-> Workloads[i].app,
                        endpoint |-> Workloads[i].endpoint,
                        revision |-> db.revision + 1,
                        deleted |-> request.deleted]
                  ELSE db.records[i]
<1> DEFINE i == request.id
           new == [app |-> Workloads[i].app,
                   endpoint |-> Workloads[i].endpoint,
                   revision |-> db.revision + 1,
                   deleted |-> request.deleted]
           records == [db.records EXCEPT ![i] = new]
<1>1. db \in Snapshot /\ i \in Ids /\ request.deleted \in BOOLEAN
  BY DEF WorkerTypeOK, Request
<1>2. db.revision + 1 \in U64
  BY <1>1, WorkerAssumption, MaxU64Assumption DEF CanRegister, Snapshot, U64
<1>3. new \in Record
  BY <1>1, <1>2, WorkerAssumption DEF Record
<1>4. Registered(request) =
         [db EXCEPT !.revision = db.revision + 1, !.records = records]
  BY <1>1 DEF Registered, Snapshot
<1>5. records \in [Ids -> Record \cup {None}]
  BY <1>1, <1>3 DEF Snapshot
<1>6. \A j \in Ids : records[j] = IF j = i THEN new ELSE db.records[j]
  BY <1>1 DEF Snapshot
<1> HIDE DEF records, new
<1>7. /\ Registered(request) \in Snapshot
      /\ Registered(request).incarnation = db.incarnation
      /\ Registered(request).revision = db.revision + 1
      /\ Registered(request).records = records
  BY <1>1, <1>2, <1>4, <1>5 DEF Snapshot
<1>8. QED
  BY <1>2, <1>6, <1>7 DEF new

\* register takes nothing back: the new snapshot follows the old one.
LEMMA RegisteredFollows ==
  ASSUME WorkerTypeOK, RevisionsBounded(db), NEW request \in Request,
         CanRegister(request)
  PROVE  Follows(db, Registered(request))
<1>1. db \in Snapshot
  BY DEF WorkerTypeOK
<1>2. \A i \in RecordIds(db) : db.records[i] \in Record /\ i \in Ids
  BY <1>1 DEF RecordIds, Snapshot
<1>3. ASSUME NEW i \in RecordIds(db)
      PROVE  RecordExtends(db.records[i], Registered(request).records[i])
  <2>1. CASE i = request.id
    <3> DEFINE new == Registered(request).records[i]
    <3>1. new = [app |-> Workloads[i].app,
                 endpoint |-> Workloads[i].endpoint,
                 revision |-> db.revision + 1,
                 deleted |-> request.deleted]
      BY <1>2, <2>1, RegisteredIsSnapshot
    <3>2. new # None
      BY <1>1, <1>2, <2>1, <3>1, RegisteredIsSnapshot, NoneAssumption,
         WorkerAssumption
      DEF Record, Request
    <3>3. /\ new.app = db.records[i].app
          /\ new.endpoint = db.records[i].endpoint
          /\ new.revision >= db.records[i].revision
      BY <1>1, <1>2, <2>1, <3>1
      DEF CanRegister, RecordIds, RevisionsBounded, Record, Snapshot, U64
    <3>4. db.records[i].deleted => new.deleted
      BY <2>1, <3>1 DEF CanRegister, RecordIds
    <3>5. QED
      BY <3>2, <3>3, <3>4 DEF RecordExtends
  <2>2. CASE i # request.id
    <3>1. Registered(request).records[i] = db.records[i]
      BY <1>2, <2>2, RegisteredIsSnapshot
    <3>2. RecordExtends(db.records[i], db.records[i])
      BY <1>1, FollowsReflexive DEF Follows
    <3>3. QED
      BY <3>1, <3>2
  <2>3. QED
    BY <2>1, <2>2
<1>4. QED
  BY <1>1, <1>3, RegisteredIsSnapshot DEF Follows, Snapshot, U64

\* register never writes a record newer than its snapshot.
LEMMA RegisteredBounded ==
  ASSUME WorkerTypeOK, RevisionsBounded(db), NEW request \in Request,
         CanRegister(request)
  PROVE  RevisionsBounded(Registered(request))
<1> DEFINE after == Registered(request)
           k == request.id
           new == [app |-> Workloads[k].app,
                   endpoint |-> Workloads[k].endpoint,
                   revision |-> db.revision + 1,
                   deleted |-> request.deleted]
<1>1. /\ k \in Ids
      /\ after.revision = db.revision + 1
      /\ after.records[k] = new
      /\ \A i \in Ids : i # k => after.records[i] = db.records[i]
  BY RegisteredIsSnapshot DEF Request
<1>2. new.revision = db.revision + 1
  OBVIOUS
<1>3. \A i \in RecordIds(db) : db.records[i].revision \in Nat
  BY MaxU64Assumption DEF RecordIds, WorkerTypeOK, Snapshot, Record, U64
<1>4. db.revision \in Nat
  BY MaxU64Assumption DEF WorkerTypeOK, Snapshot, U64
<1> HIDE DEF new, k, after
<1>5. ASSUME NEW i \in RecordIds(after)
      PROVE  after.records[i].revision <= after.revision
  <2>1. CASE i = k
    BY <1>1, <1>2, <1>4, <2>1
  <2>2. CASE i # k
    BY <1>1, <1>3, <1>4, <2>2 DEF RecordIds, RevisionsBounded
  <2>3. QED
    BY <2>1, <2>2
<1>6. QED
  BY <1>5 DEF RevisionsBounded, after

\* A routing node keeps its state a state, and holds of the worker either what
\* it held or what the post carries.
LEMMA HandledPost ==
  ASSUME WorkerTypeOK, NEW post \in network, HandlePost(post)
  PROVE  /\ network' \subseteq network
         /\ routers' \in [Routers -> State]
         /\ \A r \in Routers :
               \/ routers'[r] = routers[r]
               \/ /\ r = post.router
                  /\ CanCommit(routers[r], Self, post.snapshot)
                  /\ post.token = Credential(routers[r], Self)
                  /\ routers'[r].owners =
                        Accepted(routers[r], Self, post.snapshot).owners
<1> DEFINE q == post.router
           s == routers[q]
           t == Accepted(s, Self, post.snapshot)
<1>1. post \in Post /\ q \in Routers /\ s \in State /\ post.snapshot \in Snapshot
  BY DEF WorkerTypeOK, Post
<1>2. network' \subseteq network
  BY DEF HandlePost
<1>3. CASE post.token = Credential(s, Self) /\ CanCommit(s, Self, post.snapshot)
  <2>1. CanAccept(s, Self, post.snapshot) /\ Self \in Owners
    BY <1>3, WorkerAssumption DEF CanCommit
  <2>2. t \in State
    BY <1>1, <2>1, AcceptedIsState
  <2>3. routers' = [routers EXCEPT ![q] = Uncounted(t)]
    BY <1>3 DEF HandlePost
  <2>4. Uncounted(t) \in State /\ Uncounted(t).owners = t.owners
    BY <2>2, MaxU64Assumption DEF Uncounted, State, U64
  <2>5. QED
    BY <1>1, <1>2, <1>3, <2>3, <2>4 DEF WorkerTypeOK
<1>4. CASE ~(post.token = Credential(s, Self) /\ CanCommit(s, Self, post.snapshot))
  BY <1>2, <1>4 DEF HandlePost, WorkerTypeOK
<1>5. QED
  BY <1>3, <1>4

\* What a routing node holds of the worker after it has committed a post.
LEMMA CommittedEntry ==
  ASSUME NEW s \in State, NEW next \in Snapshot, CanCommit(s, Self, next)
  PROVE  /\ Accepted(s, Self, next).owners[Self] # None
         /\ Accepted(s, Self, next).owners[Self].snapshot = next
  BY AcceptedIsState, NoneOwnerAssumption, WorkerAssumption
  DEF CanCommit, Accepted, State

-----------------------------------------------------------------------------
(***************************************************************************)
(* Types.                                                                  *)
(***************************************************************************)

\* The worker starts among its types.
LEMMA TypesAtFirst ==
  ASSUME WorkerInit
  PROVE  WorkerTypeOK
<1>1. 1 \in U64 /\ 1 \in Routers
  BY MaxU64Assumption DEF U64, Routers
<1>2. InitialSnapshot \in Snapshot
  BY <1>1 DEF InitialSnapshot, Snapshot
<1>3. LoopAt(1) \in Loop
  BY <1>1 DEF LoopAt, Loop
<1>4. InitialCredential[Self] \in Credentials
  BY WorkerAssumption, InitialCredentialAssumption
<1>5. QED
  BY <1>2, <1>3, <1>4, WorkerAssumption DEF WorkerInit, WorkerTypeOK

\* The next turn is a place of the loop.
LEMMA NextTurnIsPlace == NextTurn \in Loop
  BY DEF NextTurn, LoopAt, Loop, Routers

\* Every step of the worker, its loop and its failures leaves values where they
\* belong; a revision stays a u64 because register stops at the largest one.
LEMMA TypesKept ==
  ASSUME WorkerTypeOK, LoopSound, [WorkerNext]_workerVars
  PROVE  WorkerTypeOK'
<1> USE DEF WorkerTypeOK
<1>1. ASSUME NEW name \in Names, NEW request \in Request, Register(name, request)
      PROVE  WorkerTypeOK'
  <2>1. /\ Registered(request) \in Snapshot
        /\ db.revision + 1 \in U64
    BY <1>1, RegisteredIsSnapshot DEF Register
  <2>2. QED
    BY <1>1, <2>1 DEF Register
<1>2. CASE ReadSnapshot
  <2>1. RecordIds(db) \subseteq Ids
    BY DEF RecordIds
  <2>2. loop' \in Loop
    BY <1>2, <2>1, NextTurnIsPlace DEF ReadSnapshot, Loop
  <2>3. QED
    BY <1>2, <2>2 DEF ReadSnapshot
<1>3. ASSUME NEW i \in Ids, ReconcileRecord(i)
      PROVE  WorkerTypeOK'
  <2>1. loop' \in Loop
    BY <1>3 DEF ReconcileRecord, Loop
  <2>2. units' \subseteq Ids /\ verified' \subseteq Ids
    BY <1>3 DEF ReconcileRecord
  <2>3. QED
    BY <1>3, <2>1, <2>2 DEF ReconcileRecord
<1>4. ASSUME NEW i \in Ids, ReconcileFails(i)
      PROVE  WorkerTypeOK'
  <2>1. units' \subseteq Ids /\ verified' \subseteq Ids
    BY <1>4 DEF ReconcileFails
  <2>2. loop' \in Loop
    BY <1>4, NextTurnIsPlace DEF ReconcileFails, Loop
  <2>3. QED
    BY <1>4, <2>1, <2>2 DEF ReconcileFails
<1>5. CASE SendPost
  <2>1. loop.snapshot \in Snapshot /\ loop.router \in Routers
    BY <1>5 DEF SendPost, LoopIn, LoopSound, Loop
  <2>2. QED
    BY <1>5, <2>1 DEF SendPost, Post, Loop
<1>6. CASE EndPost
  BY <1>6, NextTurnIsPlace DEF EndPost
<1>7. ASSUME NEW post \in network, HandlePost(post) \/ LosePost(post)
      PROVE  WorkerTypeOK'
  <2>1. CASE HandlePost(post)
    <3>1. network' \subseteq network /\ routers' \in [Routers -> State]
      BY <2>1, HandledPost
    <3>2. QED
      BY <2>1, <3>1 DEF HandlePost
  <2>2. CASE LosePost(post)
    BY <2>2 DEF LosePost
  <2>3. QED
    BY <1>7, <2>1, <2>2
<1>8. ASSUME NEW i \in Ids, UnitDies(i)
      PROVE  WorkerTypeOK'
  BY <1>8 DEF UnitDies
<1>9. CASE DaemonStops
  <2>1. LoopAt(1) \in Loop
    BY DEF LoopAt, Loop, Routers
  <2>2. QED
    BY <1>9, <2>1 DEF DaemonStops
<1>10. CASE DaemonStarts
  BY <1>10 DEF DaemonStarts
<1>11. CASE UNCHANGED workerVars
  BY <1>11 DEF workerVars
<1>12. ASSUME NEW name \in Names, NEW request \in Request,
              RegisterAgain(name, request)
       PROVE  WorkerTypeOK'
  BY <1>11, <1>12 DEF RegisterAgain
<1>13. QED
  BY <1>1, <1>2, <1>3, <1>4, <1>5, <1>6, <1>7, <1>8, <1>9, <1>10, <1>11, <1>12
  DEF WorkerNext, Administer, Reconcile, PublishTurn

-----------------------------------------------------------------------------
(***************************************************************************)
(* The database and the loop, with the restore guard or without.           *)
(***************************************************************************)

\* Only register writes the database, and it keeps it sound.
LEMMA DatabaseKept ==
  ASSUME WorkerTypeOK, DatabaseSound, [WorkerNext]_workerVars
  PROVE  DatabaseSound'
<1>1. ASSUME NEW name \in Names, NEW request \in Request, Register(name, request)
      PROVE  DatabaseSound'
  <2>1. CanRegister(request) /\ db' = Registered(request)
    BY <1>1 DEF Register
  <2> DEFINE k == request.id
             new == [app |-> Workloads[k].app,
                     endpoint |-> Workloads[k].endpoint,
                     revision |-> db.revision + 1,
                     deleted |-> request.deleted]
  <2>2. /\ k \in Ids
        /\ db'.revision = db.revision + 1
        /\ db'.records[k] = new
        /\ \A i \in Ids : i # k => db'.records[i] = db.records[i]
    BY <2>1, RegisteredIsSnapshot DEF Request
  <2>3. /\ new.app = Workloads[k].app
        /\ new.endpoint = Workloads[k].endpoint
    OBVIOUS
  <2>4. \A i \in RecordIds(db') : i \in Ids /\ (i # k => i \in RecordIds(db))
    BY <2>2 DEF RecordIds
  <2> HIDE DEF new, k
  <2>5. ASSUME NEW i \in RecordIds(db')
        PROVE  /\ db'.records[i].app = Workloads[i].app
               /\ db'.records[i].endpoint = Workloads[i].endpoint
    <3>1. CASE i = k
      BY <2>2, <2>3, <3>1
    <3>2. CASE i # k
      BY <2>2, <2>4, <3>2 DEF DatabaseSound
    <3>3. QED
      BY <3>1, <3>2
  <2>6. \A i \in RecordIds(db) \ {k} :
            db.records[i].endpoint # Workloads[k].endpoint
    BY <2>1 DEF CanRegister, k
  <2>7. ASSUME NEW i \in RecordIds(db'), NEW j \in RecordIds(db') \ {i}
        PROVE  db'.records[j].endpoint # db'.records[i].endpoint
    <3>1. CASE i = k
      BY <2>2, <2>3, <2>4, <2>6, <3>1
    <3>2. CASE j = k
      BY <2>2, <2>3, <2>4, <2>6, <3>2
    <3>3. CASE i # k /\ j # k
      BY <2>2, <2>4, <3>3 DEF DatabaseSound
    <3>4. QED
      BY <3>1, <3>2, <3>3
  <2>8. RevisionsBounded(db')
    BY <2>1, RegisteredBounded DEF DatabaseSound
  <2>9. QED
    BY <2>5, <2>7, <2>8 DEF DatabaseSound, RevisionsBounded
<1>2. CASE UNCHANGED db
  BY <1>2 DEF DatabaseSound, RevisionsBounded, RecordIds
<1>3. QED
  BY <1>1, <1>2
  DEF WorkerNext, Administer, Reconcile, PublishTurn, RegisterAgain, workerVars,
      ReadSnapshot, ReconcileRecord, ReconcileFails, SendPost, EndPost, HandlePost,
      LosePost, UnitDies, DaemonStops, DaemonStarts

\* The next turn starts with nothing read.
LEMMA NextTurnReads == NextTurn.phase = "read" /\ LoopAt(1).phase = "read"
  BY DEF NextTurn, LoopAt

\* Only a reconciled instance leaves the list of what is to be done, and only
\* the loop itself marks instances verified while it works on the list.
LEMMA LoopKept ==
  ASSUME WorkerTypeOK, LoopSound, [WorkerNext]_workerVars
  PROVE  LoopSound'
<1>1. CASE ReadSnapshot
  <2>1. loop \in Loop /\ db \in Snapshot
    BY DEF WorkerTypeOK
  <2>2. CASE guard # None
    BY <1>1, <2>2, NextTurnReads DEF ReadSnapshot, LoopSound
  <2>3. CASE guard = None
    <3>1. /\ loop'.phase = "reconcile"
          /\ loop'.snapshot = db
          /\ loop'.todo = RecordIds(db)
      BY <1>1, <2>1, <2>3 DEF ReadSnapshot, Loop
    <3>2. QED
      BY <2>1, <3>1 DEF LoopSound
  <2>4. QED
    BY <2>2, <2>3
<1>2. ASSUME NEW i \in Ids, ReconcileRecord(i)
      PROVE  LoopSound'
  <2>1. /\ loop'.phase = "reconcile" /\ loop.phase = "reconcile"
        /\ loop'.snapshot = loop.snapshot
        /\ loop'.todo = loop.todo \ {i}
    BY <1>2 DEF ReconcileRecord, LoopIn, WorkerTypeOK, Loop
  <2>2. \A j \in Ids : j # i => (j \in verified' <=> j \in verified)
    BY <1>2 DEF ReconcileRecord
  <2>3. i \in verified' <=> ~loop.snapshot.records[i].deleted
    BY <1>2 DEF ReconcileRecord
  <2>4. RecordIds(loop.snapshot) \subseteq Ids
    BY DEF RecordIds
  <2>5. QED
    BY <2>1, <2>2, <2>3, <2>4 DEF LoopSound
<1>3. ASSUME NEW i \in Ids, ReconcileFails(i)
      PROVE  LoopSound'
  <2>1. CASE loop' = NextTurn
    BY <2>1, NextTurnReads DEF LoopSound
  <2>2. CASE loop' # NextTurn
    <3>1. /\ loop.snapshot.records[i].deleted
          /\ verified' = verified \ {i}
          /\ loop' = [loop EXCEPT !.todo = @ \ {i}]
      BY <1>3, <2>2 DEF ReconcileFails
    <3>2. /\ loop'.phase = "reconcile" /\ loop.phase = "reconcile"
          /\ loop'.snapshot = loop.snapshot
          /\ loop'.todo = loop.todo \ {i}
      BY <1>3, <3>1 DEF ReconcileFails, LoopIn, WorkerTypeOK, Loop
    <3>3. RecordIds(loop.snapshot) \subseteq Ids
      BY DEF RecordIds
    <3>4. QED
      BY <1>3, <3>1, <3>2, <3>3 DEF ReconcileFails, LoopSound
  <2>3. QED
    BY <2>1, <2>2
<1>4. CASE SendPost
  <2>1. /\ loop'.phase = "await" /\ loop.phase = "reconcile"
        /\ loop'.snapshot = loop.snapshot
        /\ loop'.todo = loop.todo /\ loop.todo = {}
        /\ verified' = verified
    BY <1>4 DEF SendPost, LoopIn, WorkerTypeOK, Loop
  <2>2. QED
    BY <2>1 DEF LoopSound
<1>5. CASE EndPost
  BY <1>5, NextTurnReads DEF EndPost, LoopSound
<1>6. CASE DaemonStops
  BY <1>6, NextTurnReads DEF DaemonStops, LoopSound
<1>7. CASE UNCHANGED <<loop, verified>>
  BY <1>7 DEF LoopSound
<1>8. QED
  BY <1>1, <1>2, <1>3, <1>4, <1>5, <1>6, <1>7
  DEF WorkerNext, Administer, Reconcile, PublishTurn, Register, RegisterAgain,
      workerVars, HandlePost, LosePost, UnitDies, DaemonStarts

-----------------------------------------------------------------------------
(***************************************************************************)
(* No snapshot gets ahead of the database.                                 *)
(***************************************************************************)

\* register moves the database on from every snapshot that has left it.
LEMMA FollowedByRegistered ==
  ASSUME WorkerTypeOK, RevisionsBounded(db), LoopSound, SnapshotsFollowed,
         NEW name \in Names, NEW request \in Request, Register(name, request)
  PROVE  SnapshotsFollowed'
<1>1. /\ db \in Snapshot /\ db' \in Snapshot
      /\ Follows(db, db')
      /\ db'.incarnation = db.incarnation
      /\ UNCHANGED <<loop, network, routers>>
  BY RegisteredIsSnapshot, RegisteredFollows DEF Register, WorkerTypeOK
<1>2. loop.phase # "read" => Follows(loop.snapshot, db')
  BY <1>1, FollowsTransitive DEF SnapshotsFollowed, LoopSound
<1>3. \A post \in network :
          post.snapshot.incarnation = db'.incarnation => Follows(post.snapshot, db')
  <2>1. \A post \in network : post.snapshot \in Snapshot
    BY DEF WorkerTypeOK, Post
  <2>2. QED
    BY <1>1, <2>1, FollowsTransitive DEF SnapshotsFollowed
<1>4. ASSUME NEW r \in Routers, routers[r].owners[Self] # None
      PROVE  Follows(routers[r].owners[Self].snapshot, db')
  <2>1. routers[r].owners[Self].snapshot \in Snapshot
    BY <1>4, WorkerAssumption DEF WorkerTypeOK, State, Owner
  <2>2. QED
    BY <1>1, <1>4, <2>1, FollowsTransitive DEF SnapshotsFollowed
<1>5. QED
  BY <1>1, <1>2, <1>3, <1>4 DEF SnapshotsFollowed

\* A routing node that commits a post is where the post was.
LEMMA FollowedByHandled ==
  ASSUME WorkerTypeOK, SnapshotsFollowed, NEW post \in network, HandlePost(post)
  PROVE  SnapshotsFollowed'
<1>1. post.snapshot \in Snapshot /\ network' \subseteq network
      /\ UNCHANGED <<db, loop>>
  BY DEF HandlePost, WorkerTypeOK, Post
<1>2. ASSUME NEW r \in Routers
      PROVE  IF routers'[r].owners[Self] = None
             THEN db.incarnation = 1
             ELSE Follows(routers'[r].owners[Self].snapshot, db)
  <2>1. CASE routers'[r] = routers[r]
    BY <2>1 DEF SnapshotsFollowed
  <2>2. CASE routers'[r] # routers[r]
    <3>1. /\ CanCommit(routers[r], Self, post.snapshot)
          /\ routers'[r].owners = Accepted(routers[r], Self, post.snapshot).owners
      BY <2>2, HandledPost
    <3>2. routers[r] \in State
      BY DEF WorkerTypeOK
    <3>3. /\ routers'[r].owners[Self] # None
          /\ routers'[r].owners[Self].snapshot = post.snapshot
      BY <1>1, <3>1, <3>2, CommittedEntry
    <3>4. post.snapshot.incarnation = db.incarnation
      BY <3>1 DEF CanCommit, CanAccept, Continues, SnapshotsFollowed, Follows
    <3>5. QED
      BY <3>3, <3>4 DEF SnapshotsFollowed
  <2>3. QED
    BY <2>1, <2>2
<1>3. QED
  BY <1>1, <1>2 DEF SnapshotsFollowed

\* The other steps copy snapshots: from the database into the loop, and from
\* the loop into a post.
LEMMA FollowedByRest ==
  ASSUME WorkerTypeOK, LoopSound, SnapshotsFollowed,
         \/ Reconcile
         \/ \E i \in Ids : ReconcileFails(i)
         \/ PublishTurn
         \/ \E post \in network : LosePost(post)
         \/ \E i \in Ids : UnitDies(i)
         \/ DaemonStops
         \/ DaemonStarts
         \/ UNCHANGED workerVars
  PROVE  SnapshotsFollowed'
<1>1. CASE ReadSnapshot
  <2>1. loop \in Loop /\ db \in Snapshot
    BY DEF WorkerTypeOK
  <2>2. loop'.phase # "read" => loop'.snapshot = db
    BY <1>1, <2>1, NextTurnReads DEF ReadSnapshot, Loop
  <2>3. Follows(db, db)
    BY <2>1, FollowsReflexive
  <2>4. QED
    BY <1>1, <2>2, <2>3 DEF ReadSnapshot, SnapshotsFollowed
<1>2. ASSUME NEW i \in Ids, ReconcileRecord(i)
      PROVE  SnapshotsFollowed'
  <2>1. loop.phase = "reconcile" /\ loop'.snapshot = loop.snapshot
    BY <1>2 DEF ReconcileRecord, LoopIn, WorkerTypeOK, Loop
  <2>2. QED
    BY <1>2, <2>1 DEF ReconcileRecord, SnapshotsFollowed
<1>3. ASSUME NEW i \in Ids, ReconcileFails(i)
      PROVE  SnapshotsFollowed'
  <2>1. \/ loop'.phase = "read"
        \/ loop.phase = "reconcile" /\ loop'.snapshot = loop.snapshot
    BY <1>3, NextTurnReads DEF ReconcileFails, LoopIn, WorkerTypeOK, Loop
  <2>2. QED
    BY <1>3, <2>1 DEF ReconcileFails, SnapshotsFollowed
<1>4. CASE SendPost
  <2>1. /\ loop.phase = "reconcile"
        /\ loop'.snapshot = loop.snapshot
        /\ \A post \in network' :
              post \in network \/ post.snapshot = loop.snapshot
        /\ UNCHANGED <<db, routers>>
    BY <1>4 DEF SendPost, LoopIn, WorkerTypeOK, Loop
  <2>2. QED
    BY <2>1 DEF SnapshotsFollowed
<1>5. CASE EndPost
  BY <1>5, NextTurnReads DEF EndPost, SnapshotsFollowed
<1>6. CASE DaemonStops
  BY <1>6, NextTurnReads DEF DaemonStops, SnapshotsFollowed
<1>7. CASE network' \subseteq network /\ UNCHANGED <<db, loop, routers>>
  BY <1>7 DEF SnapshotsFollowed
<1>8. QED
  BY <1>1, <1>2, <1>3, <1>4, <1>5, <1>6, <1>7
  DEF Reconcile, PublishTurn, LosePost, UnitDies, DaemonStarts, workerVars

\* Every step leaves the database at least as far as every snapshot.
LEMMA FollowedKept ==
  ASSUME WorkerTypeOK, RevisionsBounded(db), LoopSound, SnapshotsFollowed,
         [WorkerNext]_workerVars
  PROVE  SnapshotsFollowed'
  BY FollowedByRegistered, FollowedByHandled, FollowedByRest
  DEF WorkerNext, Administer, RegisterAgain

-----------------------------------------------------------------------------
(***************************************************************************)
(* What was answered as durable.                                           *)
(***************************************************************************)

\* An operation is recorded together with its intent, and later operations on
\* the instance write higher revisions and never take a deletion back.
LEMMA AnsweredKept ==
  ASSUME WorkerTypeOK, guard = None, DatabaseSound, AnsweredIsDurable,
         [WorkerNext]_workerVars
  PROVE  AnsweredIsDurable'
<1>1. ASSUME NEW name \in Names, NEW request \in Request, Register(name, request)
      PROVE  AnsweredIsDurable'
  <2>1. /\ CanRegister(request) /\ db' = Registered(request)
        /\ db \in Snapshot /\ db' \in Snapshot
        /\ operations' = [operations EXCEPT ![name] =
                            [request |-> request, revision |-> db.revision + 1]]
    BY <1>1, RegisteredIsSnapshot DEF Register, WorkerTypeOK
  <2>2. Follows(db, db')
    BY <2>1, RegisteredFollows DEF DatabaseSound
  <2> DEFINE new == [app |-> Workloads[request.id].app,
                     endpoint |-> Workloads[request.id].endpoint,
                     revision |-> db.revision + 1,
                     deleted |-> request.deleted]
  <2>3. db'.records[request.id] = new /\ request.id \in Ids
    BY <2>1, RegisteredIsSnapshot DEF Request
  <2>4. new # None
    BY <2>1, <2>3, RegisteredIsSnapshot, NoneAssumption, WorkerAssumption
    DEF Record, Request
  <2>5. ASSUME NEW n \in Names, operations'[n] # None
        PROVE  LET asked == operations'[n].request
                   record == db'.records[asked.id] IN
               /\ record # None
               /\ record.revision >= operations'[n].revision
               /\ asked.deleted => record.deleted
    <3>1. CASE n = name
      <4>1. /\ operations'[n].request = request
            /\ operations'[n].revision = db.revision + 1
        BY <2>1, <3>1 DEF WorkerTypeOK
      <4>2. db.revision + 1 \in Nat
        BY <2>1, MaxU64Assumption DEF Snapshot, U64
      <4>3. QED
        BY <2>3, <2>4, <4>1, <4>2
    <3>2. CASE n # name
      <4> DEFINE asked == operations[n].request
                 old == db.records[asked.id]
      <4>1. operations'[n] = operations[n] /\ operations[n] # None
        BY <2>1, <2>5, <3>2 DEF WorkerTypeOK
      <4>2. /\ asked.id \in Ids
            /\ asked.deleted \in BOOLEAN
            /\ operations[n].revision \in U64
        BY <4>1 DEF WorkerTypeOK, Request
      <4>3. /\ old # None
            /\ old.revision >= operations[n].revision
            /\ asked.deleted => old.deleted
        BY <4>1 DEF AnsweredIsDurable
      <4>4. RecordExtends(old, db'.records[asked.id])
        BY <2>2, <4>2, <4>3 DEF Follows, RecordIds
      <4>5. old \in Record /\ db'.records[asked.id] \in Record
        BY <2>1, <4>2, <4>3, <4>4 DEF Snapshot, RecordExtends
      <4>6. db'.records[asked.id].revision >= operations[n].revision
        BY <4>2, <4>3, <4>4, <4>5, MaxU64Assumption DEF RecordExtends, Record, U64
      <4>7. asked.deleted => db'.records[asked.id].deleted
        BY <4>3, <4>4, Zenon DEF RecordExtends
      <4>8. QED
        BY <4>1, <4>4, <4>6, <4>7 DEF RecordExtends
    <3>3. QED
      BY <3>1, <3>2
  <2>6. QED
    BY <2>5 DEF AnsweredIsDurable
<1>2. CASE UNCHANGED <<guard, db, operations>>
  BY <1>2 DEF AnsweredIsDurable
<1>3. QED
  BY <1>1, <1>2
  DEF WorkerNext, Administer, Reconcile, PublishTurn, RegisterAgain, workerVars,
      ReadSnapshot, ReconcileRecord, ReconcileFails, SendPost, EndPost, HandlePost,
      LosePost, UnitDies, DaemonStops, DaemonStarts

-----------------------------------------------------------------------------
(***************************************************************************)
(* The theorems.                                                           *)
(***************************************************************************)

\* The worker starts with an empty database, an idle loop and routers that do
\* not know it.
LEMMA InvAtFirst ==
  ASSUME WorkerInit
  PROVE  Inv
<1>1. WorkerTypeOK
  BY TypesAtFirst
<1>2. RecordIds(db) = {} /\ loop.phase = "read" /\ network = {}
  BY DEF WorkerInit, InitialSnapshot, RecordIds, LoopAt
<1>3. db.incarnation = 1 /\ \A r \in Routers : routers[r].owners[Self] = None
  BY WorkerAssumption DEF WorkerInit, InitialSnapshot
<1>4. AnsweredIsDurable /\ guard = None
  BY DEF WorkerInit, AnsweredIsDurable
<1>5. QED
  BY <1>1, <1>2, <1>3, <1>4
  DEF Inv, DatabaseSound, RevisionsBounded, LoopSound, SnapshotsFollowed

\* Every step of the worker keeps the invariant.
LEMMA NextKeepsInv ==
  ASSUME Inv, [WorkerNext]_workerVars
  PROVE  Inv'
<1>1. WorkerTypeOK' /\ DatabaseSound' /\ LoopSound'
  BY TypesKept, DatabaseKept, LoopKept DEF Inv
<1>2. SnapshotsFollowed'
  BY FollowedKept DEF Inv, DatabaseSound
<1>3. AnsweredIsDurable'
  BY AnsweredKept DEF Inv
<1>4. guard' = None
  BY DEF Inv, WorkerNext, Administer, Reconcile, PublishTurn, Register,
      RegisterAgain, workerVars, ReadSnapshot, ReconcileRecord, ReconcileFails,
      SendPost, EndPost, HandlePost, LosePost, UnitDies, DaemonStops, DaemonStarts
<1>5. QED
  BY <1>1, <1>2, <1>3, <1>4 DEF Inv

\* The invariant holds in every state the worker reaches.
THEOREM InvHolds == WorkerSpec => []Inv
<1>1. WorkerInit => Inv
  BY InvAtFirst
<1>2. Inv /\ [WorkerNext]_workerVars => Inv'
  BY NextKeepsInv
<1>3. QED
  BY <1>1, <1>2, PTL DEF WorkerSpec

\* Values stay where they belong; in particular register never writes a
\* revision that is no u64.
THEOREM WorkerTypeCorrect == WorkerSpec => []WorkerTypeOK
<1>1. Inv => WorkerTypeOK
  BY DEF Inv
<1>2. QED
  BY <1>1, InvHolds, PTL

\* No routing node ever gets ahead of the worker's database, whatever posts
\* are lost, delayed or overtaken and wherever the daemon stops.
THEOREM WorkerStaysAhead == WorkerSpec => []WorkerAhead
<1>1. Inv => WorkerAhead
  BY DEF Inv, SnapshotsFollowed, Follows, WorkerAhead
<1>2. QED
  BY <1>1, InvHolds, PTL

\* A snapshot is posted only with all of its live instances verified.
THEOREM OnlyVerifiedPosted == WorkerSpec => []PostsVerifiedOnly
<1>1. Inv => PostsVerifiedOnly
  BY DEF Inv, LoopSound, PostsVerifiedOnly
<1>2. QED
  BY <1>1, InvHolds, PTL

\* What register answered as durable is in the database.
THEOREM AnsweredStands == WorkerSpec => []AnsweredIsDurable
<1>1. Inv => AnsweredIsDurable
  BY DEF Inv
<1>2. QED
  BY <1>1, InvHolds, PTL

\* However full routing_operations is, a live instance can be deleted.
THEOREM ReserveHolds == WorkerSpec => []DeletionReserve
<1>1. ASSUME Inv, db.revision < MaxI64, NEW i \in RecordIds(db),
             ~db.records[i].deleted
      PROVE  CanRegister([id |-> i, deleted |-> TRUE])
  <2> DEFINE request == [id |-> i, deleted |-> TRUE]
  <2>1. request.id = i /\ request.deleted = TRUE /\ db.records[i] # None
    BY <1>1 DEF RecordIds
  <2>2. /\ db.records[i].app = Workloads[i].app
        /\ db.records[i].endpoint = Workloads[i].endpoint
        /\ \A j \in RecordIds(db) \ {i} :
              db.records[j].endpoint # db.records[i].endpoint
    BY <1>1 DEF Inv, DatabaseSound
  <2> HIDE DEF request
  <2>3. QED
    BY <1>1, <2>1, <2>2 DEF CanRegister, request
<1>2. Inv => DeletionReserve
  BY <1>1 DEF DeletionReserve
<1>3. QED
  BY <1>2, InvHolds, PTL

-----------------------------------------------------------------------------
(***************************************************************************)
(* The recovery: the inductive invariant.                                  *)
(***************************************************************************)

\* What a routing node holds of the worker.
Entry(r) == routers[r].owners[Self]

\* The incarnation a routing node takes posts of.
IncarnationAt(r) ==
    IF Entry(r) = None THEN 1 ELSE Entry(r).snapshot.incarnation

\* The journal of the operation has a result.
Journalled(op) == journal[op] # None /\ journal[op].snapshot # None

\* The operation's freeze is in force: the routing node takes no posts.
Fenced(r, op) ==
    /\ Entry(r) # None
    /\ Entry(r).frozen_by = op
    /\ ~RecoveredBy(Entry(r), op)

\* The routing node has the operation's result, and every post that is still
\* under way belongs to an earlier incarnation.
Installed(r, op) ==
    /\ Entry(r) # None
    /\ RecoveredBy(Entry(r), op)
    /\ Entry(r).snapshot = journal[op].snapshot
    /\ \A post \in network :
          post.snapshot.incarnation < Entry(r).snapshot.incarnation

\* What routing nodes hold is bounded, a later incarnation was installed with
\* a new credential, and a result that is installed was journalled.
EntriesSound ==
    \A r \in Routers :
        Entry(r) # None =>
            /\ RevisionsBounded(Entry(r).snapshot)
            /\ Entry(r).snapshot.incarnation > 1 =>
                  /\ Entry(r).credential_hash # None
                  /\ Entry(r).credential_hash # InitialCredential[Self]
            /\ \A op \in Operations : RecoveredBy(Entry(r), op) => Journalled(op)

\* No post is ahead of any routing node.
PostsSound ==
    \A post \in network, r \in Routers :
        post.snapshot.incarnation <= IncarnationAt(r)

\* While the guard stands the loop does nothing, and once there is a result
\* every routing node is fenced or has it.
GuardSound ==
    guard # None =>
        /\ loop.phase = "read"
        /\ Journalled(guard) =>
              \A r \in Routers : Fenced(r, guard) \/ Installed(r, guard)

\* How far the command is says what it has done.
CommandSound ==
    command # None =>
        LET op == command.operation IN
        /\ ~running
        /\ guard = op
        /\ journal[op] # None
        /\ command.step = "freeze" /\ command.router = 2 => Fenced(1, op)
        /\ command.step \in {"collect", "prepare"} =>
              command.merged \in Snapshot /\ \A r \in Routers : Fenced(r, op)
        /\ command.step \in {"freeze", "collect", "prepare"} <=> ~Journalled(op)
        /\ command.step = "recover" /\ command.router = 2 => Installed(1, op)
        /\ command.step \in {"update", "configure", "complete", "unguard"} =>
              \A r \in Routers : Installed(r, op)
        /\ command.step \in {"configure", "complete", "unguard"} =>
              db = journal[op].snapshot

\* Without the guard the worker is ahead of the routing nodes.
PeaceSound == guard = None => command = None /\ SnapshotsFollowed

DatabasesBounded ==
    /\ RevisionsBounded(db)
    /\ backup # None => RevisionsBounded(backup.db)

IdleSound == ~running => loop.phase = "read"

RecoveryInv ==
    /\ RecoveryTypeOK
    /\ LoopSound
    /\ IdleSound
    /\ DatabasesBounded
    /\ EntriesSound
    /\ PostsSound
    /\ GuardSound
    /\ CommandSound
    /\ PeaceSound

-----------------------------------------------------------------------------
(***************************************************************************)
(* Lemmas about the operators.                                             *)
(***************************************************************************)

\* The larger of two revisions is a revision.
LEMMA MaxOfBounds ==
  ASSUME NEW m \in U64, NEW n \in U64
  PROVE  /\ MaxOf(m, n) \in U64
         /\ MaxOf(m, n) >= m
         /\ MaxOf(m, n) >= n
  BY MaxU64Assumption DEF MaxOf, U64

\* merge takes one of the two records, or marks it deleted.
LEMMA MergeRecordIsRecord ==
  ASSUME NEW a \in Record \cup {None}, NEW b \in Record \cup {None}
  PROVE  MergeRecord(a, b) \in Record \cup {None}
<1>1. CASE a = None \/ b = None
  BY <1>1 DEF MergeRecord
<1>2. CASE a # None /\ b # None
  <2> DEFINE newer == IF b.revision > a.revision THEN b ELSE a
             flag == a.deleted \/ b.deleted
  <2>1. newer \in Record /\ flag \in BOOLEAN
    BY <1>2 DEF Record
  <2>2. MergeRecord(a, b) = [newer EXCEPT !.deleted = flag]
    BY <1>2 DEF MergeRecord
  <2> HIDE DEF newer, flag
  <2>3. QED
    BY <2>1, <2>2 DEF Record
<1>3. QED
  BY <1>1, <1>2

\* The merge of two histories is a history.
LEMMA MergeIsSnapshot ==
  ASSUME NEW a \in Snapshot, NEW b \in Snapshot
  PROVE  Merge(a, b) \in Snapshot
<1>1. /\ MaxOf(a.incarnation, b.incarnation) \in U64
      /\ MaxOf(a.revision, b.revision) \in U64
  BY MaxOfBounds DEF Snapshot
<1>2. \A i \in Ids : MergeRecord(a.records[i], b.records[i]) \in Record \cup {None}
  BY MergeRecordIsRecord DEF Snapshot
<1>3. QED
  BY <1>1, <1>2 DEF Merge, Snapshot

\* A deletion that is kept changes a record into a record.
LEMMA KeepDeletionIsRecord ==
  ASSUME NEW a \in Record \cup {None}, NEW b \in Record \cup {None}
  PROVE  KeepDeletion(a, b) \in Record \cup {None}
<1>1. CASE a # None /\ b # None
  <2>1. MaxOf(a.revision, b.revision) \in U64
    BY <1>1, MaxOfBounds DEF Record
  <2>2. [a EXCEPT !.deleted = TRUE, !.revision = MaxOf(a.revision, b.revision)]
           \in Record
    BY <1>1, <2>1 DEF Record
  <2>3. QED
    BY <2>2 DEF KeepDeletion
<1>2. CASE a = None \/ b = None
  BY <1>2 DEF KeepDeletion
<1>3. QED
  BY <1>1, <1>2

\* What the command journals is a history: the numbers still fit.
LEMMA PreparedIsSnapshot ==
  ASSUME RecoveryTypeOK, NEW merged \in Snapshot,
         merged.incarnation < MaxI64, merged.revision < MaxI64
  PROVE  Prepared(merged) \in Snapshot
<1>1. merged.incarnation + 1 \in U64 /\ merged.revision + 1 \in U64
  BY WorkerAssumption, MaxU64Assumption DEF Snapshot, U64
<1>2. \A i \in Ids :
          KeepDeletion(merged.records[i], db.records[i]) \in Record \cup {None}
  BY KeepDeletionIsRecord DEF RecoveryTypeOK, WorkerTypeOK, Snapshot
<1>3. QED
  BY <1>1, <1>2 DEF Prepared, Snapshot

\* What a routing node holds of a worker it knows.
LEMMA EntryIsOwner ==
  ASSUME WorkerTypeOK, NEW r \in Routers, Entry(r) # None
  PROVE  /\ Entry(r) \in Owner
         /\ Entry(r).snapshot \in Snapshot
         /\ Entry(r).snapshot.incarnation \in U64
  BY WorkerAssumption DEF Entry, WorkerTypeOK, State, Owner, Snapshot

\* freeze fences the owner and changes nothing that was accepted from it.
LEMMA FrozenEntry ==
  ASSUME NEW s \in State, NEW op \in Operations, CanFreeze(s, Self, op)
  PROVE  LET old == s.owners[Self]
             new == Uncounted(Frozen(s, Self, op)).owners[Self] IN
         /\ Uncounted(Frozen(s, Self, op)) \in State
         /\ old # None
         /\ new # None
         /\ new.snapshot = old.snapshot
         /\ new.credential_hash = old.credential_hash
         /\ new.recovery = old.recovery
         /\ RecoveredBy(old, op) \/ new.frozen_by = op
<1> DEFINE t == Frozen(s, Self, op)
           old == s.owners[Self]
           new == t.owners[Self]
<1>1. t \in State
  BY FrozenKeeps, WorkerAssumption
<1>2. Uncounted(t) \in State /\ Uncounted(t).owners = t.owners
  BY <1>1, MaxU64Assumption DEF Uncounted, State, U64
<1>3. old # None /\ old \in Owner
  BY WorkerAssumption DEF CanFreeze, State
<1>4. CASE FreezeIsRepeat(old, op)
  BY <1>2, <1>3, <1>4 DEF Frozen, FreezeIsRepeat
<1>5. CASE ~FreezeIsRepeat(old, op)
  <2>1. new = [old EXCEPT !.frozen_by = op, !.stale = TRUE]
    BY <1>5, WorkerAssumption DEF Frozen, State
  <2>2. /\ new.frozen_by = op
        /\ new.snapshot = old.snapshot
        /\ new.credential_hash = old.credential_hash
        /\ new.recovery = old.recovery
        /\ new \in Owner
    BY <1>3, <2>1 DEF Owner
  <2>3. new # None
    BY <2>2, NoneOwnerAssumption
  <2>4. QED
    BY <1>2, <1>3, <2>2, <2>3
<1>6. QED
  BY <1>4, <1>5

\* recover installs the result with its credential, or has done so before.
LEMMA RecoveredEntry ==
  ASSUME NEW s \in State, NEW op \in Operations, NEW next \in Snapshot,
         NEW hash \in Credentials, CanRecover(s, Self, op, next, hash)
  PROVE  LET old == s.owners[Self]
             t == Uncounted(Recovered(s, Self, op, next, hash))
             new == t.owners[Self] IN
         /\ t \in State
         /\ old # None
         /\ new # None
         /\ RecoveredBy(old, op) => new = old
         /\ ~RecoveredBy(old, op) =>
               /\ next.incarnation > old.snapshot.incarnation
               /\ RevisionsBounded(next)
               /\ new.snapshot = next
               /\ new.credential_hash = hash
               /\ \A o \in Operations : RecoveredBy(new, o) <=> o = op
<1> DEFINE old == s.owners[Self]
           t == Recovered(s, Self, op, next, hash)
           new == t.owners[Self]
<1>1. t \in State /\ old # None /\ old \in Owner
  BY RecoveredKeeps, WorkerAssumption DEF CanRecover, State
<1>2. Uncounted(t) \in State /\ Uncounted(t).owners = t.owners
  BY <1>1, MaxU64Assumption DEF Uncounted, State, U64
<1>3. CASE RecoveredBy(old, op)
  BY <1>1, <1>2, <1>3 DEF Recovered
<1>4. CASE ~RecoveredBy(old, op)
  <2> DEFINE base == Rebased(s, Self, next.incarnation)
             accepted == Accepted(base, Self, next)
             result == [operation |-> op, digest |-> Digest(op, next, hash)]
  <2>1. /\ next.incarnation > old.snapshot.incarnation
        /\ CanAccept(base, Self, next)
        /\ next.incarnation \in U64
        /\ Self \in Owners
    BY <1>4, WorkerAssumption DEF CanRecover, Snapshot
  <2>2. base \in State
    BY <1>1, <2>1, RebasedKeeps
  <2>3. /\ accepted \in State
        /\ accepted.owners[Self] \in Owner
        /\ accepted.owners[Self].snapshot = next
    BY <2>1, <2>2, AcceptedIsState DEF Accepted, State
  <2>4. RevisionsBounded(next)
    BY <2>1 DEF CanAccept, RecordsValid, RevisionsBounded
  <2>5. t.owners = [accepted.owners EXCEPT ![Self] =
                      [accepted.owners[Self] EXCEPT !.stale = TRUE,
                                                    !.credential_hash = hash,
                                                    !.recovery = result]]
    BY <1>4 DEF Recovered
  <2> HIDE DEF accepted, base, t
  <2>6. new = [accepted.owners[Self] EXCEPT !.stale = TRUE,
                                            !.credential_hash = hash,
                                            !.recovery = result]
    BY <2>1, <2>3, <2>5 DEF State
  <2>7. result \in Recovery
    BY DEF Recovery, Digest
  <2>8. result.operation = op /\ result # None
    BY <2>7, NoneOwnerAssumption
  <2> HIDE DEF result
  <2>9. /\ new \in Owner
        /\ new.snapshot = next
        /\ new.credential_hash = hash
        /\ new.recovery = result
    BY <2>3, <2>6, <2>7 DEF Owner
  <2>10. new # None /\ \A o \in Operations : RecoveredBy(new, o) <=> o = op
    BY <2>8, <2>9, NoneOwnerAssumption DEF RecoveredBy
  <2>11. QED
    BY <1>1, <1>2, <1>4, <2>1, <2>4, <2>9, <2>10 DEF t
<1>5. QED
  BY <1>3, <1>4

-----------------------------------------------------------------------------
(***************************************************************************)
(* The steps of the worker, of its routing nodes and of the network.       *)
(***************************************************************************)

\* A routing node that commits a post was not fenced and takes over nothing but
\* a snapshot of the incarnation it was in.
LEMMA HandledEntry ==
  ASSUME WorkerTypeOK, NEW post \in network, HandlePost(post), NEW r \in Routers
  PROVE  \/ Entry(r)' = Entry(r)
         \/ /\ Entry(r) # None => Entry(r).frozen_by = None
            /\ post.snapshot.incarnation = IncarnationAt(r)
            /\ Entry(r)' # None
            /\ Entry(r)'.snapshot = post.snapshot
            /\ Entry(r)'.credential_hash =
                  IF Entry(r) = None THEN None ELSE Entry(r).credential_hash
            /\ Entry(r)'.recovery =
                  IF Entry(r) = None THEN None ELSE Entry(r).recovery
            /\ RevisionsBounded(post.snapshot)
<1>1. CASE routers'[r] = routers[r]
  BY <1>1 DEF Entry
<1>2. CASE routers'[r] # routers[r]
  <2> DEFINE s == routers[r]
             t == Accepted(s, Self, post.snapshot)
  <2>1. /\ CanCommit(s, Self, post.snapshot)
        /\ routers'[r].owners = t.owners
    BY <1>2, HandledPost
  <2>2. s \in State /\ post.snapshot \in Snapshot /\ Self \in Owners
    BY WorkerAssumption DEF WorkerTypeOK, Post
  <2>3. t.owners[Self] # None /\ t.owners[Self].snapshot = post.snapshot
    BY <2>1, <2>2, CommittedEntry
  <2>4. /\ t.owners[Self].credential_hash =
              IF s.owners[Self] = None THEN None ELSE s.owners[Self].credential_hash
        /\ t.owners[Self].recovery =
              IF s.owners[Self] = None THEN None ELSE s.owners[Self].recovery
    BY <2>2 DEF Accepted, State
  <2>5. /\ s.owners[Self] # None => s.owners[Self].frozen_by = None
        /\ post.snapshot.incarnation = IncarnationAt(r)
    BY <2>1 DEF CanCommit, CanAccept, Continues, IncarnationAt, Entry
  <2>6. RevisionsBounded(post.snapshot)
    BY <2>1 DEF CanCommit, CanAccept, RecordsValid, RevisionsBounded
  <2> HIDE DEF t
  <2>7. QED
    BY <2>1, <2>3, <2>4, <2>5, <2>6 DEF Entry
<1>3. QED
  BY <1>1, <1>2

\* A late post changes nothing at a routing node that is fenced or has the
\* result, and leaves what every routing node has recovered as it is.
LEMMA FenceStands ==
  ASSUME RecoveryInv, NEW post \in network, HandlePost(post), NEW r \in Routers,
         UNCHANGED journal
  PROVE  /\ IncarnationAt(r)' = IncarnationAt(r)
         /\ \A op \in Operations : Fenced(r, op) => Fenced(r, op)'
         /\ \A op \in Operations : Installed(r, op) => Installed(r, op)'
<1>1. WorkerTypeOK /\ network' \subseteq network
  BY HandledPost DEF RecoveryInv, RecoveryTypeOK
<1>2. IncarnationAt(r)' = IncarnationAt(r)
  BY <1>1, HandledEntry DEF IncarnationAt
<1>3. ASSUME NEW op \in Operations, Fenced(r, op)
      PROVE  Fenced(r, op)'
  <2>1. Entry(r).frozen_by # None
    BY <1>3, NoneAssumption DEF Fenced
  <2>2. Entry(r)' = Entry(r)
    BY <1>1, <1>3, <2>1, HandledEntry DEF Fenced
  <2>3. QED
    BY <1>3, <2>2 DEF Fenced
<1>4. ASSUME NEW op \in Operations, Installed(r, op)
      PROVE  Installed(r, op)'
  <2>1. post.snapshot.incarnation < IncarnationAt(r)
    BY <1>4 DEF Installed, IncarnationAt
  <2>2. post.snapshot.incarnation \in Nat
    BY <1>1, MaxU64Assumption DEF WorkerTypeOK, Post, Snapshot, U64
  <2>3. IncarnationAt(r) \in Nat
    BY <1>1, EntryIsOwner, MaxU64Assumption DEF IncarnationAt, U64
  <2>4. Entry(r)' = Entry(r)
    BY <1>1, <2>1, <2>2, <2>3, HandledEntry
  <2>5. QED
    BY <1>1, <1>4, <2>4 DEF Installed
<1>5. QED
  BY <1>2, <1>3, <1>4

\* What the worker and the network do under the guard keeps the fences and the
\* results; no post is sent.
LEMMA RoutersStand ==
  ASSUME RecoveryInv, WorkerNext, UNCHANGED recoveryVars, NEW r \in Routers
  PROVE  /\ IncarnationAt(r)' = IncarnationAt(r)
         /\ \A op \in Operations : Fenced(r, op) => Fenced(r, op)'
         /\ guard # None =>
               \A op \in Operations : Installed(r, op) => Installed(r, op)'
<1>1. CASE \E post \in network : HandlePost(post)
  BY <1>1, FenceStands DEF recoveryVars
<1>2. CASE SendPost
  <2>1. guard = None
    BY <1>2 DEF SendPost, LoopIn, RecoveryInv, GuardSound
  <2>2. UNCHANGED routers
    BY <1>2 DEF SendPost
  <2>3. QED
    BY <2>1, <2>2 DEF IncarnationAt, Entry, Fenced
<1>3. CASE network' \subseteq network /\ UNCHANGED <<routers, journal>>
  BY <1>3 DEF IncarnationAt, Entry, Fenced, Installed
<1>4. QED
  BY <1>1, <1>2, <1>3
  DEF WorkerNext, Administer, Reconcile, PublishTurn, Register, RegisterAgain,
      workerVars, recoveryVars, ReadSnapshot, ReconcileRecord, ReconcileFails,
      EndPost, LosePost, UnitDies, DaemonStops, DaemonStarts

\* Under the worker's steps no routing node is ahead of its post's incarnation
\* or loses the credential that came with a later one.
LEMMA WorkerKeepsEntries ==
  ASSUME RecoveryInv, WorkerNext, UNCHANGED recoveryVars
  PROVE  EntriesSound' /\ PostsSound'
<1>0. WorkerTypeOK
  BY DEF RecoveryInv, RecoveryTypeOK
<1>1. EntriesSound'
  <2>1. CASE \E post \in network : HandlePost(post)
    <3>1. PICK post \in network : HandlePost(post)
      BY <2>1
    <3>2. ASSUME NEW r \in Routers, Entry(r)' # None
          PROVE  /\ RevisionsBounded(Entry(r)'.snapshot)
                 /\ Entry(r)'.snapshot.incarnation > 1 =>
                       /\ Entry(r)'.credential_hash # None
                       /\ Entry(r)'.credential_hash # InitialCredential[Self]
                 /\ \A op \in Operations :
                       RecoveredBy(Entry(r)', op) => Journalled(op)
      <4>1. CASE Entry(r)' = Entry(r)
        BY <3>2, <4>1 DEF RecoveryInv, EntriesSound
      <4>2. CASE Entry(r)' # Entry(r)
        BY <1>0, <3>1, <4>2, HandledEntry
        DEF RecoveryInv, EntriesSound, IncarnationAt, RecoveredBy
      <4>3. QED
        BY <4>1, <4>2
    <3>3. QED
      BY <3>2 DEF EntriesSound, Journalled, recoveryVars, RevisionsBounded
  <2>2. CASE UNCHANGED routers
    BY <2>2 DEF RecoveryInv, EntriesSound, Entry, Journalled, recoveryVars
  <2>3. QED
    BY <2>1, <2>2
    DEF WorkerNext, Administer, Reconcile, PublishTurn, Register, RegisterAgain,
        workerVars, ReadSnapshot, ReconcileRecord, ReconcileFails, SendPost,
        EndPost, LosePost, UnitDies, DaemonStops, DaemonStarts
<1>2. PostsSound'
  <2>1. ASSUME NEW post \in network', NEW r \in Routers
        PROVE  post.snapshot.incarnation <= IncarnationAt(r)
    <3>1. CASE post \in network
      BY <3>1 DEF RecoveryInv, PostsSound
    <3>2. CASE post \notin network
      <4>1. SendPost
        BY <2>1, <3>2
        DEF WorkerNext, Administer, Reconcile, PublishTurn, Register,
            RegisterAgain, workerVars, ReadSnapshot, ReconcileRecord,
            ReconcileFails, EndPost, HandlePost, LosePost, UnitDies,
            DaemonStops, DaemonStarts
      <4>2. post.snapshot = loop.snapshot /\ loop.phase # "read"
        BY <2>1, <3>2, <4>1 DEF SendPost, LoopIn
      <4>3. SnapshotsFollowed
        BY <4>2 DEF RecoveryInv, GuardSound, PeaceSound
      <4>4. post.snapshot.incarnation = IncarnationAt(r)
        BY <4>2, <4>3 DEF SnapshotsFollowed, Follows, IncarnationAt, Entry
      <4>5. IncarnationAt(r) \in Nat
        BY <1>0, EntryIsOwner, MaxU64Assumption DEF IncarnationAt, U64
      <4>6. QED
        BY <4>4, <4>5
    <3>3. QED
      BY <3>1, <3>2
  <2>2. QED
    BY <2>1, RoutersStand DEF PostsSound
<1>3. QED
  BY <1>1, <1>2

\* A step of the daemon, of a unit, of a routing node or of the network keeps
\* the invariant, before, during and after a recovery.
LEMMA WorkerKeepsInv ==
  ASSUME RecoveryInv, WorkerStep
  PROVE  RecoveryInv'
<1>0. /\ WorkerTypeOK /\ LoopSound /\ RevisionsBounded(db)
      /\ WorkerNext /\ UNCHANGED recoveryVars
      /\ command # None => ~running'
  BY DEF RecoveryInv, RecoveryTypeOK, DatabasesBounded, WorkerStep
<1>1. RecoveryTypeOK'
  <2>1. WorkerTypeOK'
    BY <1>0, TypesKept
  <2>2. QED
    BY <1>0, <2>1 DEF RecoveryInv, RecoveryTypeOK, recoveryVars
<1>2. LoopSound'
  BY <1>0, LoopKept
<1>3. guard' = guard
  BY <1>0
  DEF WorkerNext, Administer, Reconcile, PublishTurn, Register, RegisterAgain,
      workerVars, ReadSnapshot, ReconcileRecord, ReconcileFails, SendPost,
      EndPost, HandlePost, LosePost, UnitDies, DaemonStops, DaemonStarts
<1>4. guard # None => db' = db
  BY <1>0
  DEF WorkerNext, Administer, Reconcile, PublishTurn, Register, RegisterAgain,
      workerVars, ReadSnapshot, ReconcileRecord, ReconcileFails, SendPost,
      EndPost, HandlePost, LosePost, UnitDies, DaemonStops, DaemonStarts
<1>5. /\ ~running' => loop'.phase = "read"
      /\ guard # None => loop'.phase = "read"
  BY <1>0, NextTurnReads
  DEF RecoveryInv, IdleSound, GuardSound, LoopIn,
      WorkerNext, Administer, Reconcile, PublishTurn, Register, RegisterAgain,
      workerVars, ReadSnapshot, ReconcileRecord, ReconcileFails, SendPost,
      EndPost, HandlePost, LosePost, UnitDies, DaemonStops, DaemonStarts
<1>6. DatabasesBounded'
  <2>1. CASE \E name \in Names, request \in Request : Register(name, request)
    BY <1>0, <2>1, RegisteredBounded
    DEF Register, RecoveryInv, DatabasesBounded, recoveryVars, RevisionsBounded,
        RecordIds
  <2>2. CASE UNCHANGED db
    BY <1>0, <2>2
    DEF RecoveryInv, DatabasesBounded, recoveryVars, RevisionsBounded, RecordIds
  <2>3. QED
    BY <1>0, <2>1, <2>2
    DEF WorkerNext, Administer, Reconcile, PublishTurn, RegisterAgain,
        workerVars, ReadSnapshot, ReconcileRecord, ReconcileFails, SendPost,
        EndPost, HandlePost, LosePost, UnitDies, DaemonStops, DaemonStarts
<1>7. EntriesSound' /\ PostsSound'
  BY <1>0, WorkerKeepsEntries
<1>8. \A op \in Operations : Journalled(op)' <=> Journalled(op)
  BY <1>0 DEF Journalled, recoveryVars
<1>9. GuardSound'
  <2>1. guard \in Operations \cup {None}
    BY <1>0 DEF WorkerTypeOK
  <2>2. QED
    BY <1>0, <1>3, <1>5, <1>8, <2>1, RoutersStand DEF RecoveryInv, GuardSound
<1>10. CommandSound'
  <2> SUFFICES ASSUME command # None
               PROVE  CommandSound'
    BY <1>0 DEF CommandSound, recoveryVars
  <2>1. command \in Command /\ command.operation \in Operations
    BY DEF RecoveryInv, RecoveryTypeOK, Command
  <2>2. guard = command.operation /\ guard # None
    BY <2>1, NoneAssumption DEF RecoveryInv, CommandSound
  <2>3. /\ command' = command /\ journal' = journal
        /\ guard' = guard /\ db' = db /\ ~running'
    BY <1>0, <1>3, <1>4, <2>2 DEF recoveryVars
  <2>4. \A r \in Routers, op \in Operations :
            /\ Fenced(r, op) => Fenced(r, op)'
            /\ Installed(r, op) => Installed(r, op)'
    BY <1>0, <2>2, RoutersStand
  <2>5. 1 \in Routers
    BY DEF Routers
  <2>6. QED
    BY <1>8, <2>1, <2>2, <2>3, <2>4, <2>5 DEF RecoveryInv, CommandSound
<1>11. PeaceSound'
  BY <1>0, <1>3, FollowedKept DEF RecoveryInv, PeaceSound, recoveryVars
<1>12. QED
  BY <1>1, <1>2, <1>5, <1>6, <1>7, <1>9, <1>10, <1>11 DEF RecoveryInv, IdleSound

-----------------------------------------------------------------------------
(***************************************************************************)
(* The steps of the operator, and the death of the command.                *)
(***************************************************************************)

\* The parts of the invariant that are only about what the worker, the routing
\* nodes and the network hold.
LEMMA WorkerPartStands ==
  ASSUME RecoveryInv, UNCHANGED <<running, loop, verified, network, routers>>
  PROVE  /\ LoopSound' /\ IdleSound' /\ PostsSound'
         /\ (\A op \in Operations : Journalled(op) => Journalled(op)')
               => EntriesSound'
  BY DEF RecoveryInv, LoopSound, IdleSound, PostsSound, EntriesSound, Entry,
         IncarnationAt

\* What is fenced stays fenced, and what has the result keeps it, as long as the
\* routing nodes, the network and the result stay.
LEMMA InstalledStands ==
  ASSUME NEW r \in Routers, NEW op \in Operations,
         UNCHANGED <<network, routers>>, journal'[op].snapshot = journal[op].snapshot
  PROVE  /\ Fenced(r, op)' <=> Fenced(r, op)
         /\ Installed(r, op)' <=> Installed(r, op)
  BY DEF Fenced, Installed, Entry

\* A backup is a bounded database.
LEMMA TakeBackupKeepsInv ==
  ASSUME RecoveryInv, TakeBackup
  PROVE  RecoveryInv'
<1>1. /\ UNCHANGED <<workerVars, journal, command>>
      /\ backup' = [db |-> db, operations |-> operations]
      /\ guard = None
  BY DEF TakeBackup
<1>2. RecoveryTypeOK'
  BY <1>1 DEF RecoveryInv, RecoveryTypeOK, WorkerTypeOK, workerVars
<1>3. DatabasesBounded'
  BY <1>1
  DEF RecoveryInv, DatabasesBounded, workerVars, RevisionsBounded, RecordIds
<1>4. LoopSound' /\ IdleSound' /\ PostsSound' /\ EntriesSound'
  BY <1>1, WorkerPartStands DEF workerVars, Journalled
<1>5. GuardSound' /\ CommandSound' /\ PeaceSound'
  BY <1>1
  DEF RecoveryInv, GuardSound, CommandSound, PeaceSound, workerVars,
      SnapshotsFollowed
<1>6. QED
  BY <1>2, <1>3, <1>4, <1>5 DEF RecoveryInv

\* The old database comes back under the guard; no routing node has a result of
\* an operation that never had a journal.
LEMMA RestoreKeepsInv ==
  ASSUME RecoveryInv, NEW op \in Operations, Restore(op)
  PROVE  RecoveryInv'
<1>1. /\ UNCHANGED <<running, token, units, verified, loop, network, routers,
                     recoveryVars>>
      /\ ~running /\ command = None /\ backup # None /\ journal[op] = None
      /\ guard' = op /\ db' = backup.db /\ operations' = backup.operations
  BY DEF Restore
<1>2. RecoveryTypeOK'
  BY <1>1 DEF RecoveryInv, RecoveryTypeOK, WorkerTypeOK, recoveryVars
<1>3. DatabasesBounded'
  BY <1>1
  DEF RecoveryInv, DatabasesBounded, recoveryVars, RevisionsBounded, RecordIds
<1>4. LoopSound' /\ IdleSound' /\ PostsSound' /\ EntriesSound'
  BY <1>1, WorkerPartStands DEF recoveryVars, Journalled
<1>5. guard' # None /\ loop'.phase = "read" /\ ~Journalled(op)'
  BY <1>1, NoneAssumption DEF RecoveryInv, IdleSound, Journalled, recoveryVars
<1>6. GuardSound' /\ CommandSound' /\ PeaceSound'
  BY <1>1, <1>5 DEF GuardSound, CommandSound, PeaceSound, recoveryVars
<1>7. QED
  BY <1>2, <1>3, <1>4, <1>6 DEF RecoveryInv

\* The command begins at the freeze, or behind the merge when there is a result.
LEMMA RunCommandKeepsInv ==
  ASSUME RecoveryInv, ~RerunComplete, NEW op \in Operations, RunCommand(op)
  PROVE  RecoveryInv'
<1> DEFINE step == IF journal'[op].snapshot = None THEN "freeze" ELSE "recover"
<1>1. /\ UNCHANGED <<running, token, db, operations, units, verified, loop,
                     network, routers, backup>>
      /\ ~running /\ guard = op /\ guard' = op
      /\ command' = [operation |-> op, step |-> step, router |-> 1, merged |-> None]
  BY DEF RunCommand
<1>2. /\ journal' \in [Operations -> Journal \cup {None}]
      /\ \A o \in Operations : Journalled(o)' <=> Journalled(o)
      /\ journal'[op] # None
      /\ Journalled(op) => journal' = journal
  <2>1. journal \in [Operations -> Journal \cup {None}]
    BY DEF RecoveryInv, RecoveryTypeOK
  <2> DEFINE empty == [snapshot |-> None, complete |-> FALSE]
  <2>2. empty \in Journal /\ empty # None /\ empty.snapshot = None
    <3>1. empty \in Journal /\ empty.snapshot = None
      BY DEF Journal
    <3>2. QED
      BY <3>1, NoneJournalAssumption
  <2> HIDE DEF empty
  <2>3. CASE journal[op] = None
    <3>1. journal' = [journal EXCEPT ![op] = empty]
      BY <2>3 DEF RunCommand, empty
    <3>2. QED
      BY <2>1, <2>2, <2>3, <3>1 DEF Journalled
  <2>4. CASE journal[op] # None
    BY <2>1, <2>4 DEF RunCommand, Journalled
  <2>5. QED
    BY <2>3, <2>4
<1>3. step \in Step /\ 1 \in Routers
  BY DEF Step, Routers
<1>4. RecoveryTypeOK'
  BY <1>1, <1>2, <1>3 DEF RecoveryInv, RecoveryTypeOK, WorkerTypeOK, Command
<1>5. DatabasesBounded'
  BY <1>1 DEF RecoveryInv, DatabasesBounded, RevisionsBounded, RecordIds
<1>6. LoopSound' /\ IdleSound' /\ PostsSound' /\ EntriesSound'
  BY <1>1, <1>2, WorkerPartStands
<1>7. guard # None
  BY <1>1, NoneAssumption
<1>8. GuardSound'
  <2>1. loop'.phase = "read"
    BY <1>1, <1>7 DEF RecoveryInv, GuardSound
  <2>2. ASSUME Journalled(op)', NEW r \in Routers
        PROVE  (Fenced(r, op) \/ Installed(r, op))'
    BY <1>1, <1>2, <1>7, <2>2, InstalledStands DEF RecoveryInv, GuardSound
  <2>3. QED
    BY <1>1, <2>1, <2>2 DEF GuardSound
<1>9. CommandSound'
  <2>1. /\ command'.operation = op
        /\ command'.step = step
        /\ command'.router = 1
    BY <1>1
  <2>2. command'.step = "freeze" <=> ~Journalled(op)'
    BY <1>2, <2>1 DEF Journalled
  <2>3. command'.step \in {"freeze", "recover"}
    BY <2>1
  <2>4. QED
    BY <1>1, <1>2, <2>1, <2>2, <2>3 DEF CommandSound
<1>10. PeaceSound'
  BY <1>1, <1>7 DEF PeaceSound
<1>11. QED
  BY <1>4, <1>5, <1>6, <1>8, <1>9, <1>10 DEF RecoveryInv

\* A command that dies leaves all that is durable.
LEMMA CommandDiesKeepsInv ==
  ASSUME RecoveryInv, CommandDies
  PROVE  RecoveryInv'
<1>1. UNCHANGED <<workerVars, backup, journal>> /\ command' = None
  BY DEF CommandDies
<1>2. RecoveryTypeOK' /\ DatabasesBounded'
  BY <1>1
  DEF RecoveryInv, RecoveryTypeOK, WorkerTypeOK, workerVars, DatabasesBounded,
      RevisionsBounded, RecordIds
<1>3. LoopSound' /\ IdleSound' /\ PostsSound' /\ EntriesSound'
  BY <1>1, WorkerPartStands DEF workerVars, Journalled
<1>4. GuardSound' /\ CommandSound' /\ PeaceSound'
  BY <1>1
  DEF RecoveryInv, GuardSound, CommandSound, PeaceSound, workerVars,
      SnapshotsFollowed, Journalled, Fenced, Installed, Entry
<1>5. QED
  BY <1>2, <1>3, <1>4 DEF RecoveryInv

-----------------------------------------------------------------------------
(***************************************************************************)
(* The steps of the command.                                               *)
(***************************************************************************)

\* Where the command is while it works: the guard is its operation, the daemon
\* is down, and its next place is again one.
LEMMA CommandAtWork ==
  ASSUME RecoveryInv, command # None
  PROVE  /\ command \in Command
         /\ command.operation \in Operations
         /\ command.router \in Routers
         /\ guard = command.operation
         /\ guard # None
         /\ ~running
         /\ loop.phase = "read"
         /\ journal[command.operation] \in Journal
         /\ journal[command.operation] # None
         /\ WorkerTypeOK
  BY NoneAssumption
  DEF RecoveryInv, RecoveryTypeOK, Command, CommandSound, GuardSound

\* Where Goto leads.
LEMMA GotoLeads ==
  ASSUME command \in Command, NEW step \in Step, NEW router \in Routers,
         NEW merged \in Snapshot \cup {None}, Goto(step, router, merged)
  PROVE  /\ command' \in Command
         /\ command'.operation = command.operation
         /\ command'.step = step
         /\ command'.router = router
         /\ command'.merged = merged
  BY DEF Goto, Command

\* freeze at one routing node: it is fenced, the other one stays as it was.
LEMMA FreezeAt ==
  ASSUME RecoveryInv, NEW r \in Routers, NEW op \in Operations,
         ~Journalled(op), CanFreeze(routers[r], Self, op),
         SetRouter(r, Frozen(routers[r], Self, op)),
         UNCHANGED <<running, guard, db, operations, verified, loop, network,
                     backup, journal>>
  PROVE  /\ routers' \in [Routers -> State]
         /\ Fenced(r, op)'
         /\ \A q \in Routers : Fenced(q, op) => Fenced(q, op)'
         /\ EntriesSound' /\ PostsSound'
<1> DEFINE t == Uncounted(Frozen(routers[r], Self, op))
<1>1. WorkerTypeOK
  BY DEF RecoveryInv, RecoveryTypeOK
<1>2. routers[r] \in State /\ routers \in [Routers -> State]
  BY <1>1 DEF WorkerTypeOK
<1>3. routers' = [routers EXCEPT ![r] = t]
  BY DEF SetRouter
<1>4. /\ t \in State
      /\ Entry(r) # None
      /\ t.owners[Self] # None
      /\ t.owners[Self].snapshot = Entry(r).snapshot
      /\ t.owners[Self].credential_hash = Entry(r).credential_hash
      /\ t.owners[Self].recovery = Entry(r).recovery
      /\ RecoveredBy(Entry(r), op) \/ t.owners[Self].frozen_by = op
  BY <1>1, <1>2, FrozenEntry DEF Entry
<1>5. ~RecoveredBy(Entry(r), op)
  BY <1>1, <1>4 DEF RecoveryInv, EntriesSound
<1> HIDE DEF t
<1>6. /\ Entry(r)' = t.owners[Self]
      /\ \A q \in Routers : q # r => Entry(q)' = Entry(q)
  BY <1>2, <1>3 DEF Entry
<1>7. Fenced(r, op)'
  BY <1>4, <1>5, <1>6 DEF Fenced, RecoveredBy
<1>8. \A q \in Routers : Fenced(q, op) => Fenced(q, op)'
  BY <1>6, <1>7 DEF Fenced
<1>9. EntriesSound'
  BY <1>4, <1>6 DEF RecoveryInv, EntriesSound, Journalled, RecoveredBy
<1>10. PostsSound'
  <2>1. \A q \in Routers : IncarnationAt(q)' = IncarnationAt(q)
    BY <1>4, <1>6 DEF IncarnationAt
  <2>2. QED
    BY <2>1 DEF RecoveryInv, PostsSound
<1>11. QED
  BY <1>2, <1>3, <1>4, <1>7, <1>8, <1>9, <1>10

\* The parts that a step of the command leaves to the lemmas about it: all but
\* the types, the routing nodes and where the command is.
LEMMA CommandLeaves ==
  ASSUME RecoveryInv, command # None,
         UNCHANGED <<running, guard, verified, loop, network, backup>>
  PROVE  /\ LoopSound' /\ IdleSound' /\ PeaceSound'
         /\ RevisionsBounded(db') => DatabasesBounded'
         /\ loop'.phase = "read"
<1>1. guard' # None /\ loop'.phase = "read"
  BY CommandAtWork
<1>2. LoopSound' /\ IdleSound'
  BY DEF RecoveryInv, LoopSound, IdleSound
<1>3. PeaceSound'
  BY <1>1 DEF PeaceSound
<1>4. RevisionsBounded(db') => DatabasesBounded'
  BY DEF RecoveryInv, DatabasesBounded, RevisionsBounded, RecordIds
<1>5. QED
  BY <1>1, <1>2, <1>3, <1>4

\* The first two freeze calls.
LEMMA FreezeRouterKeepsInv ==
  ASSUME RecoveryInv, FreezeRouter
  PROVE  RecoveryInv'
<1>0. PICK op \in Operations, r \in Routers :
          op = command.operation /\ r = command.router
  BY CommandAtWork DEF FreezeRouter, DoStep
<1> DEFINE empty == [db EXCEPT !.records = [i \in Ids |-> None]]
<1>1. /\ command # None /\ command.step = "freeze"
      /\ CanFreeze(routers[r], Self, op)
      /\ SetRouter(r, Frozen(routers[r], Self, op))
      /\ UNCHANGED <<running, guard, token, db, operations, units, verified,
                     loop, network, backup, journal>>
  BY <1>0 DEF FreezeRouter, DoStep
<1>2. /\ command \in Command
      /\ guard = op /\ guard # None /\ ~running /\ loop.phase = "read"
      /\ journal[op] # None
      /\ WorkerTypeOK
  BY <1>0, <1>1, CommandAtWork
<1>3. ~Journalled(op)
  BY <1>0, <1>1 DEF RecoveryInv, CommandSound
<1>4. /\ routers' \in [Routers -> State]
      /\ Fenced(r, op)'
      /\ \A q \in Routers : Fenced(q, op) => Fenced(q, op)'
      /\ EntriesSound' /\ PostsSound'
  BY <1>1, <1>2, <1>3, FreezeAt
<1>5. empty \in Snapshot
  BY <1>2 DEF WorkerTypeOK, Snapshot
<1>6. /\ command' \in Command
      /\ command'.operation = op
      /\ \/ /\ command'.step = "freeze" /\ command'.router = 2
            /\ r = 1
         \/ /\ command'.step = "collect" /\ command'.merged \in Snapshot
            /\ r = 2
  <2>1. CASE r = 1
    <3>1. Goto("freeze", 2, None)
      BY <1>0, <2>1 DEF FreezeRouter
    <3>2. QED
      BY <1>0, <1>2, <2>1, <3>1, GotoLeads DEF Step, Routers
  <2>2. CASE r = 2
    <3>1. Goto("collect", 1, empty)
      BY <1>0, <2>2 DEF FreezeRouter
    <3> HIDE DEF empty
    <3>2. QED
      BY <1>0, <1>2, <1>5, <2>2, <3>1, GotoLeads DEF Step, Routers
  <2>3. QED
    BY <2>1, <2>2 DEF Routers
<1>7. ~Journalled(op)'
  BY <1>1, <1>3 DEF Journalled
<1>8. RecoveryTypeOK'
  BY <1>1, <1>2, <1>4, <1>6 DEF RecoveryInv, RecoveryTypeOK, WorkerTypeOK
<1>9. CommandSound'
  <2>1. command'.step = "collect" => \A q \in Routers : Fenced(q, op)'
    <3>1. r = 2 => Fenced(1, op)
      BY <1>0, <1>1 DEF RecoveryInv, CommandSound
    <3>2. QED
      BY <1>4, <1>6, <3>1 DEF Routers
  <2>2. QED
    BY <1>1, <1>2, <1>4, <1>6, <1>7, <2>1 DEF CommandSound
<1>10. GuardSound'
  BY <1>1, <1>2, <1>7 DEF GuardSound
<1>11. LoopSound' /\ IdleSound' /\ PeaceSound' /\ DatabasesBounded'
  BY <1>1, CommandLeaves
  DEF RecoveryInv, DatabasesBounded
<1>12. QED
  BY <1>4, <1>8, <1>9, <1>10, <1>11 DEF RecoveryInv

\* The second freeze call at each routing node, and the merge.
LEMMA CollectRouterKeepsInv ==
  ASSUME RecoveryInv, CollectRouter
  PROVE  RecoveryInv'
<1>0. PICK op \in Operations, r \in Routers :
          op = command.operation /\ r = command.router
  BY CommandAtWork DEF CollectRouter, DoStep
<1> DEFINE accepted == Entry(r).snapshot
           next == IF r = 1 THEN "collect" ELSE "prepare"
           both == Merge(command.merged, accepted)
<1>1. /\ command # None /\ command.step = "collect"
      /\ CanFreeze(routers[r], Self, op)
      /\ SetRouter(r, Frozen(routers[r], Self, op))
      /\ Goto(next, 2, both)
      /\ UNCHANGED <<running, guard, token, db, operations, units, verified,
                     loop, network, backup, journal>>
  BY <1>0 DEF CollectRouter, DoStep, Entry
<1>2. /\ command \in Command
      /\ guard = op /\ guard # None /\ ~running /\ loop.phase = "read"
      /\ journal[op] # None
      /\ WorkerTypeOK
  BY <1>0, <1>1, CommandAtWork
<1>3. /\ ~Journalled(op) /\ command.merged \in Snapshot
      /\ \A q \in Routers : Fenced(q, op)
  BY <1>0, <1>1 DEF RecoveryInv, CommandSound
<1>4. /\ routers' \in [Routers -> State]
      /\ \A q \in Routers : Fenced(q, op)'
      /\ EntriesSound' /\ PostsSound'
  BY <1>1, <1>3, FreezeAt
<1>5. both \in Snapshot
  <2>1. accepted \in Snapshot
    BY <1>2, <1>3, EntryIsOwner DEF Fenced
  <2>2. QED
    BY <1>3, <2>1, MergeIsSnapshot
<1>6. /\ command' \in Command
      /\ command'.operation = op
      /\ command'.step \in {"collect", "prepare"}
      /\ command'.merged \in Snapshot
  <2>1. next \in Step /\ next \in {"collect", "prepare"} /\ 2 \in Routers
    BY DEF Step, Routers
  <2> HIDE DEF next, both
  <2>2. QED
    BY <1>0, <1>1, <1>2, <1>5, <2>1, GotoLeads
<1>7. ~Journalled(op)'
  BY <1>1, <1>3 DEF Journalled
<1>8. RecoveryTypeOK'
  BY <1>1, <1>2, <1>4, <1>6 DEF RecoveryInv, RecoveryTypeOK, WorkerTypeOK
<1>9. CommandSound'
  BY <1>1, <1>2, <1>4, <1>6, <1>7 DEF CommandSound
<1>10. GuardSound'
  BY <1>1, <1>2, <1>7 DEF GuardSound
<1>11. LoopSound' /\ IdleSound' /\ PeaceSound' /\ DatabasesBounded'
  BY <1>1, CommandLeaves DEF RecoveryInv, DatabasesBounded
<1>12. QED
  BY <1>4, <1>8, <1>9, <1>10, <1>11 DEF RecoveryInv

\* The result is journalled while both routing nodes are fenced.
LEMMA PrepareKeepsInv ==
  ASSUME RecoveryInv, Prepare
  PROVE  RecoveryInv'
<1>0. PICK op \in Operations : op = command.operation
  BY CommandAtWork DEF Prepare, DoStep
<1>1. /\ command # None /\ command.step = "prepare"
      /\ command.merged.incarnation < MaxI64
      /\ command.merged.revision < MaxI64
      /\ journal' = [journal EXCEPT ![op].snapshot = Prepared(command.merged)]
      /\ Goto("recover", 1, None)
      /\ UNCHANGED <<running, guard, token, db, operations, units, verified,
                     loop, network, routers, backup>>
  BY <1>0 DEF Prepare, DoStep, workerVars
<1>2. /\ command \in Command
      /\ guard = op /\ guard # None /\ ~running /\ loop.phase = "read"
      /\ journal[op] \in Journal
      /\ WorkerTypeOK
  BY <1>0, <1>1, CommandAtWork
<1>3. /\ command.merged \in Snapshot
      /\ \A q \in Routers : Fenced(q, op)
  BY <1>0, <1>1 DEF RecoveryInv, CommandSound
<1>4. Prepared(command.merged) \in Snapshot
  BY <1>1, <1>3, PreparedIsSnapshot DEF RecoveryInv
<1>5. /\ journal' \in [Operations -> Journal \cup {None}]
      /\ Journalled(op)'
      /\ \A o \in Operations : Journalled(o) => Journalled(o)'
  <2>1. journal \in [Operations -> Journal \cup {None}]
    BY DEF RecoveryInv, RecoveryTypeOK
  <2> DEFINE new == [journal[op] EXCEPT !.snapshot = Prepared(command.merged)]
  <2>2. new \in Journal /\ new.snapshot = Prepared(command.merged)
    BY <1>2, <1>4 DEF Journal
  <2>3. new # None /\ new.snapshot # None
    BY <1>4, <2>2, NoneJournalAssumption
  <2>4. journal' = [journal EXCEPT ![op] = new]
    BY <1>1
  <2> HIDE DEF new
  <2>5. QED
    BY <2>1, <2>2, <2>3, <2>4 DEF Journalled
<1>6. /\ command' \in Command
      /\ command'.operation = op
      /\ command'.step = "recover" /\ command'.router = 1
  BY <1>0, <1>1, <1>2, GotoLeads DEF Step, Routers
<1>7. \A q \in Routers : Fenced(q, op)'
  BY <1>1, <1>3 DEF Fenced, Entry
<1>8. RecoveryTypeOK'
  BY <1>1, <1>2, <1>5, <1>6 DEF RecoveryInv, RecoveryTypeOK, WorkerTypeOK
<1>9. CommandSound'
  BY <1>1, <1>2, <1>5, <1>6 DEF CommandSound, Journalled
<1>10. GuardSound'
  BY <1>1, <1>2, <1>7 DEF GuardSound
<1>11. LoopSound' /\ IdleSound' /\ PostsSound' /\ EntriesSound'
  BY <1>1, <1>5, WorkerPartStands
<1>12. PeaceSound' /\ DatabasesBounded'
  BY <1>1, CommandLeaves DEF RecoveryInv, DatabasesBounded
<1>13. QED
  BY <1>8, <1>9, <1>10, <1>11, <1>12 DEF RecoveryInv

\* recover at one routing node: it has the result, and every post under way is
\* of an earlier incarnation, since none was ahead of any routing node.
LEMMA RecoverAt ==
  ASSUME RecoveryInv, NEW r \in Routers, NEW op \in Operations,
         guard = op, Journalled(op), journal[op].snapshot \in Snapshot,
         CanRecover(routers[r], Self, op, journal[op].snapshot, FreshCredential[op]),
         SetRouter(r, Recovered(routers[r], Self, op, journal[op].snapshot,
                                FreshCredential[op])),
         UNCHANGED <<network, journal>>
  PROVE  /\ routers' \in [Routers -> State]
         /\ Installed(r, op)'
         /\ \A q \in Routers :
               /\ Installed(q, op) => Installed(q, op)'
               /\ Fenced(q, op) => Fenced(q, op)' \/ Installed(q, op)'
         /\ EntriesSound' /\ PostsSound'
<1> DEFINE next == journal[op].snapshot
           hash == FreshCredential[op]
           old == routers[r].owners[Self]
           t == Uncounted(Recovered(routers[r], Self, op, next, hash))
           new == t.owners[Self]
<1>0. WorkerTypeOK /\ guard # None /\ hash \in Credentials
  BY NoneAssumption, RecoveryAssumption DEF RecoveryInv, RecoveryTypeOK
<1>1. /\ routers[r] \in State /\ routers \in [Routers -> State]
      /\ routers' = [routers EXCEPT ![r] = t]
  BY <1>0 DEF WorkerTypeOK, SetRouter
<1>2. /\ t \in State
      /\ old # None
      /\ new # None
      /\ RecoveredBy(old, op) => new = old
      /\ ~RecoveredBy(old, op) =>
            /\ next.incarnation > old.snapshot.incarnation
            /\ RevisionsBounded(next)
            /\ new.snapshot = next
            /\ new.credential_hash = hash
            /\ \A o \in Operations : RecoveredBy(new, o) <=> o = op
  BY <1>0, <1>1, RecoveredEntry
<1>3. /\ Entry(r) = old
      /\ Entry(r)' = new
      /\ \A q \in Routers : q # r => Entry(q)' = Entry(q)
  BY <1>1 DEF Entry
<1>4. old.snapshot.incarnation \in Nat /\ next.incarnation \in Nat
  BY <1>0, <1>2, <1>3, EntryIsOwner, MaxU64Assumption DEF Snapshot, U64
<1>5. \A post \in network : post.snapshot.incarnation \in Nat
  BY <1>0, MaxU64Assumption DEF WorkerTypeOK, Post, Snapshot, U64
<1> HIDE DEF next, hash, old, t, new
<1>6. Installed(r, op)'
  <2>1. CASE RecoveredBy(old, op)
    BY <1>0, <1>2, <1>3, <2>1 DEF RecoveryInv, GuardSound, Fenced, Installed
  <2>2. CASE ~RecoveredBy(old, op)
    <3>1. \A post \in network : post.snapshot.incarnation <= old.snapshot.incarnation
      BY <1>2, <1>3 DEF RecoveryInv, PostsSound, IncarnationAt
    <3>2. QED
      BY <1>2, <1>3, <1>4, <1>5, <2>2, <3>1 DEF Installed, next
  <2>3. QED
    BY <2>1, <2>2
<1>7. \A q \in Routers :
          /\ Installed(q, op) => Installed(q, op)'
          /\ Fenced(q, op) => Fenced(q, op)' \/ Installed(q, op)'
  BY <1>3, <1>6 DEF Installed, Fenced
<1>8. EntriesSound'
  <2>1. hash # None /\ hash # InitialCredential[Self]
    BY <1>0, NoneAssumption, FreshAssumption DEF hash
  <2>2. /\ RevisionsBounded(new.snapshot)
        /\ new.snapshot.incarnation > 1 =>
              /\ new.credential_hash # None
              /\ new.credential_hash # InitialCredential[Self]
        /\ \A o \in Operations : RecoveredBy(new, o) => Journalled(o)
    <3>1. CASE RecoveredBy(old, op)
      BY <1>2, <1>3, <3>1 DEF RecoveryInv, EntriesSound
    <3>2. CASE ~RecoveredBy(old, op)
      BY <1>2, <2>1, <3>2
    <3>3. QED
      BY <3>1, <3>2
  <2>3. \A o \in Operations : Journalled(o)' <=> Journalled(o)
    BY DEF Journalled
  <2>4. QED
    BY <1>3, <2>2, <2>3 DEF RecoveryInv, EntriesSound, RevisionsBounded
<1>9. PostsSound'
  <2>1. ASSUME NEW post \in network, NEW q \in Routers
        PROVE  post.snapshot.incarnation <= IncarnationAt(q)'
    <3>1. CASE q = r
      <4>1. post.snapshot.incarnation < new.snapshot.incarnation
        BY <1>3, <1>6 DEF Installed
      <4>2. /\ new.snapshot.incarnation = old.snapshot.incarnation
               \/ new.snapshot.incarnation = next.incarnation
        BY <1>2
      <4>3. QED
        BY <1>2, <1>3, <1>4, <1>5, <3>1, <4>1, <4>2 DEF IncarnationAt
    <3>2. CASE q # r
      BY <1>3, <3>2 DEF RecoveryInv, PostsSound, IncarnationAt
    <3>3. QED
      BY <3>1, <3>2
  <2>2. QED
    BY <2>1 DEF PostsSound
<1>10. QED
  BY <1>1, <1>2, <1>6, <1>7, <1>8, <1>9

\* The result is installed on one routing node and then on the other.
LEMMA RecoverRouterKeepsInv ==
  ASSUME RecoveryInv, RecoverRouter
  PROVE  RecoveryInv'
<1>0. PICK op \in Operations, r \in Routers :
          op = command.operation /\ r = command.router
  BY CommandAtWork DEF RecoverRouter, DoStep
<1> DEFINE next == IF r = 1 THEN "recover" ELSE "update"
<1>1. /\ command # None /\ command.step = "recover"
      /\ CanRecover(routers[r], Self, op, journal[op].snapshot, FreshCredential[op])
      /\ SetRouter(r, Recovered(routers[r], Self, op, journal[op].snapshot,
                                FreshCredential[op]))
      /\ Goto(next, 2, None)
      /\ UNCHANGED <<running, guard, token, db, operations, units, verified,
                     loop, network, backup, journal>>
  BY <1>0 DEF RecoverRouter, DoStep
<1>2. /\ command \in Command
      /\ guard = op /\ guard # None /\ ~running /\ loop.phase = "read"
      /\ journal[op] \in Journal /\ journal[op] # None
      /\ WorkerTypeOK
  BY <1>0, <1>1, CommandAtWork
<1>3. /\ Journalled(op)
      /\ r = 2 => Installed(1, op)
  BY <1>0, <1>1 DEF RecoveryInv, CommandSound
<1>4. journal[op].snapshot \in Snapshot
  BY <1>2, <1>3 DEF Journalled, Journal
<1>5. /\ routers' \in [Routers -> State]
      /\ Installed(r, op)'
      /\ \A q \in Routers :
            /\ Installed(q, op) => Installed(q, op)'
            /\ Fenced(q, op) => Fenced(q, op)' \/ Installed(q, op)'
      /\ EntriesSound' /\ PostsSound'
  BY <1>1, <1>2, <1>3, <1>4, RecoverAt
<1>6. /\ command' \in Command
      /\ command'.operation = op
      /\ command'.step = next /\ command'.router = 2
  <2>1. next \in Step /\ 2 \in Routers
    BY DEF Step, Routers
  <2> HIDE DEF next
  <2>2. QED
    BY <1>0, <1>1, <1>2, <2>1, GotoLeads
<1>7. Journalled(op)' /\ journal'[op] # None
  BY <1>1, <1>2, <1>3 DEF Journalled
<1>8. RecoveryTypeOK'
  BY <1>1, <1>2, <1>5, <1>6 DEF RecoveryInv, RecoveryTypeOK, WorkerTypeOK
<1>9. CommandSound'
  <2>1. CASE r = 1
    BY <1>1, <1>2, <1>5, <1>6, <1>7, <2>1 DEF CommandSound
  <2>2. CASE r = 2
    <3>1. \A q \in Routers : Installed(q, op)'
      BY <1>3, <1>5, <2>2 DEF Routers
    <3>2. QED
      BY <1>1, <1>2, <1>6, <1>7, <2>2, <3>1 DEF CommandSound
  <2>3. QED
    BY <2>1, <2>2 DEF Routers
<1>10. GuardSound'
  BY <1>1, <1>2, <1>3, <1>5 DEF RecoveryInv, GuardSound
<1>11. LoopSound' /\ IdleSound' /\ PeaceSound' /\ DatabasesBounded'
  BY <1>1, CommandLeaves DEF RecoveryInv, DatabasesBounded
<1>12. QED
  BY <1>5, <1>8, <1>9, <1>10, <1>11 DEF RecoveryInv

\* Behind the last routing node the command only writes the database, the
\* configuration and the end of the journal; every routing node has the result.
LEMMA RewriteKeepsInv ==
  ASSUME RecoveryInv, UpdateDatabase \/ WriteConfig \/ MarkComplete
  PROVE  RecoveryInv'
<1>0. PICK op \in Operations : op = command.operation
  BY CommandAtWork DEF UpdateDatabase, WriteConfig, MarkComplete, DoStep
<1>1. PICK next \in {"configure", "complete", "unguard"} : Goto(next, 2, None)
  BY DEF UpdateDatabase, WriteConfig, MarkComplete
<1>2. /\ command # None
      /\ command.step \in {"update", "configure", "complete"}
      /\ UNCHANGED <<running, guard, operations, units, verified, loop, network,
                     routers, backup>>
  BY DEF UpdateDatabase, WriteConfig, MarkComplete, DoStep, workerVars
<1>3. /\ command \in Command
      /\ guard = op /\ guard # None /\ ~running /\ loop.phase = "read"
      /\ journal[op] \in Journal /\ journal[op] # None
      /\ WorkerTypeOK
      /\ journal \in [Operations -> Journal \cup {None}]
  BY <1>0, <1>2, CommandAtWork DEF RecoveryInv, RecoveryTypeOK
<1>4. /\ Journalled(op)
      /\ \A r \in Routers : Installed(r, op)
      /\ command.step # "update" => db = journal[op].snapshot
  BY <1>0, <1>2 DEF RecoveryInv, CommandSound
<1>5. db' = journal[op].snapshot
  BY <1>0, <1>4 DEF UpdateDatabase, WriteConfig, MarkComplete, DoStep, workerVars
<1>6. /\ journal' \in [Operations -> Journal \cup {None}]
      /\ journal'[op].snapshot = journal[op].snapshot
      /\ journal'[op] # None
      /\ \A o \in Operations : Journalled(o)' <=> Journalled(o)
  <2>1. CASE MarkComplete
    <3> DEFINE new == [journal[op] EXCEPT !.complete = TRUE]
    <3>1. new \in Journal /\ new.snapshot = journal[op].snapshot
      BY <1>3 DEF Journal
    <3>2. new # None
      BY <3>1, NoneJournalAssumption
    <3>3. journal' = [journal EXCEPT ![op] = new]
      BY <1>0, <2>1 DEF MarkComplete
    <3> HIDE DEF new
    <3>4. QED
      BY <1>3, <3>1, <3>2, <3>3 DEF Journalled
  <2>2. CASE journal' = journal
    BY <1>3, <2>2 DEF Journalled
  <2>3. QED
    BY <2>1, <2>2 DEF UpdateDatabase, WriteConfig, MarkComplete
<1>7. /\ command' \in Command
      /\ command'.operation = op
      /\ command'.step = next
  BY <1>0, <1>1, <1>3, GotoLeads DEF Step, Routers
<1>8. Journalled(op)' /\ \A r \in Routers : Installed(r, op)'
  BY <1>2, <1>4, <1>6, InstalledStands
<1>9. /\ token' \in Credentials
      /\ db' \in Snapshot
      /\ RevisionsBounded(db')
  <2>1. token' \in Credentials
    BY <1>0, <1>3, RecoveryAssumption
    DEF UpdateDatabase, WriteConfig, MarkComplete, workerVars, WorkerTypeOK
  <2>2. db' \in Snapshot
    BY <1>3, <1>4, <1>5 DEF Journalled, Journal
  <2>3. RevisionsBounded(journal[op].snapshot)
    BY <1>4 DEF RecoveryInv, EntriesSound, Installed, Routers
  <2>4. QED
    BY <1>5, <2>1, <2>2, <2>3
<1>10. RecoveryTypeOK'
  BY <1>2, <1>3, <1>6, <1>7, <1>9 DEF RecoveryInv, RecoveryTypeOK, WorkerTypeOK
<1>11. CommandSound'
  BY <1>2, <1>3, <1>5, <1>6, <1>7, <1>8 DEF CommandSound
<1>12. GuardSound'
  BY <1>2, <1>3, <1>8 DEF GuardSound
<1>13. LoopSound' /\ IdleSound' /\ PostsSound' /\ EntriesSound'
  BY <1>2, <1>6, WorkerPartStands
<1>14. PeaceSound' /\ DatabasesBounded'
  BY <1>2, <1>9, CommandLeaves
<1>15. QED
  BY <1>10, <1>11, <1>12, <1>13, <1>14 DEF RecoveryInv

\* When the guard goes, the worker and both routing nodes hold the result, and
\* whatever is still under way is of an earlier incarnation.
LEMMA RemoveGuardKeepsInv ==
  ASSUME RecoveryInv, RemoveGuard
  PROVE  RecoveryInv'
<1>0. PICK op \in Operations : op = command.operation
  BY CommandAtWork DEF RemoveGuard, DoStep
<1>1. /\ command # None /\ command.step = "unguard"
      /\ guard' = None /\ command' = None
      /\ UNCHANGED <<running, token, db, operations, units, verified, loop,
                     network, routers, backup, journal>>
  BY DEF RemoveGuard, DoStep
<1>2. WorkerTypeOK /\ loop.phase = "read"
  BY <1>1, CommandAtWork
<1>3. db = journal[op].snapshot /\ \A r \in Routers : Installed(r, op)
  BY <1>0, <1>1 DEF RecoveryInv, CommandSound
<1>4. RecoveryTypeOK'
  BY <1>1 DEF RecoveryInv, RecoveryTypeOK, WorkerTypeOK
<1>5. LoopSound' /\ IdleSound' /\ PostsSound' /\ EntriesSound'
  BY <1>1, WorkerPartStands DEF Journalled
<1>6. DatabasesBounded'
  BY <1>1 DEF RecoveryInv, DatabasesBounded, RevisionsBounded, RecordIds
<1>7. SnapshotsFollowed'
  <2>1. db \in Snapshot /\ Follows(db, db)
    BY <1>2, FollowsReflexive DEF WorkerTypeOK
  <2>2. \A r \in Routers : Entry(r) # None /\ Entry(r).snapshot = db
    BY <1>3 DEF Installed
  <2>3. \A post \in network : post.snapshot.incarnation < db.incarnation
    BY <1>3, <2>2 DEF Installed, Routers
  <2>4. \A post \in network : post.snapshot.incarnation \in Nat
    BY <1>2, MaxU64Assumption DEF WorkerTypeOK, Post, Snapshot, U64
  <2>5. db.incarnation \in Nat
    BY <2>1, MaxU64Assumption DEF Snapshot, U64
  <2>6. \A post \in network : post.snapshot.incarnation # db.incarnation
    BY <2>3, <2>4, <2>5
  <2>7. QED
    BY <1>1, <1>2, <2>1, <2>2, <2>6 DEF SnapshotsFollowed, Entry
<1>8. GuardSound' /\ CommandSound' /\ PeaceSound'
  BY <1>1, <1>7 DEF GuardSound, CommandSound, PeaceSound
<1>9. QED
  BY <1>4, <1>5, <1>6, <1>8 DEF RecoveryInv

-----------------------------------------------------------------------------
(***************************************************************************)
(* The theorems.                                                           *)
(***************************************************************************)

\* At first there is no backup, no journal and no command.
LEMMA RecoveryInvAtFirst ==
  ASSUME RecoveryInit
  PROVE  RecoveryInv
<1>1. Inv /\ running /\ guard = None /\ network = {}
  BY InvAtFirst DEF RecoveryInit, WorkerInit
<1>2. \A r \in Routers : Entry(r) = None
  BY WorkerAssumption DEF RecoveryInit, WorkerInit, Entry
<1>3. RecoveryTypeOK
  BY <1>1 DEF RecoveryInit, RecoveryTypeOK, Inv
<1>4. QED
  BY <1>1, <1>2, <1>3
  DEF Inv, RecoveryInit, RecoveryInv, IdleSound, DatabasesBounded, DatabaseSound,
      EntriesSound, PostsSound, GuardSound, CommandSound, PeaceSound

\* Every step keeps the invariant, as long as no completed operation is run again.
LEMMA RecoveryNextKeepsInv ==
  ASSUME RecoveryInv, ~RerunComplete, [RecoveryNext]_allVars
  PROVE  RecoveryInv'
<1>1. CASE WorkerStep
  BY <1>1, WorkerKeepsInv
<1>2. CASE TakeBackup
  BY <1>2, TakeBackupKeepsInv
<1>3. ASSUME NEW op \in Operations, Restore(op) \/ RunCommand(op)
      PROVE  RecoveryInv'
  BY <1>3, RestoreKeepsInv, RunCommandKeepsInv
<1>4. CASE CommandDies
  BY <1>4, CommandDiesKeepsInv
<1>5. CASE CommandStep
  BY <1>5, FreezeRouterKeepsInv, CollectRouterKeepsInv, PrepareKeepsInv,
     RecoverRouterKeepsInv, RewriteKeepsInv, RemoveGuardKeepsInv
  DEF CommandStep
<1>6. CASE UNCHANGED allVars
  BY <1>6
  DEF allVars, workerVars, recoveryVars, RecoveryInv, RecoveryTypeOK, WorkerTypeOK,
      LoopSound, IdleSound, DatabasesBounded, RevisionsBounded, RecordIds,
      EntriesSound, PostsSound, GuardSound, CommandSound, PeaceSound,
      SnapshotsFollowed, Fenced, Installed, Journalled, Entry, IncarnationAt
<1>7. QED
  BY <1>1, <1>2, <1>3, <1>4, <1>5, <1>6 DEF RecoveryNext

\* The invariant holds in every state a recovery reaches.
THEOREM RecoveryInvHolds ==
  ASSUME ~RerunComplete
  PROVE  RecoverySpec => []RecoveryInv
<1>1. RecoveryInit => RecoveryInv
  BY RecoveryInvAtFirst
<1>2. RecoveryInv /\ [RecoveryNext]_allVars => RecoveryInv'
  BY RecoveryNextKeepsInv
<1>3. QED
  BY <1>1, <1>2, PTL DEF RecoverySpec

\* Values stay where they belong: the merge and the result are histories whose
\* numbers fit.
THEOREM RecoveryTypeCorrect ==
  ASSUME ~RerunComplete
  PROVE  RecoverySpec => []RecoveryTypeOK
<1>1. RecoveryInv => RecoveryTypeOK
  BY DEF RecoveryInv
<1>2. QED
  BY <1>1, RecoveryInvHolds, PTL

\* Whenever the guard is gone, no routing node is ahead of the worker, although
\* its database was put back to an old one.
THEOREM RecoveredStaysAhead ==
  ASSUME ~RerunComplete
  PROVE  RecoverySpec => []WorkerAhead
<1>1. RecoveryInv => WorkerAhead
  BY DEF RecoveryInv, PeaceSound, SnapshotsFollowed, Follows, WorkerAhead
<1>2. QED
  BY <1>1, RecoveryInvHolds, PTL

\* A tombstone of a routing node is a tombstone of the worker whenever the guard
\* is gone.  Run RecoveryRerun refutes it without the assumption.
THEOREM TombstonesStand ==
  ASSUME ~RerunComplete
  PROVE  RecoverySpec => []TombstonesStay
<1>1. ASSUME RecoveryInv, guard = None, NEW r \in Routers, NEW i \in Ids,
             Tombstone(r, i)
      PROVE  DeletedHere(i)
  <2> DEFINE record == Entry(r).snapshot.records[i]
  <2>1. Entry(r) # None /\ record # None /\ record.deleted
    BY <1>1 DEF Tombstone, AcceptedRecord, RecordOf, Entry
  <2>2. Follows(Entry(r).snapshot, db)
    BY <1>1, <2>1 DEF RecoveryInv, PeaceSound, SnapshotsFollowed, Entry
  <2>3. RecordExtends(record, db.records[i])
    BY <2>1, <2>2 DEF Follows, RecordIds
  <2>4. QED
    BY <2>1, <2>3, Zenon DEF RecordExtends, DeletedHere
<1>2. RecoveryInv => TombstonesStay
  BY <1>1 DEF TombstonesStay
<1>3. QED
  BY <1>2, RecoveryInvHolds, PTL

\* A post of a later incarnation is under way only when both routing nodes have
\* that incarnation and do not take the old credential any more.
THEOREM FencedFirst ==
  ASSUME ~RerunComplete
  PROVE  RecoverySpec => []BothFenceFirst
<1>1. ASSUME RecoveryInv, NEW post \in network, NEW r \in Routers,
             post.snapshot.incarnation > 1
      PROVE  /\ Entry(r) # None
             /\ Entry(r).snapshot.incarnation >= post.snapshot.incarnation
             /\ Credential(routers[r], Self) # InitialCredential[Self]
  <2>1. WorkerTypeOK
    BY <1>1 DEF RecoveryInv, RecoveryTypeOK
  <2>2. post.snapshot.incarnation \in Nat
    BY <2>1, MaxU64Assumption DEF WorkerTypeOK, Post, Snapshot, U64
  <2>3. post.snapshot.incarnation <= IncarnationAt(r)
    BY <1>1 DEF RecoveryInv, PostsSound
  <2>4. Entry(r) # None
    BY <1>1, <2>2, <2>3 DEF IncarnationAt
  <2>5. Entry(r).snapshot.incarnation \in Nat
    BY <2>1, <2>4, EntryIsOwner, MaxU64Assumption DEF U64
  <2>6. Entry(r).snapshot.incarnation >= post.snapshot.incarnation
    BY <2>2, <2>3, <2>4, <2>5 DEF IncarnationAt
  <2>7. Entry(r).snapshot.incarnation > 1
    BY <1>1, <2>2, <2>5, <2>6
  <2>8. /\ Entry(r).credential_hash # None
        /\ Entry(r).credential_hash # InitialCredential[Self]
    BY <1>1, <2>4, <2>7 DEF RecoveryInv, EntriesSound
  <2>9. QED
    BY <2>4, <2>6, <2>8 DEF Credential, Entry
<1>2. RecoveryInv => BothFenceFirst
  BY <1>1 DEF BothFenceFirst, Entry
<1>3. QED
  BY <1>2, RecoveryInvHolds, PTL

-----------------------------------------------------------------------------
(***************************************************************************)
(* The histories: what has become of the worker's database and of every    *)
(* copy of it.  This part is about an operator who, besides, restores no   *)
(* backup from before the last recovery: run recovery_stale shows what     *)
(* that would do.                                                          *)
(***************************************************************************)

\* accept takes `later' after `earlier', as far as the records go.
Precedes(earlier, later) ==
    /\ earlier.revision <= later.revision
    /\ \A i \in RecordIds(earlier) :
          RecordAdmissible(earlier.records[i], later.records[i])

\* The copies of the worker's database, wherever they have got to.
Copies ==
    {db}
    \cup (IF loop.phase = "read" THEN {} ELSE {loop.snapshot})
    \cup {post.snapshot : post \in network}
    \cup {Entry(r).snapshot : r \in {q \in Routers : Entry(q) # None}}
    \cup (IF backup = None THEN {} ELSE {backup.db})

\* Those of its present incarnation.
Current == {copy \in Copies : copy.incarnation = db.incarnation}

\* Until a result is journalled, they are one history: of any two, one
\* precedes the other, and without the guard all precede the database.  No
\* routing node is in another incarnation.
HistoryOrdered ==
    guard = None \/ ~Journalled(guard) =>
        /\ \A a, b \in Current : Precedes(a, b) \/ Precedes(b, a)
        /\ guard = None => \A a \in Current : Precedes(a, db)
        /\ \A r \in Routers : IncarnationAt(r) = db.incarnation

\* What a routing node holds of the worker would be accepted again, beside the
\* other owners it started with.
EntryFits(s) ==
    /\ \A o \in Owners \ {Self} : s.owners[o] = Preloaded.owners[o]
    /\ s.owners[Self] # None =>
          /\ s.generation = 0
          /\ Cardinality(RecordIds(s.owners[Self].snapshot)) <= RecordLimit
          /\ RecordsValid(s, Self, s.owners[Self].snapshot)
          /\ ReservedSize(s) <= ViewLimit

EntriesFit == \A r \in Routers : EntryFits(routers[r])

\* The merge begins with the numbers of the restored database and no records.
Unrecorded == [db EXCEPT !.records = [i \in Ids |-> None]]

MergedKnown ==
    /\ DoStep("collect") =>
          command.merged = IF command.router = 1 THEN Unrecorded
                           ELSE Merge(Unrecorded, Entry(1).snapshot)
    /\ DoStep("prepare") =>
          command.merged =
              Merge(Merge(Unrecorded, Entry(1).snapshot), Entry(2).snapshot)

\* The backup is not of an incarnation to come.
BackupKnown ==
    backup # None =>
        /\ backup.db.incarnation <= db.incarnation
        /\ guard # None /\ Journalled(guard) =>
              backup.db.incarnation < journal[guard].snapshot.incarnation

HistoryInv ==
    /\ HistoryOrdered
    /\ EntriesFit
    /\ MergedKnown
    /\ BackupKnown
    /\ ResultAcceptable

-----------------------------------------------------------------------------
(***************************************************************************)
(* Lemmas about the operators.                                             *)
(***************************************************************************)

\* Every snapshot precedes itself.
LEMMA PrecedesReflexive ==
  ASSUME NEW a \in Snapshot
  PROVE  Precedes(a, a)
<1>1. \A i \in RecordIds(a) : a.records[i] \in Record
  BY DEF RecordIds, Snapshot
<1>2. QED
  BY <1>1, NoneAssumption, MaxU64Assumption
  DEF Precedes, RecordAdmissible, Record, Snapshot, U64

\* What precedes a snapshot precedes all that follow it.
LEMMA PrecedesTransitive ==
  ASSUME NEW a \in Snapshot, NEW b \in Snapshot, NEW c \in Snapshot,
         Precedes(a, b), Precedes(b, c)
  PROVE  Precedes(a, c)
<1>1. a.revision <= c.revision
  BY MaxU64Assumption DEF Precedes, Snapshot, U64
<1>2. ASSUME NEW i \in RecordIds(a)
      PROVE  RecordAdmissible(a.records[i], c.records[i])
  <2>1. RecordAdmissible(a.records[i], b.records[i])
    BY DEF Precedes
  <2>2. i \in RecordIds(b)
    BY <2>1 DEF RecordIds, RecordAdmissible
  <2>3. RecordAdmissible(b.records[i], c.records[i])
    BY <2>2 DEF Precedes
  <2>4. i \in RecordIds(c)
    BY <2>2, <2>3 DEF RecordIds, RecordAdmissible
  <2>5. /\ a.records[i].revision \in Nat
        /\ b.records[i].revision \in Nat
        /\ c.records[i].revision \in Nat
    BY <2>2, <2>4, MaxU64Assumption DEF RecordIds, Snapshot, Record, U64
  <2> DEFINE x == a.records[i]
             y == b.records[i]
             z == c.records[i]
  <2> HIDE DEF x, y, z
  <2>6. /\ RecordAdmissible(x, y) /\ RecordAdmissible(y, z)
        /\ x.revision \in Nat /\ y.revision \in Nat /\ z.revision \in Nat
    BY <2>1, <2>3, <2>5 DEF x, y, z
  <2>7. z.revision >= x.revision /\ (z.revision = x.revision => y.revision = x.revision)
    BY <2>6 DEF RecordAdmissible
  <2>8. RecordAdmissible(x, z)
    BY <2>6, <2>7 DEF RecordAdmissible
  <2>9. QED
    BY <2>8 DEF x, z
<1>3. QED
  BY <1>1, <1>2 DEF Precedes

\* merge with a record of the same history takes the later of the two as it is.
LEMMA MergeRecordTakesLater ==
  ASSUME NEW a \in Record, NEW b \in Record, RecordAdmissible(a, b)
  PROVE  MergeRecord(a, b) = b /\ MergeRecord(b, a) = b
<1>0. a.revision \in Nat /\ b.revision \in Nat
  BY MaxU64Assumption DEF Record, U64
<1>1. a # None /\ b # None
  BY NoneAssumption
<1>2. a.deleted \in BOOLEAN /\ b.deleted \in BOOLEAN
  BY DEF Record
<1>3. (a.deleted \/ b.deleted) = b.deleted /\ (b.deleted \/ a.deleted) = b.deleted
  BY <1>2 DEF RecordAdmissible
<1>4. (IF b.revision > a.revision THEN b ELSE a) = b
  BY <1>0 DEF RecordAdmissible
<1>5. (IF a.revision > b.revision THEN a ELSE b) = b
  BY <1>0 DEF RecordAdmissible
<1>6. [b EXCEPT !.deleted = b.deleted] = b
  BY DEF Record
<1>7. MergeRecord(a, b) = [b EXCEPT !.deleted = a.deleted \/ b.deleted]
  BY <1>1, <1>4 DEF MergeRecord
<1>8. MergeRecord(b, a) = [b EXCEPT !.deleted = b.deleted \/ a.deleted]
  BY <1>1, <1>5 DEF MergeRecord
<1>9. QED
  BY <1>3, <1>6, <1>7, <1>8

\* Of two snapshots of one history the merge is the later, record by record.
LEMMA MergeOfOrdered ==
  ASSUME NEW a \in Snapshot, NEW b \in Snapshot, Precedes(a, b), NEW i \in Ids
  PROVE  /\ MergeRecord(a.records[i], b.records[i]) = b.records[i]
         /\ MergeRecord(b.records[i], a.records[i]) = b.records[i]
<1>1. CASE a.records[i] = None
  BY <1>1 DEF MergeRecord
<1>2. CASE a.records[i] # None
  <2>1. RecordAdmissible(a.records[i], b.records[i])
    BY <1>2 DEF Precedes, RecordIds
  <2>2. a.records[i] \in Record /\ b.records[i] \in Record
    BY <1>2, <2>1 DEF RecordAdmissible, Snapshot
  <2>3. QED
    BY <2>1, <2>2, MergeRecordTakesLater
<1>3. QED
  BY <1>1, <1>2

\* What the command merges from two routing nodes of one history is what the
\* one that is ahead holds, under numbers no smaller than any of them.
LEMMA MergedIsLater ==
  ASSUME NEW u \in Snapshot, NEW a \in Snapshot, NEW b \in Snapshot,
         \A i \in Ids : u.records[i] = None,
         a.incarnation = u.incarnation, b.incarnation = u.incarnation,
         Precedes(a, b) \/ Precedes(b, a)
  PROVE  LET merged == Merge(Merge(u, a), b) IN
         /\ merged \in Snapshot
         /\ merged.incarnation = u.incarnation
         /\ merged.revision >= u.revision
         /\ merged.revision >= a.revision
         /\ merged.revision >= b.revision
         /\ \E top \in {a, b} :
               /\ Precedes(a, top) /\ Precedes(b, top)
               /\ \A i \in Ids : merged.records[i] = top.records[i]
<1> DEFINE first == Merge(u, a)
           merged == Merge(first, b)
<1>1. first \in Snapshot /\ merged \in Snapshot
  BY MergeIsSnapshot
<1>2. /\ first.incarnation = MaxOf(u.incarnation, a.incarnation)
      /\ first.revision = MaxOf(u.revision, a.revision)
      /\ \A i \in Ids : first.records[i] = MergeRecord(u.records[i], a.records[i])
  BY DEF Merge
<1>3. /\ merged.incarnation = MaxOf(first.incarnation, b.incarnation)
      /\ merged.revision = MaxOf(first.revision, b.revision)
      /\ \A i \in Ids : merged.records[i] = MergeRecord(first.records[i], b.records[i])
  BY DEF Merge
<1> HIDE DEF first, merged
<1>4. merged.incarnation = u.incarnation
  BY <1>2, <1>3 DEF MaxOf
<1>5. /\ merged.revision >= u.revision
      /\ merged.revision >= a.revision
      /\ merged.revision >= b.revision
  <2>1. /\ u.revision \in Nat /\ a.revision \in Nat /\ b.revision \in Nat
        /\ first.revision \in Nat /\ merged.revision \in Nat
    BY <1>1, MaxU64Assumption DEF Snapshot, U64
  <2>2. QED
    BY <1>2, <1>3, <2>1 DEF MaxOf
<1>6. \A i \in Ids : first.records[i] = a.records[i]
  BY <1>2 DEF MergeRecord
<1>7. \E top \in {a, b} :
         /\ Precedes(a, top) /\ Precedes(b, top)
         /\ \A i \in Ids : merged.records[i] = top.records[i]
  <2>1. CASE Precedes(a, b)
    BY <1>3, <1>6, <2>1, MergeOfOrdered, PrecedesReflexive
  <2>2. CASE Precedes(b, a)
    BY <1>3, <1>6, <2>2, MergeOfOrdered, PrecedesReflexive
  <2>3. QED
    BY <2>1, <2>2
<1>8. QED
  BY <1>1, <1>4, <1>5, <1>7 DEF merged, first

\* A deletion of the restored database is kept as a new revision, or was there
\* already: accept takes the record after the one it replaces.
LEMMA KeptDeletionAdmissible ==
  ASSUME NEW old \in Record, NEW restored \in Record \cup {None},
         restored # None =>
            RecordAdmissible(old, restored) \/ RecordAdmissible(restored, old)
  PROVE  LET new == KeepDeletion(old, restored) IN
         /\ RecordAdmissible(old, new)
         /\ \/ new.revision = old.revision
            \/ restored # None /\ new.revision = restored.revision
<1> DEFINE new == KeepDeletion(old, restored)
<1>0. old # None
  BY NoneAssumption
<1>1. old.revision \in Nat /\ RecordAdmissible(old, old)
  BY <1>0, MaxU64Assumption DEF Record, U64, RecordAdmissible
<1>2. CASE restored = None \/ ~restored.deleted \/ ~SameIdentity(old, restored)
  <2>1. new = old
    BY <1>2 DEF KeepDeletion
  <2>2. QED
    BY <1>1, <2>1
<1>3. CASE /\ restored # None
           /\ restored.deleted
           /\ SameIdentity(old, restored)
  <2> DEFINE n == MaxOf(old.revision, restored.revision)
  <2>0. restored.revision \in Nat
    BY <1>3, MaxU64Assumption DEF Record, U64
  <2>1. new = [old EXCEPT !.deleted = TRUE, !.revision = n]
    BY <1>0, <1>3 DEF KeepDeletion
  <2>2. CASE restored.revision > old.revision
    <3>1. n = restored.revision
      BY <1>1, <2>0, <2>2 DEF MaxOf
    <3> HIDE DEF n
    <3>2. /\ new.app = old.app /\ new.endpoint = old.endpoint
          /\ new.revision = n /\ new.deleted = TRUE
          /\ new \in Record
      BY <1>3, <2>1, <3>1 DEF Record
    <3>3. new # None
      BY <3>2, NoneAssumption
    <3> HIDE DEF new
    <3>4. QED
      BY <1>1, <1>3, <2>0, <2>2, <3>1, <3>2, <3>3 DEF RecordAdmissible, new
  <2>3. CASE ~(restored.revision > old.revision)
    <3>1. n = old.revision
      BY <1>1, <2>0, <2>3 DEF MaxOf
    <3>2. old.deleted
      BY <1>1, <1>3, <2>0, <2>3 DEF RecordAdmissible
    <3>3. old.deleted = TRUE
      BY <3>2 DEF Record
    <3> HIDE DEF n
    <3>4. new = old
      BY <2>1, <3>1, <3>3 DEF Record
    <3>5. QED
      BY <1>1, <3>4
  <2>4. QED
    BY <2>2, <2>3
<1>4. QED
  BY <1>2, <1>3

-----------------------------------------------------------------------------
(***************************************************************************)
(* Why both routing nodes accept the result.                               *)
(***************************************************************************)

\* The records of the result: those of the routing node that is ahead, with
\* deletions added, under new numbers.
LEMMA PreparedContinues ==
  ASSUME RecoveryTypeOK, RevisionsBounded(db),
         NEW top \in Snapshot, RevisionsBounded(top),
         Precedes(db, top) \/ Precedes(top, db),
         NEW merged \in Snapshot,
         merged.incarnation < MaxI64, merged.revision < MaxI64,
         merged.revision >= db.revision, merged.revision >= top.revision,
         \A i \in Ids : merged.records[i] = top.records[i]
  PROVE  LET next == Prepared(merged) IN
         /\ next \in Snapshot
         /\ next.incarnation = merged.incarnation + 1
         /\ next.revision = merged.revision + 1
         /\ RecordIds(next) = RecordIds(top)
         /\ \A i \in RecordIds(top) :
               /\ RecordAdmissible(top.records[i], next.records[i])
               /\ next.records[i].revision <= merged.revision
<1> DEFINE next == Prepared(merged)
<1>0. db \in Snapshot
  BY DEF RecoveryTypeOK, WorkerTypeOK
<1>1. next \in Snapshot
  BY PreparedIsSnapshot
<1>2. /\ next.incarnation = merged.incarnation + 1
      /\ next.revision = merged.revision + 1
      /\ \A i \in Ids :
            next.records[i] = KeepDeletion(top.records[i], db.records[i])
  BY DEF Prepared
<1> HIDE DEF next
<1>3. ASSUME NEW i \in RecordIds(top)
      PROVE  /\ RecordAdmissible(top.records[i], next.records[i])
             /\ next.records[i].revision <= merged.revision
  <2>1. i \in Ids /\ top.records[i] \in Record
    BY DEF RecordIds, Snapshot
  <2>2. db.records[i] \in Record \cup {None}
    BY <1>0, <2>1 DEF Snapshot
  <2>3. db.records[i] # None =>
           \/ RecordAdmissible(top.records[i], db.records[i])
           \/ RecordAdmissible(db.records[i], top.records[i])
    BY <2>1 DEF Precedes, RecordIds
  <2>4. /\ RecordAdmissible(top.records[i], next.records[i])
        /\ \/ next.records[i].revision = top.records[i].revision
           \/ /\ db.records[i] # None
              /\ next.records[i].revision = db.records[i].revision
    BY <1>2, <2>1, <2>2, <2>3, KeptDeletionAdmissible
  <2>5. top.records[i].revision <= top.revision
    BY DEF RevisionsBounded
  <2>6. db.records[i] # None => db.records[i].revision <= db.revision
    BY <2>1 DEF RevisionsBounded, RecordIds
  <2>7. /\ top.revision \in Nat /\ db.revision \in Nat /\ merged.revision \in Nat
        /\ top.records[i].revision \in Nat
        /\ db.records[i] # None => db.records[i].revision \in Nat
    BY <1>0, <2>1, <2>2, MaxU64Assumption DEF Snapshot, Record, U64
  <2>8. next.records[i].revision <= merged.revision
    BY <2>4, <2>5, <2>6, <2>7
  <2>9. QED
    BY <2>4, <2>8
<1>4. RecordIds(next) = RecordIds(top)
  <2>1. \A i \in Ids : top.records[i] = None => next.records[i] = None
    BY <1>2 DEF KeepDeletion
  <2>2. \A i \in RecordIds(top) : next.records[i] # None
    BY <1>3 DEF RecordAdmissible
  <2>3. QED
    BY <2>1, <2>2 DEF RecordIds
<1>5. QED
  BY <1>1, <1>2, <1>3, <1>4 DEF next

\* recover at a routing node that knows the owner, when the result continues
\* what it holds and what another node with the same other owners holds.
LEMMA ResultFits ==
  ASSUME NEW s \in State, NEW t \in State, NEW op \in Operations,
         NEW next \in Snapshot, NEW hash,
         s.owners[Self] # None, t.owners[Self] # None,
         s.generation = 0,
         s.owners[Self].frozen_by = op, ~RecoveredBy(s.owners[Self], op),
         \A o \in Owners \ {Self} : s.owners[o] = t.owners[o],
         LET old == s.owners[Self].snapshot
             top == t.owners[Self].snapshot IN
         /\ Precedes(old, top)
         /\ next.incarnation > old.incarnation
         /\ next.revision > top.revision
         /\ RecordIds(next) = RecordIds(top)
         /\ \A i \in RecordIds(top) :
               /\ RecordAdmissible(top.records[i], next.records[i])
               /\ next.records[i].revision <= next.revision
         /\ Cardinality(RecordIds(top)) <= RecordLimit
         /\ RecordsValid(t, Self, top)
         /\ ReservedSize(t) <= ViewLimit
  PROVE  CanRecover(s, Self, op, next, hash)
<1> DEFINE old == s.owners[Self].snapshot
           top == t.owners[Self].snapshot
           base == Rebased(s, Self, next.incarnation)
           accepted == Accepted(base, Self, next)
<1>1. /\ Self \in Owners
      /\ s.owners[Self] \in Owner /\ t.owners[Self] \in Owner
      /\ old \in Snapshot /\ top \in Snapshot
  BY WorkerAssumption DEF State, Owner
<1>2. /\ base \in State
      /\ base.generation = 0
  BY <1>1, RebasedKeeps DEF Rebased, Snapshot
<1>3. /\ base.owners[Self] # None
      /\ base.owners[Self].frozen_by = None
      /\ base.owners[Self].snapshot.incarnation = next.incarnation
      /\ base.owners[Self].snapshot.revision = old.revision
      /\ base.owners[Self].snapshot.records = old.records
      /\ \A o \in Owners \ {Self} : base.owners[o] = t.owners[o]
  <2> DEFINE entry == [s.owners[Self] EXCEPT !.snapshot.incarnation = next.incarnation,
                                             !.frozen_by = None]
  <2>1. /\ entry.frozen_by = None
        /\ entry.snapshot.incarnation = next.incarnation
        /\ entry.snapshot.revision = old.revision
        /\ entry.snapshot.records = old.records
    BY <1>1 DEF Owner, Snapshot
  <2>2. base.owners = [s.owners EXCEPT ![Self] = entry]
    BY DEF Rebased
  <2> HIDE DEF entry
  <2>3. base.owners[Self] = entry
    BY <1>1, <2>2 DEF State
  <2>4. entry # None
    <3>1. entry \in Owner
      <4>1. entry.snapshot \in Snapshot
        BY <1>1 DEF entry, Owner, Snapshot
      <4>2. entry = [s.owners[Self] EXCEPT !.snapshot = entry.snapshot,
                                           !.frozen_by = None]
        BY <1>1 DEF entry, Owner
      <4>3. QED
        BY <1>1, <4>1, <4>2 DEF Owner
    <3>2. QED
      BY <3>1, NoneOwnerAssumption
  <2>5. \A o \in Owners \ {Self} : base.owners[o] = s.owners[o]
    BY <1>1, <2>2 DEF State
  <2>6. QED
    BY <2>1, <2>3, <2>4, <2>5
<1>4. accepted \in State /\ accepted.owners[Self] \in Owner
  BY <1>1, <1>2, CandidateIsState, MaxU64Assumption
<1>5. /\ accepted.owners[Self].snapshot = next
      /\ \A o \in Owners \ {Self} : accepted.owners[o] = t.owners[o]
  <2>1. accepted.owners[Self].snapshot = next
    BY <1>1, <1>2 DEF Accepted, State
  <2>2. \A o \in Owners \ {Self} : accepted.owners[o] = base.owners[o]
    BY <1>1, <1>2 DEF Accepted, State
  <2>3. QED
    BY <1>3, <2>1, <2>2
<1> HIDE DEF base, accepted
<1>6. /\ next.revision \in Nat /\ next.incarnation \in Nat
      /\ old.revision \in Nat /\ old.incarnation \in Nat
      /\ top.revision \in Nat
  BY <1>1, MaxU64Assumption DEF Snapshot, U64
<1>7. next.incarnation # 0 /\ next.revision # 0 /\ next.revision > old.revision
  BY <1>6 DEF Precedes
<1>8. Continues(base.owners[Self], next)
  <2>1. ASSUME NEW i \in RecordIds(old)
        PROVE  RecordAdmissible(old.records[i], next.records[i])
    <3>1. RecordAdmissible(old.records[i], top.records[i])
      BY DEF Precedes
    <3>2. i \in RecordIds(top) /\ i \in Ids
      BY <3>1 DEF RecordIds, RecordAdmissible
    <3>3. RecordAdmissible(top.records[i], next.records[i])
      BY <3>2
    <3>4. /\ old.records[i].revision \in Nat
          /\ top.records[i].revision \in Nat
          /\ next.records[i].revision \in Nat
      <4>1. /\ old.records[i] \in Record /\ top.records[i] \in Record
            /\ next.records[i] \in Record
        BY <1>1, <3>2, <3>3 DEF RecordIds, RecordAdmissible, Snapshot
      <4>2. QED
        BY <4>1, MaxU64Assumption DEF Record, U64
    <3> DEFINE x == old.records[i]
               y == top.records[i]
               z == next.records[i]
    <3>5. /\ RecordAdmissible(x, y) /\ RecordAdmissible(y, z)
          /\ x.revision \in Nat /\ y.revision \in Nat /\ z.revision \in Nat
      BY <3>1, <3>3, <3>4
    <3> HIDE DEF x, y, z
    <3>6. z.revision >= x.revision /\ (z.revision = x.revision => y.revision = x.revision)
      BY <3>5 DEF RecordAdmissible
    <3>7. RecordAdmissible(x, z)
      BY <3>5, <3>6 DEF RecordAdmissible
    <3>8. QED
      BY <3>7 DEF x, z
  <2>2. RecordIds(base.owners[Self].snapshot) = RecordIds(old)
    BY <1>3 DEF RecordIds
  <2> HIDE DEF old
  <2>3. QED
    BY <1>3, <1>6, <1>7, <2>1, <2>2 DEF Continues
<1>9. RecordsValid(base, Self, next)
  <2> SUFFICES ASSUME NEW i \in RecordIds(next)
               PROVE  LET x == next.records[i] IN
                      /\ x.endpoint \in Canonical
                      /\ x.app \in Applications[Self]
                      /\ x.revision # 0
                      /\ x.revision <= next.revision
                      /\ \A j \in RecordIds(next) :
                            next.records[j].endpoint = x.endpoint => j = i
                      /\ ~ReservedByAnother(base, Self, i, x.endpoint)
    BY DEF RecordsValid
  <2> DEFINE x == next.records[i]
             y == top.records[i]
  <2>1. /\ i \in RecordIds(top) /\ i \in Ids
        /\ RecordAdmissible(y, x)
        /\ x.revision <= next.revision
    BY DEF RecordIds
  <2>2. /\ y.endpoint \in Canonical
        /\ y.app \in Applications[Self]
        /\ y.revision # 0
        /\ \A j \in RecordIds(top) : top.records[j].endpoint = y.endpoint => j = i
        /\ ~ReservedByAnother(t, Self, i, y.endpoint)
    BY <2>1 DEF RecordsValid
  <2>3. x.app = y.app /\ x.endpoint = y.endpoint
    BY <2>1 DEF RecordAdmissible
  <2>4. x.revision # 0
    <3>1. x \in Record /\ y \in Record
      BY <1>1, <2>1 DEF RecordIds, RecordAdmissible, Snapshot
    <3>2. x.revision \in Nat /\ y.revision \in Nat
      BY <3>1, MaxU64Assumption DEF Record, U64
    <3>3. x.revision >= y.revision
      BY <2>1 DEF RecordAdmissible
    <3>4. QED
      BY <2>2, <3>2, <3>3
  <2>5. \A j \in RecordIds(next) : next.records[j].endpoint = x.endpoint => j = i
    BY <2>2, <2>3 DEF RecordAdmissible
  <2>6. ~ReservedByAnother(base, Self, i, x.endpoint)
    <3> SUFFICES ASSUME NEW p \in Owners, NEW j \in Ids,
                        <<p, j>> # <<Self, i>>,
                        RecordOf(base, p, j) # None,
                        RecordOf(base, p, j).endpoint = y.endpoint
                 PROVE  FALSE
      BY <2>3 DEF ReservedByAnother
    <3>1. CASE p = Self
      <4>1. old.records[j] # None /\ old.records[j].endpoint = y.endpoint
        BY <1>3, <3>1 DEF RecordOf
      <4>2. RecordAdmissible(old.records[j], top.records[j])
        BY <4>1 DEF Precedes, RecordIds
      <4>3. j \in RecordIds(top) /\ top.records[j].endpoint = y.endpoint
        BY <4>1, <4>2 DEF RecordIds, RecordAdmissible
      <4>4. QED
        BY <2>2, <3>1, <4>3
    <3>2. CASE p # Self
      <4>1. RecordOf(base, p, j) = RecordOf(t, p, j)
        BY <1>3, <3>2 DEF RecordOf
      <4>2. QED
        BY <2>2, <4>1 DEF ReservedByAnother
    <3>3. QED
      BY <3>1, <3>2
  <2> HIDE DEF x, y
  <2>7. QED
    BY <2>1, <2>2, <2>3, <2>4, <2>5, <2>6 DEF x
<1>10. ReservedSize(accepted) <= ViewLimit
  <2>1. accepted.owners[Self] # None
    BY <1>4, NoneOwnerAssumption
  <2>2. Known(accepted) = Known(t)
    BY <1>5, <2>1 DEF Known
  <2>3. \A o \in Known(accepted) : RecordIds(accepted.owners[o].snapshot) =
                                   RecordIds(t.owners[o].snapshot)
    BY <1>5 DEF Known
  <2>4. ReservedSize(accepted) = ReservedSize(t)
    BY <1>4, <2>2, <2>3, ReservedSame
  <2>5. QED
    BY <2>4
<1>11. CanAccept(base, Self, next)
  BY <1>2, <1>7, <1>8, <1>9, <1>10, MaxU64Assumption DEF CanAccept, accepted
<1>12. QED
  BY <1>11 DEF CanRecover, base

-----------------------------------------------------------------------------
(***************************************************************************)
(* What the routing nodes hold of the worker stays acceptable.             *)
(***************************************************************************)

\* Uncounted leaves the owners and the sizes.
LEMMA UncountedSame ==
  ASSUME NEW s \in State
  PROVE  /\ Uncounted(s) \in State
         /\ Uncounted(s).generation = 0
         /\ Uncounted(s).owners = s.owners
         /\ ReservedSize(Uncounted(s)) = ReservedSize(s)
<1>1. /\ Uncounted(s) \in State
      /\ Uncounted(s).generation = 0
      /\ Uncounted(s).owners = s.owners
  BY MaxU64Assumption DEF Uncounted, State, U64
<1>2. Known(Uncounted(s)) = Known(s)
  BY <1>1 DEF Known
<1>3. QED
  BY <1>1, <1>2, ReservedSame

\* A snapshot that is valid where it is accepted is valid where it is held.
LEMMA HeldIsValid ==
  ASSUME NEW s, NEW t, NEW next, RecordsValid(s, Self, next),
         t.owners[Self].snapshot = next,
         \A o \in Owners \ {Self} : t.owners[o] = s.owners[o]
  PROVE  RecordsValid(t, Self, next)
<1> SUFFICES ASSUME NEW i \in RecordIds(next)
             PROVE  ~ReservedByAnother(t, Self, i, next.records[i].endpoint)
  BY DEF RecordsValid
<1> SUFFICES ASSUME NEW p \in Owners, NEW j \in Ids,
                    <<p, j>> # <<Self, i>>,
                    RecordOf(t, p, j) # None,
                    RecordOf(t, p, j).endpoint = next.records[i].endpoint
             PROVE  FALSE
  BY DEF ReservedByAnother
<1>1. CASE p = Self
  <2>1. RecordOf(t, p, j) = next.records[j] /\ j \in RecordIds(next)
    BY <1>1 DEF RecordOf, RecordIds
  <2>2. j = i
    BY <2>1 DEF RecordsValid
  <2>3. QED
    BY <1>1, <2>2
<1>2. CASE p # Self
  <2>1. RecordOf(t, p, j) = RecordOf(s, p, j)
    BY <1>2 DEF RecordOf
  <2>2. QED
    BY <2>1 DEF RecordsValid, ReservedByAnother
<1>3. QED
  BY <1>1, <1>2

\* A post that is committed.
LEMMA FitsHandled ==
  ASSUME NEW s \in State, EntryFits(s), NEW next \in Snapshot,
         CanCommit(s, Self, next)
  PROVE  EntryFits(Uncounted(Accepted(s, Self, next)))
<1> DEFINE t == Accepted(s, Self, next)
<1>1. CanAccept(s, Self, next) /\ Self \in Owners
  BY WorkerAssumption DEF CanCommit
<1>2. t \in State /\ t.owners[Self].snapshot = next
  BY <1>1, CommittedEntry, AcceptedIsState
<1>3. \A o \in Owners \ {Self} : t.owners[o] = s.owners[o]
  BY <1>1 DEF Accepted, State
<1>4. /\ Cardinality(RecordIds(next)) <= RecordLimit
      /\ RecordsValid(s, Self, next)
      /\ ReservedSize(t) <= ViewLimit
  BY <1>1 DEF CanAccept
<1> HIDE DEF t
<1>5. /\ Uncounted(t).generation = 0
      /\ Uncounted(t).owners = t.owners
      /\ ReservedSize(Uncounted(t)) = ReservedSize(t)
  BY <1>2, UncountedSame
<1>6. RecordsValid(Uncounted(t), Self, next)
  BY <1>2, <1>3, <1>4, <1>5, HeldIsValid
<1>7. QED
  BY <1>2, <1>3, <1>4, <1>5, <1>6 DEF EntryFits, t

\* A freeze.
LEMMA FitsFrozen ==
  ASSUME NEW s \in State, EntryFits(s), NEW op \in Operations,
         CanFreeze(s, Self, op)
  PROVE  EntryFits(Uncounted(Frozen(s, Self, op)))
<1> DEFINE t == Frozen(s, Self, op)
<1>1. t \in State /\ Self \in Owners
  BY FrozenKeeps, WorkerAssumption
<1>2. s.owners[Self] # None /\ t.owners[Self] # None
  BY <1>1, FrozenEntry, UncountedSame
<1>3. t.owners[Self].snapshot = s.owners[Self].snapshot
  BY <1>1, FrozenEntry, UncountedSame
<1>4. \A o \in Owners \ {Self} : t.owners[o] = s.owners[o]
  BY <1>1 DEF Frozen, State
<1>5. ReservedSize(t) = ReservedSize(s)
  <2>1. Known(t) = Known(s)
    BY <1>2, <1>4 DEF Known
  <2> HIDE DEF t
  <2>2. \A o \in Known(s) : RecordIds(t.owners[o].snapshot) =
                            RecordIds(s.owners[o].snapshot)
    BY <1>3, <1>4 DEF Known
  <2>3. QED
    BY <1>1, <2>1, <2>2, ReservedSame
<1> HIDE DEF t
<1>6. /\ Uncounted(t).generation = 0
      /\ Uncounted(t).owners = t.owners
      /\ ReservedSize(Uncounted(t)) = ReservedSize(t)
  BY <1>1, UncountedSame
<1>7. RecordsValid(Uncounted(t), Self, s.owners[Self].snapshot)
  BY <1>2, <1>3, <1>4, <1>6, HeldIsValid DEF EntryFits
<1>8. QED
  BY <1>2, <1>3, <1>4, <1>5, <1>6, <1>7 DEF EntryFits, t

\* An installed result.
LEMMA FitsRecovered ==
  ASSUME NEW s \in State, EntryFits(s), NEW op \in Operations,
         NEW next \in Snapshot, NEW hash \in Credentials,
         CanRecover(s, Self, op, next, hash)
  PROVE  EntryFits(Uncounted(Recovered(s, Self, op, next, hash)))
<1> DEFINE t == Recovered(s, Self, op, next, hash)
<1>1. t \in State /\ Self \in Owners
  BY RecoveredKeeps, WorkerAssumption
<1>2. /\ Uncounted(t).generation = 0
      /\ Uncounted(t).owners = t.owners
      /\ ReservedSize(Uncounted(t)) = ReservedSize(t)
  BY <1>1, UncountedSame
<1>3. CASE RecoveredBy(s.owners[Self], op)
  <2>1. t = s
    BY <1>3 DEF Recovered
  <2>2. s.owners[Self] # None
    BY DEF CanRecover
  <2> HIDE DEF t
  <2>3. RecordsValid(Uncounted(t), Self, s.owners[Self].snapshot)
    BY <1>2, <2>1, <2>2, HeldIsValid DEF EntryFits
  <2>4. QED
    BY <1>2, <2>1, <2>2, <2>3 DEF EntryFits, t
<1>4. CASE ~RecoveredBy(s.owners[Self], op)
  <2> DEFINE base == Rebased(s, Self, next.incarnation)
  <2>1. MovedByRecovery(s, t, Self, op, next, hash)
    BY <1>1, <1>4, RecoveredBecomes
  <2>2. RecordsValid(base, Self, next)
    BY <1>4 DEF CanRecover, CanAccept
  <2>3. \A o \in Owners \ {Self} : base.owners[o] = s.owners[o]
    BY <1>1 DEF Rebased, State
  <2> HIDE DEF t, base
  <2>4. /\ t.owners[Self].snapshot = next
        /\ \A o \in Owners \ {Self} : t.owners[o] = s.owners[o]
        /\ Cardinality(RecordIds(next)) <= RecordLimit
        /\ ReservedSize(t) <= ViewLimit
    BY <2>1 DEF MovedByRecovery, SnapshotSound
  <2>5. RecordsValid(Uncounted(t), Self, next)
    BY <1>2, <2>2, <2>3, <2>4, HeldIsValid
  <2>6. QED
    BY <1>2, <2>4, <2>5 DEF EntryFits, t
<1>5. QED
  BY <1>3, <1>4

-----------------------------------------------------------------------------
(***************************************************************************)
(* The steps of the worker, of its routing nodes and of the network.       *)
(***************************************************************************)

\* The histories stay in order as long as no new copy is made and the database
\* stays in its incarnation.
LEMMA OrderStays ==
  ASSUME HistoryOrdered, guard = None \/ ~Journalled(guard),
         Copies' \subseteq Copies, db'.incarnation = db.incarnation,
         guard' = None => guard = None /\ db' = db,
         \A r \in Routers : IncarnationAt(r)' = IncarnationAt(r)
  PROVE  HistoryOrdered'
<1>1. Current' \subseteq Current
  BY DEF Current
<1>2. \A a, b \in Current : Precedes(a, b) \/ Precedes(b, a)
  BY DEF HistoryOrdered
<1>3. guard = None => \A a \in Current : Precedes(a, db)
  BY DEF HistoryOrdered
<1>4. \A r \in Routers : IncarnationAt(r) = db.incarnation
  BY DEF HistoryOrdered
<1>5. QED
  BY <1>1, <1>2, <1>3, <1>4 DEF HistoryOrdered

\* What a registration writes comes after the database it was written to.
LEMMA RegisteredIsLater ==
  ASSUME WorkerTypeOK, RevisionsBounded(db), NEW request \in Request,
         CanRegister(request)
  PROVE  Precedes(db, Registered(request))
<1> DEFINE after == Registered(request)
<1>1. db \in Snapshot /\ after \in Snapshot
  BY RegisteredIsSnapshot DEF WorkerTypeOK
<1>2. after.revision = db.revision + 1
  BY RegisteredIsSnapshot
<1>3. db.revision \in Nat
  BY <1>1, MaxU64Assumption DEF Snapshot, U64
<1>4. ASSUME NEW i \in RecordIds(db)
      PROVE  RecordAdmissible(db.records[i], after.records[i])
  <2> DEFINE old == db.records[i]
             new == after.records[i]
  <2>1. i \in Ids /\ old \in Record /\ old # None
    BY <1>1 DEF RecordIds, Snapshot
  <2>2. CASE i = request.id
    <3>1. new = [app |-> Workloads[i].app, endpoint |-> Workloads[i].endpoint,
                 revision |-> db.revision + 1, deleted |-> request.deleted]
      BY <1>1, <2>1, <2>2 DEF Registered, Snapshot
    <3>2. /\ old.app = Workloads[i].app /\ old.endpoint = Workloads[i].endpoint
          /\ old.deleted => request.deleted
      BY <2>1, <2>2 DEF CanRegister
    <3>3. new \in Record \cup {None}
      BY <1>1, <2>1 DEF Snapshot
    <3>4. old.revision <= db.revision /\ old.revision \in Nat
      BY <2>1, MaxU64Assumption DEF RevisionsBounded, Record, U64
    <3>5. new # None
      <4>1. Workloads[i].app \in Apps /\ Workloads[i].endpoint \in Endpoints
        BY <2>1, WorkerAssumption
      <4>2. request.deleted \in BOOLEAN /\ db.revision + 1 \in U64
        BY RegisteredIsSnapshot DEF Request
      <4>3. new \in Record
        BY <3>1, <4>1, <4>2 DEF Record
      <4>4. QED
        BY <4>3, NoneAssumption
    <3>6. /\ new.app = old.app /\ new.endpoint = old.endpoint
          /\ new.revision = db.revision + 1
          /\ old.deleted => new.deleted
      BY <3>1, <3>2
    <3> HIDE DEF old, new
    <3>7. RecordAdmissible(old, new)
      BY <1>3, <3>4, <3>5, <3>6 DEF RecordAdmissible
    <3>8. QED
      BY <3>7 DEF old, new
  <2>3. CASE i # request.id
    <3>1. new = old
      BY <1>1, <2>1, <2>3 DEF Registered, Snapshot
    <3>2. old.revision \in Nat
      BY <2>1, MaxU64Assumption DEF Record, U64
    <3>3. QED
      BY <2>1, <3>1, <3>2 DEF RecordAdmissible
  <2>4. QED
    BY <2>2, <2>3
<1> HIDE DEF after
<1>5. QED
  BY <1>2, <1>3, <1>4 DEF Precedes, after

\* Copies are histories.
LEMMA CopiesAreSnapshots ==
  ASSUME RecoveryInv
  PROVE  Current \subseteq Snapshot /\ db \in Current
<1>1. WorkerTypeOK /\ LoopSound
  BY DEF RecoveryInv, RecoveryTypeOK
<1>2. db \in Snapshot /\ \A post \in network : post.snapshot \in Snapshot
  BY <1>1 DEF WorkerTypeOK, Post
<1>3. loop.phase # "read" => loop.snapshot \in Snapshot
  BY <1>1 DEF LoopSound
<1>4. \A r \in Routers : Entry(r) # None => Entry(r).snapshot \in Snapshot
  BY <1>1, EntryIsOwner
<1>5. backup # None => backup.db \in Snapshot
  BY DEF RecoveryInv, RecoveryTypeOK
<1>6. QED
  BY <1>2, <1>3, <1>4, <1>5 DEF Current, Copies

\* A registration is the last of the history.
LEMMA RegisterKeepsOrder ==
  ASSUME RecoveryInv, HistoryOrdered, UNCHANGED recoveryVars,
         NEW name \in Names, NEW request \in Request, Register(name, request)
  PROVE  HistoryOrdered' /\ db'.incarnation = db.incarnation
<1>1. /\ guard = None /\ guard' = None /\ db' = Registered(request)
      /\ UNCHANGED <<loop, network, routers, backup>>
      /\ CanRegister(request)
  BY DEF Register, recoveryVars
<1>2. WorkerTypeOK /\ RevisionsBounded(db)
  BY DEF RecoveryInv, RecoveryTypeOK, DatabasesBounded
<1>3. /\ db \in Snapshot /\ db' \in Snapshot
      /\ db'.incarnation = db.incarnation
      /\ Precedes(db, db')
  BY <1>1, <1>2, RegisteredIsSnapshot, RegisteredIsLater DEF WorkerTypeOK
<1>4. Current' \subseteq Current \cup {db'}
  <2>1. Copies' \subseteq Copies \cup {db'}
    BY <1>1 DEF Copies, Entry
  <2>2. QED
    BY <1>3, <2>1 DEF Current
<1>5. \A a \in Current : a \in Snapshot /\ Precedes(a, db)
  BY <1>1, CopiesAreSnapshots DEF HistoryOrdered
<1>6. \A a \in Current' : Precedes(a, db')
  BY <1>3, <1>4, <1>5, PrecedesTransitive, PrecedesReflexive
<1>7. \A a, b \in Current : Precedes(a, b) \/ Precedes(b, a)
  BY <1>1 DEF HistoryOrdered
<1>8. \A a, b \in Current' : Precedes(a, b) \/ Precedes(b, a)
  BY <1>4, <1>6, <1>7
<1>9. \A r \in Routers : IncarnationAt(r)' = db'.incarnation
  BY <1>1, <1>3 DEF HistoryOrdered, IncarnationAt, Entry
<1>10. QED
  BY <1>3, <1>6, <1>8, <1>9 DEF HistoryOrdered

\* The worker's other steps pass copies on.
LEMMA CopiesPassedOn ==
  ASSUME RecoveryInv, WorkerNext, UNCHANGED recoveryVars, db' = db
  PROVE  Copies' \subseteq Copies
<1>0. WorkerTypeOK
  BY DEF RecoveryInv, RecoveryTypeOK
<1>1. CASE \/ loop' = loop
           \/ loop'.phase = "read"
           \/ loop.phase # "read" /\ loop'.snapshot = loop.snapshot
           \/ loop'.snapshot = db
  <2>1. CASE network' \subseteq network /\ UNCHANGED routers
    BY <1>1, <2>1 DEF Copies, Entry, recoveryVars
  <2>2. CASE SendPost
    <3>1. /\ loop.phase # "read"
          /\ \A post \in network' :
                post \in network \/ post.snapshot = loop.snapshot
          /\ UNCHANGED routers
      BY <2>2 DEF SendPost, LoopIn
    <3>2. QED
      BY <1>1, <3>1 DEF Copies, Entry, recoveryVars
  <2>3. ASSUME NEW post \in network, HandlePost(post)
        PROVE  Copies' \subseteq Copies
    <3>1. /\ network' \subseteq network
          /\ \A r \in Routers : Entry(r)' # None =>
                Entry(r)' = Entry(r) \/ Entry(r)'.snapshot = post.snapshot
      BY <1>0, <2>3, HandledPost, HandledEntry
    <3>2. QED
      BY <1>1, <2>3, <3>1 DEF Copies, recoveryVars
  <2>4. QED
    BY <2>1, <2>2, <2>3
    DEF WorkerNext, Administer, Reconcile, PublishTurn, Register, RegisterAgain,
        workerVars, ReadSnapshot, ReconcileRecord, ReconcileFails, EndPost,
        LosePost, UnitDies, DaemonStops, DaemonStarts
<1>2. CASE /\ loop' # loop
           /\ loop'.phase # "read"
  <2>1. \/ loop' = [loop EXCEPT !.phase = "reconcile", !.snapshot = db,
                                !.todo = RecordIds(db)]
        \/ loop.phase # "read" /\ \E i \in Ids : loop' = [loop EXCEPT !.todo = @ \ {i}]
        \/ loop.phase # "read" /\ loop' = [loop EXCEPT !.phase = "await"]
    BY <1>2, NextTurnReads
    DEF WorkerNext, Administer, Reconcile, PublishTurn, Register, RegisterAgain,
        workerVars, ReadSnapshot, ReconcileRecord, ReconcileFails, EndPost,
        SendPost, HandlePost, LosePost, UnitDies, DaemonStops, DaemonStarts, LoopIn
  <2>2. loop \in Loop
    BY <1>0 DEF WorkerTypeOK
  <2>3. CASE loop' = [loop EXCEPT !.phase = "reconcile", !.snapshot = db,
                                  !.todo = RecordIds(db)]
    <3>1. loop'.snapshot = db
      BY <2>2, <2>3 DEF Loop
    <3>2. QED
      BY <1>1, <3>1
  <2>4. ASSUME loop.phase # "read", NEW i \in Ids,
               loop' = [loop EXCEPT !.todo = @ \ {i}]
        PROVE  Copies' \subseteq Copies
    <3>1. loop'.snapshot = loop.snapshot
      BY <2>2, <2>4 DEF Loop
    <3>2. QED
      BY <1>1, <2>4, <3>1
  <2>5. CASE loop.phase # "read" /\ loop' = [loop EXCEPT !.phase = "await"]
    <3>1. loop'.snapshot = loop.snapshot
      BY <2>2, <2>5 DEF Loop
    <3>2. QED
      BY <1>1, <2>5, <3>1
  <2>6. QED
    BY <2>1, <2>3, <2>4, <2>5
<1>3. QED
  BY <1>1, <1>2

\* A routing node that is fenced or has the result takes no post.
LEMMA RouterStands ==
  ASSUME RecoveryInv, WorkerNext, NEW r \in Routers, NEW op \in Operations,
         Fenced(r, op) \/ Installed(r, op)
  PROVE  routers'[r] = routers[r]
<1>1. WorkerTypeOK
  BY DEF RecoveryInv, RecoveryTypeOK
<1>2. ASSUME NEW post \in network, HandlePost(post), routers'[r] # routers[r]
      PROVE  FALSE
  <2>1. CanCommit(routers[r], Self, post.snapshot)
    BY <1>1, <1>2, HandledPost
  <2>2. Entry(r) # None
    BY DEF Fenced, Installed
  <2>3. /\ Entry(r).frozen_by = None
        /\ post.snapshot.incarnation = Entry(r).snapshot.incarnation
    BY <2>1, <2>2 DEF CanCommit, CanAccept, Continues, Entry
  <2>4. ~Fenced(r, op)
    BY <2>3, NoneAssumption DEF Fenced
  <2>5. post.snapshot.incarnation < Entry(r).snapshot.incarnation
    BY <2>4 DEF Installed
  <2>6. post.snapshot.incarnation \in Nat
    BY <1>1, MaxU64Assumption DEF WorkerTypeOK, Post, Snapshot, U64
  <2>7. QED
    BY <2>3, <2>5, <2>6
<1>3. CASE UNCHANGED routers
  BY <1>3
<1>4. QED
  BY <1>2, <1>3
  DEF WorkerNext, Administer, Reconcile, PublishTurn, Register, RegisterAgain,
      workerVars, ReadSnapshot, ReconcileRecord, ReconcileFails, SendPost,
      EndPost, LosePost, UnitDies, DaemonStops, DaemonStarts

\* A post that is handled leaves every routing node with what it would accept.
LEMMA HandledFits ==
  ASSUME WorkerTypeOK, EntriesFit, NEW post \in network, HandlePost(post)
  PROVE  EntriesFit'
<1> DEFINE q == post.router
           s == routers[q]
           t == Uncounted(Accepted(s, Self, post.snapshot))
<1>1. /\ q \in Routers /\ s \in State /\ post.snapshot \in Snapshot
      /\ routers \in [Routers -> State]
  BY DEF WorkerTypeOK, Post
<1>2. CASE post.token = Credential(s, Self) /\ CanCommit(s, Self, post.snapshot)
  <2>1. EntryFits(t)
    BY <1>1, <1>2, FitsHandled DEF EntriesFit
  <2>2. routers' = [routers EXCEPT ![q] = t]
    BY <1>2 DEF HandlePost
  <2> HIDE DEF t
  <2>3. \A r \in Routers : EntryFits(routers'[r])
    BY <1>1, <2>1, <2>2 DEF EntriesFit
  <2>4. QED
    BY <2>3 DEF EntriesFit
<1>3. CASE ~(post.token = Credential(s, Self) /\ CanCommit(s, Self, post.snapshot))
  <2>1. routers' = routers
    BY <1>3 DEF HandlePost
  <2>2. QED
    BY <2>1 DEF EntriesFit
<1>4. QED
  BY <1>2, <1>3

\* A step of the daemon, of a unit, of a routing node or of the network.
LEMMA WorkerKeepsHistory ==
  ASSUME RecoveryInv, HistoryInv, WorkerStep
  PROVE  HistoryInv'
<1>0. /\ WorkerTypeOK /\ WorkerNext /\ UNCHANGED recoveryVars
      /\ UNCHANGED <<backup, journal, command>>
  BY DEF RecoveryInv, RecoveryTypeOK, WorkerStep, recoveryVars
<1>1. guard' = guard /\ (guard # None => db' = db)
  BY <1>0
  DEF WorkerNext, Administer, Reconcile, PublishTurn, Register, RegisterAgain,
      workerVars, ReadSnapshot, ReconcileRecord, ReconcileFails, SendPost,
      EndPost, HandlePost, LosePost, UnitDies, DaemonStops, DaemonStarts
<1>2. \A op : Journalled(op)' <=> Journalled(op)
  BY <1>0 DEF Journalled
<1>3. HistoryOrdered' /\ db'.incarnation = db.incarnation
  <2>1. CASE \E name \in Names, request \in Request : Register(name, request)
    BY <1>0, <2>1, RegisterKeepsOrder DEF HistoryInv
  <2>2. CASE db' = db
    <3>1. Copies' \subseteq Copies
      BY <1>0, <2>2, CopiesPassedOn
    <3>2. \A r \in Routers : IncarnationAt(r)' = IncarnationAt(r)
      BY <1>0, RoutersStand
    <3>3. CASE guard = None \/ ~Journalled(guard)
      BY <1>1, <2>2, <3>1, <3>2, <3>3, OrderStays DEF HistoryInv
    <3>4. CASE ~(guard = None \/ ~Journalled(guard))
      BY <1>1, <1>2, <2>2, <3>4 DEF HistoryOrdered
    <3>5. QED
      BY <3>3, <3>4
  <2>3. QED
    BY <1>0, <2>1, <2>2
    DEF WorkerNext, Administer, Reconcile, PublishTurn, RegisterAgain, workerVars,
        ReadSnapshot, ReconcileRecord, ReconcileFails, SendPost, EndPost,
        HandlePost, LosePost, UnitDies, DaemonStops, DaemonStarts
<1>4. EntriesFit'
  <2>1. CASE \E post \in network : HandlePost(post)
    BY <1>0, <2>1, HandledFits DEF HistoryInv
  <2>2. CASE UNCHANGED routers
    BY <2>2 DEF HistoryInv, EntriesFit
  <2>3. QED
    BY <1>0, <2>1, <2>2
    DEF WorkerNext, Administer, Reconcile, PublishTurn, Register, RegisterAgain,
        workerVars, ReadSnapshot, ReconcileRecord, ReconcileFails, SendPost,
        EndPost, LosePost, UnitDies, DaemonStops, DaemonStarts
<1>5. MergedKnown'
  <2> SUFFICES ASSUME DoStep("collect") \/ DoStep("prepare")
               PROVE  MergedKnown'
    BY <1>0 DEF MergedKnown, DoStep
  <2>1. /\ command # None /\ guard # None
        /\ \A r \in Routers : Fenced(r, command.operation)
    BY CommandAtWork DEF DoStep, RecoveryInv, CommandSound
  <2>2. \A r \in Routers : Entry(r)' = Entry(r)
    BY <1>0, <2>1, CommandAtWork, RouterStands DEF Entry
  <2>3. Unrecorded' = Unrecorded /\ Entry(1)' = Entry(1) /\ Entry(2)' = Entry(2)
    BY <1>1, <2>1, <2>2 DEF Unrecorded, Routers
  <2>4. QED
    BY <1>0, <2>3 DEF HistoryInv, MergedKnown, DoStep
<1>6. BackupKnown'
  BY <1>0, <1>1, <1>2, <1>3 DEF HistoryInv, BackupKnown
<1>7. ResultAcceptable'
  <2> SUFFICES ASSUME NEW op \in Operations, guard = op,
                      Journalled(op), NEW r \in Routers
               PROVE  CanRecover(routers'[r], Self, op, journal[op].snapshot,
                                 FreshCredential[op])
    BY <1>0, <1>1 DEF ResultAcceptable, Journalled
  <2>1. guard # None
    BY NoneAssumption
  <2>2. Fenced(r, op) \/ Installed(r, op)
    BY <2>1 DEF RecoveryInv, GuardSound
  <2>3. routers'[r] = routers[r]
    BY <1>0, <2>2, RouterStands
  <2>4. QED
    BY <2>3 DEF HistoryInv, ResultAcceptable, Journalled
<1>8. QED
  BY <1>3, <1>4, <1>5, <1>6, <1>7 DEF HistoryInv

-----------------------------------------------------------------------------
(***************************************************************************)
(* The steps of the operator, and the death of the command.                *)
(***************************************************************************)

\* A backup is a copy.
LEMMA TakeBackupKeepsHistory ==
  ASSUME RecoveryInv, HistoryInv, TakeBackup
  PROVE  HistoryInv'
<1>1. /\ UNCHANGED <<workerVars, journal, command>>
      /\ backup' = [db |-> db, operations |-> operations]
      /\ guard = None
  BY DEF TakeBackup
<1>2. UNCHANGED <<guard, db, loop, network, routers>>
  BY <1>1 DEF workerVars
<1>3. HistoryOrdered'
  <2>1. Copies' \subseteq Copies
    BY <1>1, <1>2 DEF Copies, Entry
  <2>2. \A r \in Routers : IncarnationAt(r)' = IncarnationAt(r)
    BY <1>2 DEF IncarnationAt, Entry
  <2>3. QED
    BY <1>1, <1>2, <2>1, <2>2, OrderStays DEF HistoryInv
<1>4. EntriesFit' /\ MergedKnown'
  BY <1>1, <1>2
  DEF HistoryInv, EntriesFit, MergedKnown, Unrecorded, DoStep, Entry
<1>5. BackupKnown'
  <2>1. db.incarnation \in Nat
    BY MaxU64Assumption
    DEF RecoveryInv, RecoveryTypeOK, WorkerTypeOK, Snapshot, U64
  <2>2. QED
    BY <1>1, <1>2, <2>1 DEF BackupKnown
<1>6. ResultAcceptable'
  BY <1>1, <1>2, NoneAssumption DEF ResultAcceptable
<1>7. QED
  BY <1>3, <1>4, <1>5, <1>6 DEF HistoryInv

\* The restored database is one of the copies of the present incarnation.
LEMMA RestoreKeepsHistory ==
  ASSUME RecoveryInv, HistoryInv, ~StaleBackup, NEW op \in Operations, Restore(op)
  PROVE  HistoryInv'
<1>1. /\ UNCHANGED <<loop, network, routers, recoveryVars>>
      /\ command = None /\ guard = None /\ backup # None /\ journal[op] = None
      /\ backup.db.incarnation = db.incarnation
      /\ guard' = op /\ db' = backup.db
      /\ guard' # None
  BY NoneAssumption DEF Restore
<1>2. UNCHANGED <<backup, journal, command>>
  BY <1>1 DEF recoveryVars
<1>3. HistoryOrdered'
  <2>1. Copies' \subseteq Copies
    BY <1>1, <1>2 DEF Copies, Entry
  <2>2. \A r \in Routers : IncarnationAt(r)' = IncarnationAt(r)
    BY <1>1 DEF IncarnationAt, Entry
  <2>3. QED
    BY <1>1, <2>1, <2>2, OrderStays DEF HistoryInv
<1>4. EntriesFit' /\ MergedKnown'
  BY <1>1, <1>2 DEF HistoryInv, EntriesFit, MergedKnown, DoStep
<1>5. ~Journalled(op)'
  BY <1>1, <1>2 DEF Journalled
<1>6. BackupKnown'
  <2>1. backup.db.incarnation \in Nat
    BY <1>1, MaxU64Assumption DEF RecoveryInv, RecoveryTypeOK, Snapshot, U64
  <2>2. QED
    BY <1>1, <1>2, <1>5, <2>1 DEF BackupKnown
<1>7. ResultAcceptable'
  BY <1>1, <1>5 DEF ResultAcceptable, Journalled
<1>8. QED
  BY <1>3, <1>4, <1>6, <1>7 DEF HistoryInv

\* The command begins before the merge or behind it.
LEMMA RunCommandKeepsHistory ==
  ASSUME RecoveryInv, HistoryInv, ~RerunComplete,
         NEW op \in Operations, RunCommand(op)
  PROVE  HistoryInv'
<1>1. /\ UNCHANGED <<db, loop, network, routers, backup>>
      /\ guard = op /\ guard' = op /\ guard # None
  BY NoneAssumption DEF RunCommand
<1>2. ~DoStep("collect")' /\ ~DoStep("prepare")'
  BY DEF RunCommand, DoStep
<1>3. /\ Journalled(op)' => Journalled(op)
      /\ Journalled(op) => journal' = journal
  <2>1. CASE journal[op] = None
    <3>1. journal' = [journal EXCEPT ![op] = [snapshot |-> None, complete |-> FALSE]]
      BY <2>1 DEF RunCommand
    <3>2. journal'[op].snapshot = None
      BY <3>1 DEF RecoveryInv, RecoveryTypeOK
    <3>3. QED
      BY <2>1, <3>2 DEF Journalled
  <2>2. CASE journal[op] # None
    BY <2>2 DEF RunCommand, Journalled
  <2>3. QED
    BY <2>1, <2>2
<1>4. HistoryOrdered'
  <2>1. Copies' \subseteq Copies
    BY <1>1 DEF Copies, Entry
  <2>2. \A r \in Routers : IncarnationAt(r)' = IncarnationAt(r)
    BY <1>1 DEF IncarnationAt, Entry
  <2>3. CASE Journalled(op)
    BY <1>1, <1>3, <2>3 DEF HistoryOrdered, Journalled
  <2>4. CASE ~Journalled(op)
    BY <1>1, <2>1, <2>2, <2>4, OrderStays DEF HistoryInv
  <2>5. QED
    BY <2>3, <2>4
<1>5. EntriesFit' /\ MergedKnown'
  BY <1>1, <1>2 DEF HistoryInv, EntriesFit, MergedKnown
<1>6. BackupKnown'
  <2>1. Journalled(op)' => Journalled(op) /\ journal' = journal
    BY <1>3
  <2>2. QED
    BY <1>1, <2>1 DEF HistoryInv, BackupKnown
<1>7. ResultAcceptable'
  BY <1>1, <1>3 DEF HistoryInv, ResultAcceptable, Journalled
<1>8. QED
  BY <1>4, <1>5, <1>6, <1>7 DEF HistoryInv

\* A command that dies leaves all that is durable.
LEMMA CommandDiesKeepsHistory ==
  ASSUME RecoveryInv, HistoryInv, CommandDies
  PROVE  HistoryInv'
<1>1. UNCHANGED <<workerVars, backup, journal>> /\ command' = None
  BY DEF CommandDies
<1>2. UNCHANGED <<guard, db, loop, network, routers>>
  BY <1>1 DEF workerVars
<1>3. HistoryOrdered'
  BY <1>1, <1>2
  DEF HistoryInv, HistoryOrdered, Journalled, Current, Copies, IncarnationAt, Entry
<1>4. EntriesFit' /\ MergedKnown' /\ BackupKnown' /\ ResultAcceptable'
  BY <1>1, <1>2
  DEF HistoryInv, EntriesFit, MergedKnown, DoStep, BackupKnown, ResultAcceptable,
      Journalled
<1>5. QED
  BY <1>3, <1>4 DEF HistoryInv

-----------------------------------------------------------------------------
(***************************************************************************)
(* The steps of the command.                                               *)
(***************************************************************************)

\* A freeze call, the first or the second at a routing node.
LEMMA FreezeKeepsHistory ==
  ASSUME RecoveryInv, HistoryInv, NEW r \in Routers, NEW op \in Operations,
         guard = op, ~Journalled(op), CanFreeze(routers[r], Self, op),
         SetRouter(r, Frozen(routers[r], Self, op)),
         UNCHANGED <<guard, db, loop, network, backup, journal>>
  PROVE  /\ \A q \in Routers :
               /\ Entry(q)' = None <=> Entry(q) = None
               /\ Entry(q) # None => Entry(q)'.snapshot = Entry(q).snapshot
         /\ HistoryOrdered' /\ EntriesFit' /\ BackupKnown' /\ ResultAcceptable'
<1> DEFINE t == Uncounted(Frozen(routers[r], Self, op))
<1>1. routers \in [Routers -> State]
  BY DEF RecoveryInv, RecoveryTypeOK, WorkerTypeOK
<1>2. routers' = [routers EXCEPT ![r] = t]
  BY DEF SetRouter
<1>3. /\ Entry(r) # None
      /\ t.owners[Self] # None
      /\ t.owners[Self].snapshot = Entry(r).snapshot
  BY <1>1, FrozenEntry DEF Entry
<1>4. EntryFits(t)
  BY <1>1, FitsFrozen DEF HistoryInv, EntriesFit
<1> HIDE DEF t
<1>5. /\ routers'[r] = t
      /\ \A q \in Routers : q # r => routers'[q] = routers[q]
  BY <1>1, <1>2
<1>6. \A q \in Routers :
         /\ Entry(q)' = None <=> Entry(q) = None
         /\ Entry(q) # None => Entry(q)'.snapshot = Entry(q).snapshot
  BY <1>3, <1>5 DEF Entry
<1>7. HistoryOrdered'
  <2>1. Copies' \subseteq Copies
    BY <1>6 DEF Copies
  <2>2. \A q \in Routers : IncarnationAt(q)' = IncarnationAt(q)
    BY <1>6 DEF IncarnationAt
  <2>3. guard # None
    BY NoneAssumption
  <2>4. QED
    BY <2>1, <2>2, <2>3, OrderStays DEF HistoryInv
<1>8. EntriesFit'
  BY <1>4, <1>5 DEF HistoryInv, EntriesFit
<1>9. BackupKnown' /\ ResultAcceptable'
  BY DEF HistoryInv, BackupKnown, ResultAcceptable, Journalled
<1>10. QED
  BY <1>6, <1>7, <1>8, <1>9

\* The first two freeze calls.
LEMMA FreezeRouterKeepsHistory ==
  ASSUME RecoveryInv, HistoryInv, FreezeRouter
  PROVE  HistoryInv'
<1>0. PICK op \in Operations, r \in Routers :
          op = command.operation /\ r = command.router
  BY CommandAtWork DEF FreezeRouter, DoStep
<1>1. /\ command # None /\ command.step = "freeze"
      /\ CanFreeze(routers[r], Self, op)
      /\ SetRouter(r, Frozen(routers[r], Self, op))
      /\ UNCHANGED <<guard, db, loop, network, backup, journal>>
  BY <1>0 DEF FreezeRouter, DoStep
<1>2. command \in Command /\ guard = op /\ db \in Snapshot
  BY <1>0, <1>1, CommandAtWork DEF WorkerTypeOK
<1>3. ~Journalled(op)
  BY <1>0, <1>1 DEF RecoveryInv, CommandSound
<1>4. HistoryOrdered' /\ EntriesFit' /\ BackupKnown' /\ ResultAcceptable'
  BY <1>1, <1>2, <1>3, FreezeKeepsHistory
<1>5. MergedKnown'
  <2>1. CASE r = 1
    <3>1. Goto("freeze", 2, None)
      BY <1>0, <2>1 DEF FreezeRouter
    <3>2. command'.step = "freeze"
      BY <1>2, <3>1, GotoLeads DEF Step, Routers
    <3>3. QED
      BY <3>2 DEF MergedKnown, DoStep
  <2>2. CASE r = 2
    <3>1. Goto("collect", 1, Unrecorded)
      BY <1>0, <2>2 DEF FreezeRouter, Unrecorded
    <3>2. Unrecorded \in Snapshot
      BY <1>2 DEF Unrecorded, Snapshot
    <3>3. /\ command'.step = "collect" /\ command'.router = 1
          /\ command'.merged = Unrecorded
      BY <1>2, <3>1, <3>2, GotoLeads DEF Step, Routers
    <3>4. Unrecorded' = Unrecorded
      BY <1>1 DEF Unrecorded
    <3>5. QED
      BY <3>3, <3>4 DEF MergedKnown, DoStep
  <2>3. QED
    BY <2>1, <2>2 DEF Routers
<1>6. QED
  BY <1>4, <1>5 DEF HistoryInv

\* The second freeze call at each routing node, and the merge.
LEMMA CollectRouterKeepsHistory ==
  ASSUME RecoveryInv, HistoryInv, CollectRouter
  PROVE  HistoryInv'
<1>0. PICK op \in Operations, r \in Routers :
          op = command.operation /\ r = command.router
  BY CommandAtWork DEF CollectRouter, DoStep
<1> DEFINE next == IF r = 1 THEN "collect" ELSE "prepare"
           both == Merge(command.merged, Entry(r).snapshot)
<1>1. /\ command # None /\ command.step = "collect"
      /\ CanFreeze(routers[r], Self, op)
      /\ SetRouter(r, Frozen(routers[r], Self, op))
      /\ Goto(next, 2, both)
      /\ UNCHANGED <<guard, db, loop, network, backup, journal>>
  BY <1>0 DEF CollectRouter, DoStep, Entry
<1>2. command \in Command /\ guard = op /\ WorkerTypeOK
  BY <1>0, <1>1, CommandAtWork
<1>3. /\ ~Journalled(op) /\ command.merged \in Snapshot
      /\ \A q \in Routers : Fenced(q, op)
  BY <1>0, <1>1 DEF RecoveryInv, CommandSound
<1>4. /\ HistoryOrdered' /\ EntriesFit' /\ BackupKnown' /\ ResultAcceptable'
      /\ \A q \in Routers :
            Entry(q) # None => Entry(q)'.snapshot = Entry(q).snapshot
  BY <1>1, <1>2, <1>3, FreezeKeepsHistory
<1>5. /\ Entry(1)'.snapshot = Entry(1).snapshot
      /\ Entry(2)'.snapshot = Entry(2).snapshot
  BY <1>3, <1>4 DEF Fenced, Routers
<1>6. both \in Snapshot
  BY <1>2, <1>3, EntryIsOwner, MergeIsSnapshot DEF Fenced
<1>7. command'.step = next /\ command'.router = 2 /\ command'.merged = both
  <2>1. next \in Step /\ 2 \in Routers
    BY DEF Step, Routers
  <2> HIDE DEF next, both
  <2>2. QED
    BY <1>1, <1>2, <1>6, <2>1, GotoLeads
<1>8. Unrecorded' = Unrecorded
  BY <1>1 DEF Unrecorded
<1>9. MergedKnown'
  <2>1. CASE r = 1
    <3>1. command.merged = Unrecorded
      BY <1>0, <1>1, <2>1 DEF HistoryInv, MergedKnown, DoStep
    <3>2. /\ command'.step = "collect" /\ command'.router = 2
          /\ command'.merged = Merge(Unrecorded, Entry(1).snapshot)
      BY <1>7, <2>1, <3>1
    <3>3. QED
      BY <1>5, <1>8, <3>2 DEF MergedKnown, DoStep
  <2>2. CASE r = 2
    <3>1. command.merged = Merge(Unrecorded, Entry(1).snapshot)
      BY <1>0, <1>1, <2>2 DEF HistoryInv, MergedKnown, DoStep
    <3>2. /\ command'.step = "prepare"
          /\ command'.merged =
                Merge(Merge(Unrecorded, Entry(1).snapshot), Entry(2).snapshot)
      BY <1>7, <2>2, <3>1
    <3>3. QED
      BY <1>5, <1>8, <3>2 DEF MergedKnown, DoStep
  <2>3. QED
    BY <2>1, <2>2 DEF Routers
<1>10. QED
  BY <1>4, <1>9 DEF HistoryInv

\* The result continues what both routing nodes hold: of two copies of one
\* history the merge takes the later, and what the restored database adds to it
\* is newer or was there.
LEMMA PreparedAcceptable ==
  ASSUME RecoveryInv, HistoryInv, Prepare, NEW r \in Routers
  PROVE  LET op == command.operation
             next == Prepared(command.merged) IN
         /\ CanRecover(routers[r], Self, op, next, FreshCredential[op])
         /\ next.incarnation = db.incarnation + 1
<1>0. PICK op \in Operations : op = command.operation
  BY CommandAtWork DEF Prepare, DoStep
<1>1. /\ DoStep("prepare") /\ command # None /\ command.step = "prepare"
      /\ command.merged.incarnation < MaxI64
      /\ command.merged.revision < MaxI64
  BY DEF Prepare, DoStep
<1>2. guard = op /\ guard # None /\ WorkerTypeOK /\ RecoveryTypeOK
  BY <1>0, <1>1, CommandAtWork DEF RecoveryInv
<1>3. ~Journalled(op) /\ \A q \in Routers : Fenced(q, op)
  BY <1>0, <1>1 DEF RecoveryInv, CommandSound
<1> DEFINE a == Entry(1).snapshot
           b == Entry(2).snapshot
           merged == Merge(Merge(Unrecorded, a), b)
           next == Prepared(merged)
<1>4. command.merged = merged
  BY <1>1 DEF HistoryInv, MergedKnown
<1>5. /\ 1 \in Routers /\ 2 \in Routers
      /\ Entry(1) # None /\ Entry(2) # None
      /\ a \in Snapshot /\ b \in Snapshot
  BY <1>2, <1>3, EntryIsOwner DEF Fenced, Routers
<1>6. /\ db \in Snapshot /\ Unrecorded \in Snapshot
      /\ Unrecorded.incarnation = db.incarnation
      /\ Unrecorded.revision = db.revision
      /\ \A i \in Ids : Unrecorded.records[i] = None
  BY <1>2 DEF WorkerTypeOK, Unrecorded, Snapshot
<1>7. a \in Current /\ b \in Current /\ db \in Current
  <2>1. a \in Copies /\ b \in Copies /\ db \in Copies
    BY <1>5 DEF Copies
  <2>2. a.incarnation = db.incarnation /\ b.incarnation = db.incarnation
    BY <1>2, <1>3, <1>5 DEF HistoryInv, HistoryOrdered, IncarnationAt
  <2>3. QED
    BY <2>1, <2>2 DEF Current
<1>8. \A x, y \in Current : Precedes(x, y) \/ Precedes(y, x)
  BY <1>2, <1>3 DEF HistoryInv, HistoryOrdered
<1>9. /\ merged \in Snapshot
      /\ merged.incarnation = db.incarnation
      /\ merged.revision >= db.revision
      /\ merged.revision >= a.revision
      /\ merged.revision >= b.revision
      /\ \E top \in {a, b} :
            /\ Precedes(a, top) /\ Precedes(b, top)
            /\ \A i \in Ids : merged.records[i] = top.records[i]
  BY <1>5, <1>6, <1>7, <1>8, MergedIsLater DEF Current
<1> HIDE DEF merged
<1>10. PICK q \in Routers :
           /\ Precedes(a, Entry(q).snapshot) /\ Precedes(b, Entry(q).snapshot)
           /\ \A i \in Ids : merged.records[i] = Entry(q).snapshot.records[i]
  BY <1>5, <1>9
<1> DEFINE top == Entry(q).snapshot
           old == Entry(r).snapshot
<1>11. /\ Entry(q) # None /\ Entry(r) # None
       /\ top \in Snapshot /\ old \in Snapshot
       /\ top \in Current /\ old \in Current
       /\ merged.revision >= top.revision
       /\ Precedes(old, top)
  <2>1. q \in {1, 2} /\ r \in {1, 2}
    BY DEF Routers
  <2>2. q = 1 \/ q = 2
    BY <2>1
  <2>3. r = 1 \/ r = 2
    BY <2>1
  <2>4. QED
    BY <1>5, <1>7, <1>9, <1>10, <2>2, <2>3
<1>12. RevisionsBounded(db) /\ RevisionsBounded(top)
  BY <1>11 DEF RecoveryInv, DatabasesBounded, EntriesSound
<1>13. Precedes(db, top) \/ Precedes(top, db)
  BY <1>7, <1>8, <1>11
<1> HIDE DEF next
<1>14. /\ next \in Snapshot
       /\ next.incarnation = merged.incarnation + 1
       /\ next.revision = merged.revision + 1
       /\ RecordIds(next) = RecordIds(top)
       /\ \A i \in RecordIds(top) :
             /\ RecordAdmissible(top.records[i], next.records[i])
             /\ next.records[i].revision <= merged.revision
  BY <1>1, <1>2, <1>4, <1>9, <1>10, <1>11, <1>12, <1>13, PreparedContinues
  DEF next
<1>15. /\ merged.revision \in Nat /\ merged.incarnation \in Nat
       /\ top.revision \in Nat
       /\ \A i \in RecordIds(top) : next.records[i].revision \in Nat
  <2>1. \A i \in RecordIds(next) : next.records[i] \in Record
    BY <1>14 DEF RecordIds, Snapshot
  <2>2. \A i \in RecordIds(top) : next.records[i].revision \in Nat
    BY <1>14, <2>1, MaxU64Assumption DEF Record, U64
  <2>3. QED
    BY <1>9, <1>11, <2>2, MaxU64Assumption DEF Snapshot, U64
<1>16. /\ next.incarnation = db.incarnation + 1
       /\ next.incarnation > old.incarnation
       /\ next.revision > top.revision
       /\ \A i \in RecordIds(top) : next.records[i].revision <= next.revision
  <2>1. old.incarnation = db.incarnation
    BY <1>11 DEF Current
  <2>2. next.incarnation = db.incarnation + 1 /\ next.incarnation > old.incarnation
    BY <1>9, <1>14, <1>15, <2>1
  <2>3. next.revision > top.revision
    BY <1>11, <1>14, <1>15
  <2>4. \A i \in RecordIds(top) : next.records[i].revision <= next.revision
    BY <1>14, <1>15
  <2>5. QED
    BY <2>2, <2>3, <2>4
<1>17. /\ EntryFits(routers[q]) /\ EntryFits(routers[r])
       /\ routers[q] \in State /\ routers[r] \in State
  BY <1>2 DEF HistoryInv, EntriesFit, WorkerTypeOK
<1>18. CanRecover(routers[r], Self, op, next, FreshCredential[op])
  <2>1. /\ routers[r].generation = 0
        /\ \A o \in Owners \ {Self} : routers[r].owners[o] = routers[q].owners[o]
        /\ Cardinality(RecordIds(top)) <= RecordLimit
        /\ RecordsValid(routers[q], Self, top)
        /\ ReservedSize(routers[q]) <= ViewLimit
    BY <1>11, <1>17 DEF EntryFits, Entry
  <2>2. /\ routers[r].owners[Self] # None /\ routers[q].owners[Self] # None
        /\ routers[r].owners[Self].frozen_by = op
        /\ ~RecoveredBy(routers[r].owners[Self], op)
        /\ old = routers[r].owners[Self].snapshot
        /\ top = routers[q].owners[Self].snapshot
    BY <1>3, <1>11 DEF Fenced, Entry
  <2> HIDE DEF old, top
  <2>3. QED
    BY <1>11, <1>14, <1>16, <1>17, <2>1, <2>2, ResultFits
<1>19. QED
  BY <1>0, <1>4, <1>16, <1>18 DEF next

\* The result is journalled.
LEMMA PrepareKeepsHistory ==
  ASSUME RecoveryInv, HistoryInv, Prepare
  PROVE  HistoryInv'
<1>0. PICK op \in Operations : op = command.operation
  BY CommandAtWork DEF Prepare, DoStep
<1> DEFINE next == Prepared(command.merged)
<1>1. /\ command # None /\ command.step = "prepare"
      /\ command.merged.incarnation < MaxI64
      /\ command.merged.revision < MaxI64
      /\ journal' = [journal EXCEPT ![op].snapshot = next]
      /\ Goto("recover", 1, None)
      /\ UNCHANGED <<guard, db, loop, network, routers, backup>>
  BY <1>0 DEF Prepare, DoStep, workerVars
<1>2. /\ command \in Command /\ guard = op /\ guard # None
      /\ journal[op] \in Journal
      /\ journal \in [Operations -> Journal \cup {None}]
      /\ WorkerTypeOK
  BY <1>0, <1>1, CommandAtWork DEF RecoveryInv, RecoveryTypeOK
<1>3. next \in Snapshot
  <2>1. command.merged \in Snapshot
    BY <1>1 DEF RecoveryInv, CommandSound
  <2>2. QED
    BY <1>1, <2>1, PreparedIsSnapshot DEF RecoveryInv
<1>4. \A r \in Routers :
         /\ CanRecover(routers[r], Self, op, next, FreshCredential[op])
         /\ next.incarnation = db.incarnation + 1
  BY <1>0, PreparedAcceptable
<1> HIDE DEF next
<1>5. journal'[op].snapshot = next /\ Journalled(op)'
  <2>1. journal'[op] = [journal[op] EXCEPT !.snapshot = next]
    BY <1>1, <1>2
  <2>2. journal'[op] \in Journal /\ journal'[op].snapshot = next
    BY <1>2, <1>3, <2>1 DEF Journal
  <2>3. journal'[op] # None /\ next # None
    BY <1>3, <2>2, NoneJournalAssumption
  <2>4. QED
    BY <2>2, <2>3 DEF Journalled
<1>6. HistoryOrdered'
  BY <1>1, <1>2, <1>5 DEF HistoryOrdered
<1>7. EntriesFit'
  BY <1>1 DEF HistoryInv, EntriesFit
<1>8. MergedKnown'
  <2>1. command'.step = "recover"
    BY <1>1, <1>2, GotoLeads DEF Step, Routers
  <2>2. QED
    BY <2>1 DEF MergedKnown, DoStep
<1>9. BackupKnown'
  <2>1. next.incarnation = db.incarnation + 1
    BY <1>4 DEF Routers
  <2>2. db.incarnation \in Nat
    BY <1>2, MaxU64Assumption DEF WorkerTypeOK, Snapshot, U64
  <2>3. backup # None => backup.db.incarnation \in Nat
    BY MaxU64Assumption DEF RecoveryInv, RecoveryTypeOK, Snapshot, U64
  <2>4. backup # None => backup.db.incarnation <= db.incarnation
    BY DEF HistoryInv, BackupKnown
  <2>5. QED
    BY <1>1, <1>2, <1>5, <2>1, <2>2, <2>3, <2>4 DEF BackupKnown
<1>10. ResultAcceptable'
  BY <1>1, <1>2, <1>4, <1>5 DEF ResultAcceptable
<1>11. QED
  BY <1>6, <1>7, <1>8, <1>9, <1>10 DEF HistoryInv

\* A routing node that has the result takes it again, and the other still does.
LEMMA RecoverRouterKeepsHistory ==
  ASSUME RecoveryInv, HistoryInv, RecoverRouter
  PROVE  HistoryInv'
<1>0. PICK op \in Operations, r \in Routers :
          op = command.operation /\ r = command.router
  BY CommandAtWork DEF RecoverRouter, DoStep
<1> DEFINE next == journal[op].snapshot
           hash == FreshCredential[op]
           t == Uncounted(Recovered(routers[r], Self, op, next, hash))
<1>1. /\ command # None /\ command.step = "recover"
      /\ CanRecover(routers[r], Self, op, next, hash)
      /\ SetRouter(r, Recovered(routers[r], Self, op, next, hash))
      /\ Goto(IF r = 1 THEN "recover" ELSE "update", 2, None)
      /\ UNCHANGED <<guard, db, loop, network, backup, journal>>
  BY <1>0 DEF RecoverRouter, DoStep
<1>2. /\ command \in Command /\ guard = op /\ guard # None
      /\ journal[op] \in Journal
      /\ routers \in [Routers -> State]
      /\ hash \in Credentials
  BY <1>0, <1>1, CommandAtWork, RecoveryAssumption DEF WorkerTypeOK
<1>3. Journalled(op)
  BY <1>0, <1>1 DEF RecoveryInv, CommandSound
<1>4. next \in Snapshot
  BY <1>2, <1>3 DEF Journalled, Journal
<1>5. /\ routers'[r] = t
      /\ \A q \in Routers : q # r => routers'[q] = routers[q]
  BY <1>1, <1>2 DEF SetRouter
<1>6. HistoryOrdered'
  BY <1>1, <1>2, <1>3 DEF HistoryOrdered, Journalled
<1>7. EntriesFit'
  <2>1. EntryFits(t)
    BY <1>1, <1>2, <1>4, FitsRecovered DEF HistoryInv, EntriesFit
  <2> HIDE DEF t
  <2>2. \A q \in Routers : EntryFits(routers'[q])
    BY <1>5, <2>1 DEF HistoryInv, EntriesFit
  <2>3. QED
    BY <2>2 DEF EntriesFit
<1>8. MergedKnown'
  <2>1. command'.step \in {"recover", "update"}
    BY <1>1, <1>2, GotoLeads DEF Step, Routers
  <2>2. QED
    BY <2>1 DEF MergedKnown, DoStep
<1>9. BackupKnown'
  BY <1>1 DEF HistoryInv, BackupKnown, Journalled
<1>10. CanRecover(t, Self, op, next, hash)
  <2> DEFINE s == routers[r]
             u == Recovered(s, Self, op, next, hash)
  <2>1. u \in State /\ Self \in Owners
    BY <1>1, <1>2, <1>4, RecoveredKeeps, WorkerAssumption
  <2>2. t.owners = u.owners
    BY <2>1, UncountedSame
  <2>3. CASE RecoveredBy(s.owners[Self], op)
    <3>1. u = s
      BY <2>3 DEF Recovered
    <3> HIDE DEF u, t
    <3>2. QED
      BY <1>1, <2>2, <2>3, <3>1 DEF CanRecover
  <2>4. CASE ~RecoveredBy(s.owners[Self], op)
    <3> DEFINE result == [operation |-> op, digest |-> Digest(op, next, hash)]
               accepted == Accepted(Rebased(s, Self, next.incarnation), Self, next)
    <3>1. /\ Rebased(s, Self, next.incarnation) \in State
          /\ CanAccept(Rebased(s, Self, next.incarnation), Self, next)
      BY <1>1, <1>2, <1>4, <2>1, <2>4, RebasedKeeps DEF CanRecover, Snapshot
    <3>2. accepted \in State /\ accepted.owners[Self] \in Owner
      BY <1>4, <2>1, <3>1, AcceptedIsState
    <3>3. u.owners = [accepted.owners EXCEPT ![Self] =
                        [@ EXCEPT !.stale = TRUE, !.credential_hash = hash,
                                  !.recovery = result]]
      BY <2>4 DEF Recovered
    <3>4. result \in Recovery /\ result # None
      <4>1. result \in Recovery
        BY <1>2, <1>4 DEF Recovery, Digest
      <4>2. QED
        BY <4>1, NoneOwnerAssumption
    <3>5. result.operation = op /\ result.digest = Digest(op, next, hash)
      OBVIOUS
    <3> HIDE DEF accepted, result, u
    <3>6. /\ u.owners[Self] \in Owner
          /\ u.owners[Self].recovery = result
      <4>1. u.owners[Self] = [accepted.owners[Self] EXCEPT !.stale = TRUE,
                                !.credential_hash = hash, !.recovery = result]
        BY <2>1, <3>2, <3>3 DEF State
      <4> HIDE DEF hash, next
      <4>2. QED
        BY <1>2, <3>2, <3>4, <4>1 DEF Owner
    <3>7. u.owners[Self] # None
      BY <3>6, NoneOwnerAssumption
    <3>8. RecoveredBy(u.owners[Self], op)
      BY <3>4, <3>5, <3>6 DEF RecoveredBy
    <3> HIDE DEF t
    <3>9. QED
      BY <2>2, <3>5, <3>6, <3>7, <3>8 DEF CanRecover
  <2>5. QED
    BY <2>3, <2>4
<1>11. ResultAcceptable'
  <2>1. \A q \in Routers : CanRecover(routers[q], Self, op, next, hash)
    BY <1>2, <1>3 DEF HistoryInv, ResultAcceptable, Journalled
  <2> HIDE DEF t
  <2>2. \A q \in Routers : CanRecover(routers'[q], Self, op, next, hash)
    BY <1>5, <1>10, <2>1
  <2>3. QED
    BY <1>1, <1>2, <2>2 DEF ResultAcceptable
<1>12. QED
  BY <1>6, <1>7, <1>8, <1>9, <1>11 DEF HistoryInv

\* Behind the last routing node only the database moves, to the result.
LEMMA RewriteKeepsHistory ==
  ASSUME RecoveryInv, HistoryInv, UpdateDatabase \/ WriteConfig \/ MarkComplete
  PROVE  HistoryInv'
<1>0. PICK op \in Operations : op = command.operation
  BY CommandAtWork DEF UpdateDatabase, WriteConfig, MarkComplete, DoStep
<1>1. PICK next \in {"configure", "complete", "unguard"} : Goto(next, 2, None)
  BY DEF UpdateDatabase, WriteConfig, MarkComplete
<1>2. /\ command # None
      /\ command.step \in {"update", "configure", "complete"}
      /\ UNCHANGED <<guard, loop, network, routers, backup>>
  BY DEF UpdateDatabase, WriteConfig, MarkComplete, DoStep, workerVars
<1>3. /\ command \in Command
      /\ guard = op /\ guard # None
      /\ journal[op] \in Journal
      /\ journal \in [Operations -> Journal \cup {None}]
      /\ WorkerTypeOK
  BY <1>0, <1>2, CommandAtWork DEF RecoveryInv, RecoveryTypeOK
<1>4. /\ Journalled(op)
      /\ command.step # "update" => db = journal[op].snapshot
  BY <1>0, <1>2 DEF RecoveryInv, CommandSound
<1>5. db' = journal[op].snapshot
  BY <1>0, <1>4 DEF UpdateDatabase, WriteConfig, MarkComplete, DoStep, workerVars
<1>6. journal'[op].snapshot = journal[op].snapshot /\ Journalled(op)'
  <2>1. CASE MarkComplete
    <3> DEFINE new == [journal[op] EXCEPT !.complete = TRUE]
    <3>1. new \in Journal /\ new.snapshot = journal[op].snapshot
      BY <1>3 DEF Journal
    <3>2. new # None
      BY <3>1, NoneJournalAssumption
    <3>3. journal' = [journal EXCEPT ![op] = new]
      BY <1>0, <2>1 DEF MarkComplete
    <3> HIDE DEF new
    <3>4. QED
      BY <1>3, <1>4, <3>1, <3>2, <3>3 DEF Journalled
  <2>2. CASE journal' = journal
    BY <1>4, <2>2 DEF Journalled
  <2>3. QED
    BY <2>1, <2>2 DEF UpdateDatabase, WriteConfig, MarkComplete
<1>7. HistoryOrdered'
  BY <1>2, <1>3, <1>6 DEF HistoryOrdered
<1>8. EntriesFit'
  BY <1>2 DEF HistoryInv, EntriesFit
<1>9. MergedKnown'
  <2>1. command'.step = next
    BY <1>1, <1>3, GotoLeads DEF Step, Routers
  <2>2. QED
    BY <2>1 DEF MergedKnown, DoStep
<1>10. BackupKnown'
  <2>1. backup # None => backup.db.incarnation < journal[op].snapshot.incarnation
    BY <1>3, <1>4 DEF HistoryInv, BackupKnown
  <2>2. backup # None => backup.db.incarnation \in Nat
    BY MaxU64Assumption DEF RecoveryInv, RecoveryTypeOK, Snapshot, U64
  <2>3. journal[op].snapshot.incarnation \in Nat
    BY <1>3, <1>4, MaxU64Assumption DEF Journalled, Journal, Snapshot, U64
  <2>4. QED
    BY <1>2, <1>3, <1>5, <1>6, <2>1, <2>2, <2>3 DEF BackupKnown
<1>11. ResultAcceptable'
  BY <1>2, <1>3, <1>4, <1>6 DEF HistoryInv, ResultAcceptable, Journalled
<1>12. QED
  BY <1>7, <1>8, <1>9, <1>10, <1>11 DEF HistoryInv

\* When the guard goes, the result is the only copy of its incarnation.
LEMMA RemoveGuardKeepsHistory ==
  ASSUME RecoveryInv, HistoryInv, RemoveGuard
  PROVE  HistoryInv'
<1>0. PICK op \in Operations : op = command.operation
  BY CommandAtWork DEF RemoveGuard, DoStep
<1>1. /\ command # None /\ command.step = "unguard"
      /\ guard' = None /\ command' = None
      /\ UNCHANGED <<db, loop, network, routers, backup, journal>>
  BY DEF RemoveGuard, DoStep
<1>2. WorkerTypeOK /\ loop.phase = "read" /\ guard = op /\ guard # None
  BY <1>0, <1>1, CommandAtWork
<1>3. /\ db = journal[op].snapshot
      /\ Journalled(op)
      /\ \A r \in Routers : Installed(r, op)
  BY <1>0, <1>1 DEF RecoveryInv, CommandSound
<1>4. \A r \in Routers : Entry(r) # None /\ Entry(r).snapshot = db
  BY <1>3 DEF Installed
<1>5. db \in Snapshot /\ db.incarnation \in Nat
  BY <1>2, MaxU64Assumption DEF WorkerTypeOK, Snapshot, U64
<1>6. \A post \in network : post.snapshot.incarnation # db.incarnation
  <2>1. \A post \in network : post.snapshot.incarnation < db.incarnation
    BY <1>3, <1>4 DEF Installed, Routers
  <2>2. \A post \in network : post.snapshot.incarnation \in Nat
    BY <1>2, MaxU64Assumption DEF WorkerTypeOK, Post, Snapshot, U64
  <2>3. QED
    BY <1>5, <2>1, <2>2
<1>7. /\ backup # None => backup.db.incarnation < db.incarnation
      /\ backup # None => backup.db.incarnation \in Nat
  <2>1. backup # None => backup.db.incarnation < db.incarnation
    BY <1>2, <1>3 DEF HistoryInv, BackupKnown
  <2>2. QED
    BY <2>1, MaxU64Assumption DEF RecoveryInv, RecoveryTypeOK, Snapshot, U64
<1>8. HistoryOrdered'
  <2>1. \A x \in Copies : x.incarnation = db.incarnation => x = db
    BY <1>2, <1>4, <1>5, <1>6, <1>7 DEF Copies
  <2>2. Copies' = Copies
    BY <1>1 DEF Copies, Entry
  <2>3. \A x \in Current' : x = db
    BY <1>1, <2>1, <2>2 DEF Current
  <2>4. Precedes(db, db)
    BY <1>5, PrecedesReflexive
  <2>5. \A r \in Routers : IncarnationAt(r)' = db.incarnation
    BY <1>1, <1>4 DEF IncarnationAt, Entry
  <2>6. QED
    BY <1>1, <2>3, <2>4, <2>5 DEF HistoryOrdered
<1>9. EntriesFit' /\ MergedKnown'
  BY <1>1 DEF HistoryInv, EntriesFit, MergedKnown, DoStep
<1>10. BackupKnown'
  BY <1>1, <1>5, <1>7 DEF BackupKnown
<1>11. ResultAcceptable'
  BY <1>1, NoneAssumption DEF ResultAcceptable
<1>12. QED
  BY <1>8, <1>9, <1>10, <1>11 DEF HistoryInv

-----------------------------------------------------------------------------
(***************************************************************************)
(* The theorem.                                                            *)
(***************************************************************************)

\* At first nobody knows the worker, and its database is the only copy.
LEMMA HistoryInvAtFirst ==
  ASSUME RecoveryInit
  PROVE  HistoryInv
<1>1. /\ WorkerTypeOK
      /\ guard = None /\ network = {} /\ loop.phase = "read"
      /\ db.incarnation = 1
      /\ backup = None /\ command = None
      /\ \A r \in Routers : routers[r] = Preloaded
  BY TypesAtFirst
  DEF RecoveryInit, WorkerInit, LoopAt, InitialSnapshot
<1>2. \A r \in Routers : Entry(r) = None
  BY <1>1, WorkerAssumption DEF Entry
<1>3. HistoryOrdered
  <2>1. Copies = {db}
    BY <1>1, <1>2 DEF Copies
  <2>2. db \in Snapshot /\ Precedes(db, db)
    BY <1>1, PrecedesReflexive DEF WorkerTypeOK
  <2>3. QED
    BY <1>1, <1>2, <2>1, <2>2 DEF HistoryOrdered, Current, IncarnationAt
<1>4. EntriesFit
  BY <1>1, WorkerAssumption DEF EntriesFit, EntryFits
<1>5. MergedKnown /\ BackupKnown
  BY <1>1 DEF MergedKnown, BackupKnown, DoStep
<1>6. ResultAcceptable
  BY <1>1, NoneAssumption DEF ResultAcceptable
<1>7. QED
  BY <1>3, <1>4, <1>5, <1>6 DEF HistoryInv

\* Every step keeps the histories in order.
LEMMA NextKeepsHistory ==
  ASSUME RecoveryInv, HistoryInv, ~RerunComplete, ~StaleBackup,
         [RecoveryNext]_allVars
  PROVE  HistoryInv'
<1>1. CASE WorkerStep
  BY <1>1, WorkerKeepsHistory
<1>2. CASE TakeBackup
  BY <1>2, TakeBackupKeepsHistory
<1>3. ASSUME NEW op \in Operations, Restore(op) \/ RunCommand(op)
      PROVE  HistoryInv'
  BY <1>3, RestoreKeepsHistory, RunCommandKeepsHistory
<1>4. CASE CommandDies
  BY <1>4, CommandDiesKeepsHistory
<1>5. CASE CommandStep
  BY <1>5, FreezeRouterKeepsHistory, CollectRouterKeepsHistory,
     PrepareKeepsHistory, RecoverRouterKeepsHistory, RewriteKeepsHistory,
     RemoveGuardKeepsHistory
  DEF CommandStep
<1>6. CASE UNCHANGED allVars
  <2>1. UNCHANGED <<guard, db, loop, network, routers, backup, journal, command>>
    BY <1>6 DEF allVars, workerVars, recoveryVars
  <2>2. HistoryOrdered'
    BY <2>1
    DEF HistoryInv, HistoryOrdered, Journalled, Current, Copies, IncarnationAt,
        Entry
  <2>3. EntriesFit' /\ MergedKnown' /\ BackupKnown' /\ ResultAcceptable'
    BY <2>1
    DEF HistoryInv, EntriesFit, MergedKnown, DoStep, BackupKnown, Journalled,
        ResultAcceptable, Unrecorded, Entry
  <2>4. QED
    BY <2>2, <2>3 DEF HistoryInv
<1>7. QED
  BY <1>1, <1>2, <1>3, <1>4, <1>5, <1>6 DEF RecoveryNext

\* The histories stay in order in every state a recovery reaches.
THEOREM HistoryInvHolds ==
  ASSUME ~RerunComplete, ~StaleBackup
  PROVE  RecoverySpec => []HistoryInv
<1>1. RecoveryInit => HistoryInv
  BY HistoryInvAtFirst
<1>2. RecoveryInv /\ HistoryInv /\ [RecoveryNext]_allVars => HistoryInv'
  BY NextKeepsHistory
<1>3. RecoverySpec => []RecoveryInv
  BY RecoveryInvHolds
<1>4. QED
  BY <1>1, <1>2, <1>3, PTL DEF RecoverySpec

\* A journalled result is acceptable to both routing nodes, at the first attempt
\* and at every repetition of it.  Run recovery_stale refutes it for a backup
\* from before the last recovery.
THEOREM ResultStands ==
  ASSUME ~RerunComplete, ~StaleBackup
  PROVE  RecoverySpec => []ResultAcceptable
<1>1. HistoryInv => ResultAcceptable
  BY DEF HistoryInv
<1>2. QED
  BY <1>1, HistoryInvHolds, PTL

-----------------------------------------------------------------------------
(***************************************************************************)
(* The worker and its routing nodes as a registry of instances.            *)
(***************************************************************************)

\* An instance has one of the three stages.
LEMMA StageOfIsStage ==
  ASSUME NEW record \in Record \cup {None}
  PROVE  StageOf(record) \in Registering!Stage
  BY DEF StageOf, Registering!Stage

\* A record that is replaced moves its instance on or leaves it where it is.
LEMMA StageAdvances ==
  ASSUME NEW old \in Record \cup {None}, NEW new \in Record \cup {None},
         old # None => RecordExtends(old, new)
  PROVE  \/ StageOf(old) = StageOf(new)
         \/ StageOf(old) = "absent"
         \/ StageOf(new) = "deleted"
<1>1. CASE old = None
  BY <1>1 DEF StageOf
<1>2. CASE old # None
  <2>1. new # None /\ (old.deleted => new.deleted)
    BY <1>2, Zenon DEF RecordExtends
  <2>2. CASE new.deleted
    BY <2>1, <2>2 DEF StageOf
  <2>3. CASE ~new.deleted
    BY <1>2, <2>1, <2>3 DEF StageOf
  <2>4. QED
    BY <2>2, <2>3
<1>3. QED
  BY <1>1, <1>2

\* What a routing node holds of an instance is a record or nothing.
LEMMA AcceptedIsRecord ==
  ASSUME NEW s \in State, NEW i \in Ids
  PROVE  RecordOf(s, Self, i) \in Record \cup {None}
  BY WorkerAssumption DEF RecordOf, State, Owner, Snapshot

\* A state that extends another one has every instance of the worker as far.
LEMMA ExtendedStage ==
  ASSUME NEW s \in State, NEW t \in State, Extends(s, t), NEW i \in Ids
  PROVE  \/ StageOf(RecordOf(s, Self, i)) = StageOf(RecordOf(t, Self, i))
         \/ StageOf(RecordOf(s, Self, i)) = "absent"
         \/ StageOf(RecordOf(t, Self, i)) = "deleted"
<1>1. RecordOf(s, Self, i) # None =>
         RecordExtends(RecordOf(s, Self, i), RecordOf(t, Self, i))
  BY WorkerAssumption DEF RecordOf, Extends, OwnerExtends
<1>2. QED
  BY <1>1, StageAdvances, AcceptedIsRecord

\* A routing node whose history the database follows is not ahead of it.
LEMMA FollowedStage ==
  ASSUME NEW s \in State, NEW snapshot \in Snapshot, NEW i \in Ids,
         s.owners[Self] # None => Follows(s.owners[Self].snapshot, snapshot)
  PROVE  \/ StageOf(RecordOf(s, Self, i)) = StageOf(snapshot.records[i])
         \/ StageOf(RecordOf(s, Self, i)) = "absent"
         \/ StageOf(snapshot.records[i]) = "deleted"
<1>1. RecordOf(s, Self, i) # None =>
         RecordExtends(RecordOf(s, Self, i), snapshot.records[i])
  BY DEF RecordOf, Follows, RecordIds
<1>2. snapshot.records[i] \in Record \cup {None}
  BY DEF Snapshot
<1>3. QED
  BY <1>1, <1>2, StageAdvances, AcceptedIsRecord

\* The worker's intent is one without the guard, and none under it.
LEMMA IntentOrNone ==
  ASSUME WorkerTypeOK
  PROVE  /\ guard = None => Intended \in Registering!Stages /\ Intended # None
         /\ guard # None => Intended = None
<1>1. \A i \in Ids : StageOf(db.records[i]) \in Registering!Stage
  BY StageOfIsStage DEF WorkerTypeOK, Snapshot
<1>2. guard = None => Intended \in Registering!Stages
  BY <1>1 DEF Intended, Registering!Stages
<1>3. QED
  BY <1>2, NoneIntentAssumption DEF Intended

\* Routing nodes that stay show nothing else of the worker.
LEMMA RoutedStays ==
  ASSUME UNCHANGED routers
  PROVE  UNCHANGED Routed
  BY DEF Routed, AcceptedRecord

\* A database that stays, as a guard that stays, intends what it did.
LEMMA IntendedStays ==
  ASSUME UNCHANGED guard, guard = None => UNCHANGED db
  PROVE  UNCHANGED Intended
  BY DEF Intended

\* One routing node learns something and takes nothing back: it publishes.
LEMMA LearnedIsPublished ==
  ASSUME NEW r \in Routers, routers \in [Routers -> State],
         routers' \in [Routers -> State],
         \A q \in Routers \ {r} : routers'[q] = routers[q],
         Extends(routers[r], routers'[r]),
         UNCHANGED Intended,
         Intended # None => Registering!Advances(Routed'[r], Intended)
  PROVE  Registering!Publish(r)
<1>1. \A q \in Routers \ {r} : Routed'[q] = Routed[q]
  BY DEF Routed, AcceptedRecord
<1>2. Registering!Advances(Routed[r], Routed'[r])
  <2>1. routers[r] \in State /\ routers'[r] \in State
    OBVIOUS
  <2>2. \A i \in Ids :
            /\ Routed[r][i] = StageOf(RecordOf(routers[r], Self, i))
            /\ Routed'[r][i] = StageOf(RecordOf(routers'[r], Self, i))
    BY DEF Routed, AcceptedRecord
  <2>3. QED
    BY <2>1, <2>2, ExtendedStage DEF Registering!Advances
<1>3. QED
  BY <1>1, <1>2 DEF Registering!Publish

\* register brings an instance up, takes it down, or repeats itself.
LEMMA RegisterRegisters ==
  ASSUME WorkerTypeOK, NEW name \in Names, NEW request \in Request,
         Register(name, request)
  PROVE  \/ Registering!Register(request.id)
         \/ Registering!Delete(request.id)
         \/ UNCHANGED <<Intended, Routed>>
<1> DEFINE k == request.id
           old == db.records[k]
           new == [app |-> Workloads[k].app,
                   endpoint |-> Workloads[k].endpoint,
                   revision |-> db.revision + 1,
                   deleted |-> request.deleted]
<1>1. /\ guard = None /\ guard' = None
      /\ db' = Registered(request) /\ CanRegister(request)
      /\ UNCHANGED routers
  BY DEF Register
<1>2. /\ k \in Ids /\ request.deleted \in BOOLEAN
      /\ db'.records[k] = new
      /\ \A i \in Ids : i # k => db'.records[i] = db.records[i]
      /\ new \in Record /\ new # None
      /\ old \in Record \cup {None}
  <2>1. k \in Ids /\ request.deleted \in BOOLEAN /\ db.revision + 1 \in U64
    BY <1>1, RegisteredIsSnapshot DEF Request
  <2>2. new \in Record
    BY <2>1, WorkerAssumption DEF Record
  <2>3. new # None
    BY <2>2, NoneAssumption
  <2> HIDE DEF k, new
  <2>4. old \in Record \cup {None}
    BY <2>1 DEF WorkerTypeOK, Snapshot
  <2> USE DEF k, new
  <2>5. QED
    BY <1>1, <2>1, <2>2, <2>3, <2>4, RegisteredIsSnapshot
<1>3. StageOf(new) = IF request.deleted THEN "deleted" ELSE "live"
  BY <1>2 DEF StageOf
<1>4. /\ old = None => ~request.deleted
      /\ old # None /\ old.deleted => request.deleted
  BY <1>1 DEF CanRegister
<1> HIDE DEF new, old, k
<1>5. /\ Intended = [i \in Ids |-> StageOf(db.records[i])]
      /\ Intended' = [Intended EXCEPT ![k] = StageOf(new)]
      /\ Intended[k] = StageOf(old)
      /\ Intended # None
      /\ UNCHANGED Routed
  <2>1. Intended = [i \in Ids |-> StageOf(db.records[i])]
    BY <1>1 DEF Intended
  <2>2. Intended' = [i \in Ids |-> StageOf(db'.records[i])]
    BY <1>1 DEF Intended
  <2>3. Intended' = [Intended EXCEPT ![k] = StageOf(new)]
    BY <1>2, <2>1, <2>2
  <2>4. QED
    BY <1>1, <1>2, <2>1, <2>3, IntentOrNone, RoutedStays DEF old
<1>6. CASE old = None
  <2>1. StageOf(old) = "absent" /\ StageOf(new) = "live"
    BY <1>3, <1>4, <1>6 DEF StageOf
  <2>2. Registering!Register(k)
    BY <1>5, <2>1 DEF Registering!Register
  <2>3. QED
    BY <2>2 DEF k
<1>7. CASE old # None /\ StageOf(old) = StageOf(new)
  <2>1. [Intended EXCEPT ![k] = StageOf(new)] = Intended
    BY <1>2, <1>5, <1>7
  <2>2. QED
    BY <1>5, <2>1
<1>8. CASE old # None /\ StageOf(old) # StageOf(new)
  <2>1. StageOf(old) = "live" /\ StageOf(new) = "deleted"
    <3>1. CASE old.deleted
      BY <1>3, <1>4, <1>8, <3>1 DEF StageOf
    <3>2. CASE ~old.deleted
      BY <1>3, <1>8, <3>2 DEF StageOf
    <3>3. QED
      BY <3>1, <3>2
  <2>2. Registering!Delete(k)
    BY <1>5, <2>1 DEF Registering!Delete
  <2>3. QED
    BY <2>2 DEF k
<1>9. QED
  BY <1>6, <1>7, <1>8

\* A post that is handled teaches one routing node something, or nothing.
LEMMA HandledIsPublished ==
  ASSUME WorkerTypeOK, NEW post \in network, HandlePost(post),
         guard = None => SnapshotsFollowed'
  PROVE  \/ \E r \in Routers : Registering!Publish(r)
         \/ UNCHANGED <<Intended, Routed>>
<1> DEFINE q == post.router
           t == Accepted(routers[q], Self, post.snapshot)
<1>1. /\ q \in Routers /\ routers[q] \in State
      /\ post.snapshot \in Snapshot /\ Self \in Owners
      /\ routers \in [Routers -> State]
      /\ routers' \in [Routers -> State]
      /\ db \in Snapshot
  BY HandledPost, WorkerAssumption DEF WorkerTypeOK, Post
<1>2. UNCHANGED <<guard, db>>
  BY DEF HandlePost
<1>3. UNCHANGED Intended
  BY <1>2, IntendedStays
<1>4. CASE UNCHANGED routers
  BY <1>3, <1>4, RoutedStays
<1>5. CASE routers' # routers
  <2>1. /\ CanCommit(routers[q], Self, post.snapshot)
        /\ routers' = [routers EXCEPT ![q] = Uncounted(t)]
    BY <1>5 DEF HandlePost
  <2>2. t \in State /\ Extends(routers[q], t)
    BY <1>1, <2>1, AcceptedIsState, AcceptedExtends DEF CanCommit
  <2>3. Extends(routers[q], Uncounted(t))
    BY <2>2, UncountedSame DEF Extends
  <2> HIDE DEF t
  <2>4. /\ routers'[q] = Uncounted(t)
        /\ \A r \in Routers \ {q} : routers'[r] = routers[r]
    BY <1>1, <2>1
  <2>5. Intended # None => Registering!Advances(Routed'[q], Intended)
    <3> SUFFICES ASSUME guard = None, NEW i \in Ids
                 PROVE  \/ Routed'[q][i] = Intended[i]
                        \/ Routed'[q][i] = "absent"
                        \/ Intended[i] = "deleted"
      BY IntentOrNone DEF Registering!Advances
    <3>1. routers'[q].owners[Self] # None =>
             Follows(routers'[q].owners[Self].snapshot, db)
      BY <1>1, <1>2 DEF SnapshotsFollowed
    <3>2. /\ Intended[i] = StageOf(db.records[i])
          /\ Routed'[q][i] = StageOf(RecordOf(routers'[q], Self, i))
      BY <1>1 DEF Intended, Routed, AcceptedRecord
    <3>3. routers'[q] \in State
      BY <1>1
    <3>4. QED
      BY <1>1, <3>1, <3>2, <3>3, FollowedStage
  <2>6. Registering!Publish(q)
    BY <1>1, <1>3, <2>3, <2>4, <2>5, LearnedIsPublished
  <2>7. QED
    BY <1>1, <2>6
<1>6. QED
  BY <1>4, <1>5

\* A step of the worker, of a routing node or of the network is a step of the
\* registry or none.
LEMMA WorkerKeepsRegistry ==
  ASSUME WorkerTypeOK, [WorkerNext]_workerVars,
         guard = None => SnapshotsFollowed'
  PROVE  [Registering!RegistryNext]_<<Intended, Routed>>
<1>1. ASSUME NEW name \in Names, NEW request \in Request, Register(name, request)
      PROVE  Registering!RegistryNext \/ UNCHANGED <<Intended, Routed>>
  <2>1. request.id \in Ids
    BY DEF Request
  <2>2. QED
    BY <1>1, <2>1, RegisterRegisters DEF Registering!RegistryNext
<1>2. ASSUME NEW post \in network, HandlePost(post)
      PROVE  Registering!RegistryNext \/ UNCHANGED <<Intended, Routed>>
  BY <1>2, HandledIsPublished DEF Registering!RegistryNext
<1>3. CASE UNCHANGED <<guard, db, routers>>
  BY <1>3, IntendedStays, RoutedStays
<1>4. QED
  BY <1>1, <1>2, <1>3
  DEF WorkerNext, Administer, Reconcile, PublishTurn, RegisterAgain,
      workerVars, ReadSnapshot, ReconcileRecord, ReconcileFails, SendPost,
      EndPost, LosePost, UnitDies, DaemonStops, DaemonStarts

\* The command changes one routing node, under the guard.
LEMMA CommandPublishes ==
  ASSUME WorkerTypeOK, guard # None, UNCHANGED guard, NEW r \in Routers,
         NEW t \in State, Extends(routers[r], t), SetRouter(r, t)
  PROVE  Registering!Publish(r)
<1>1. routers \in [Routers -> State] /\ routers' = [routers EXCEPT ![r] = Uncounted(t)]
  BY DEF WorkerTypeOK, SetRouter
<1>2. Uncounted(t) \in State /\ Extends(routers[r], Uncounted(t))
  BY UncountedSame DEF Extends
<1>3. /\ routers' \in [Routers -> State]
      /\ routers'[r] = Uncounted(t)
      /\ \A q \in Routers \ {r} : routers'[q] = routers[q]
  BY <1>1, <1>2
<1>4. UNCHANGED Intended /\ Intended = None
  BY IntendedStays, IntentOrNone
<1>5. QED
  BY <1>1, <1>2, <1>3, <1>4, LearnedIsPublished

\* freeze, its repetition and recover at a routing node publish to it; the
\* other steps of the command before the last one change nothing that counts.
LEMMA CommandKeepsRegistry ==
  ASSUME RecoveryInv, CommandStep, ~RemoveGuard
  PROVE  [Registering!RegistryNext]_<<Intended, Routed>>
<1> DEFINE op == command.operation
           r == command.router
<1>1. command # None
  BY DEF CommandStep, FreezeRouter, CollectRouter, Prepare, RecoverRouter,
         UpdateDatabase, WriteConfig, MarkComplete, DoStep
<1>2. /\ op \in Operations /\ r \in Routers /\ guard # None /\ WorkerTypeOK
      /\ routers[r] \in State /\ Self \in Owners
  BY <1>1, CommandAtWork, WorkerAssumption DEF WorkerTypeOK
<1>3. UNCHANGED guard
  BY DEF CommandStep, FreezeRouter, CollectRouter, Prepare, RecoverRouter,
         UpdateDatabase, WriteConfig, MarkComplete, workerVars
<1>4. CASE FreezeRouter \/ CollectRouter
  <2> DEFINE t == Frozen(routers[r], Self, op)
  <2>1. CanFreeze(routers[r], Self, op) /\ SetRouter(r, t)
    BY <1>4 DEF FreezeRouter, CollectRouter
  <2>2. t \in State /\ Extends(routers[r], t)
    BY <1>2, <2>1, FrozenKeeps, SameSnapshotsExtend
  <2> HIDE DEF t, r
  <2>3. Registering!Publish(r)
    BY <1>2, <1>3, <2>1, <2>2, CommandPublishes
  <2>4. QED
    BY <1>2, <2>3 DEF Registering!RegistryNext
<1>5. CASE RecoverRouter
  <2> DEFINE next == journal[op].snapshot
             hash == FreshCredential[op]
             t == Recovered(routers[r], Self, op, next, hash)
  <2>1. CanRecover(routers[r], Self, op, next, hash) /\ SetRouter(r, t)
    BY <1>5 DEF RecoverRouter
  <2>2. next \in Snapshot /\ hash \in Credentials
    <3>1. Journalled(op)
      BY <1>1, <1>5 DEF RecoverRouter, DoStep, RecoveryInv, CommandSound
    <3>2. QED
      BY <1>1, <1>2, <3>1, CommandAtWork, RecoveryAssumption DEF Journalled, Journal
  <2> HIDE DEF next, hash
  <2>3. t \in State /\ Extends(routers[r], t)
    BY <1>2, <2>1, <2>2, RecoveredKeeps
  <2> HIDE DEF t, r
  <2>4. Registering!Publish(r)
    BY <1>2, <1>3, <2>1, <2>3, CommandPublishes
  <2>5. QED
    BY <1>2, <2>4 DEF Registering!RegistryNext
<1>6. CASE Prepare \/ UpdateDatabase \/ WriteConfig \/ MarkComplete
  <2>1. UNCHANGED routers
    BY <1>6 DEF Prepare, UpdateDatabase, WriteConfig, MarkComplete, workerVars
  <2>2. QED
    BY <1>2, <1>3, <2>1, IntendedStays, RoutedStays
<1>7. QED
  BY <1>4, <1>5, <1>6 DEF CommandStep

\* The last step of the command returns an intent no routing node is ahead of.
LEMMA RemoveGuardResumes ==
  ASSUME RecoveryInv, RecoveryInv', RemoveGuard
  PROVE  Registering!Resume
<1>1. /\ guard' = None /\ UNCHANGED <<db, routers>>
      /\ guard # None /\ WorkerTypeOK
  BY CommandAtWork DEF RemoveGuard, DoStep
<1>2. SnapshotsFollowed'
  BY <1>1 DEF RecoveryInv, PeaceSound
<1>3. /\ Intended = None
      /\ Intended' = [i \in Ids |-> StageOf(db.records[i])]
      /\ UNCHANGED Routed
  BY <1>1, RoutedStays DEF Intended
<1>4. Intended' \in Registering!Stages
  BY <1>1, <1>3, StageOfIsStage DEF WorkerTypeOK, Snapshot, Registering!Stages
<1>5. ASSUME NEW r \in Routers, NEW i \in Ids
      PROVE  \/ Routed[r][i] = Intended'[i]
             \/ Routed[r][i] = "absent"
             \/ Intended'[i] = "deleted"
  <2>1. routers[r].owners[Self] # None =>
           Follows(routers[r].owners[Self].snapshot, db)
    BY <1>1, <1>2 DEF SnapshotsFollowed
  <2>2. /\ Intended'[i] = StageOf(db.records[i])
        /\ Routed[r][i] = StageOf(RecordOf(routers[r], Self, i))
    BY <1>3 DEF Routed, AcceptedRecord
  <2>3. routers[r] \in State /\ db \in Snapshot
    BY <1>1 DEF WorkerTypeOK
  <2>4. QED
    BY <2>1, <2>2, <2>3, FollowedStage
<1>6. QED
  BY <1>3, <1>4, <1>5 DEF Registering!Resume, Registering!Advances

\* A step of a recovery is a step of the registry or none.
LEMMA RecoveryKeepsRegistry ==
  ASSUME RecoveryInv, RecoveryInv', ~RerunComplete, [RecoveryNext]_allVars
  PROVE  [Registering!RegistryNext]_<<Intended, Routed>>
<1>0. WorkerTypeOK
  BY DEF RecoveryInv, RecoveryTypeOK
<1>1. CASE WorkerStep
  <2>1. WorkerNext
    BY <1>1 DEF WorkerStep
  <2>2. guard' = guard
    BY <2>1
    DEF WorkerNext, Administer, Reconcile, PublishTurn, Register, RegisterAgain,
        workerVars, ReadSnapshot, ReconcileRecord, ReconcileFails, SendPost,
        EndPost, HandlePost, LosePost, UnitDies, DaemonStops, DaemonStarts
  <2>3. guard = None => SnapshotsFollowed'
    BY <2>2 DEF RecoveryInv, PeaceSound
  <2>4. QED
    BY <1>0, <2>1, <2>3, WorkerKeepsRegistry
<1>2. ASSUME NEW op \in Operations, Restore(op)
      PROVE  Registering!Suspend
  <2>1. guard = None /\ guard' = op /\ op # None /\ UNCHANGED routers
    BY <1>2, NoneAssumption DEF Restore, recoveryVars
  <2>2. Intended # None /\ Intended' = None /\ UNCHANGED Routed
    BY <1>0, <2>1, IntentOrNone, RoutedStays DEF Intended
  <2>3. QED
    BY <2>2 DEF Registering!Suspend
<1>3. ASSUME NEW op \in Operations, RunCommand(op)
      PROVE  UNCHANGED <<guard, db, routers>>
  BY <1>3 DEF RunCommand
<1>4. CASE RemoveGuard
  BY <1>4, RemoveGuardResumes DEF Registering!RegistryNext
<1>5. CASE CommandStep /\ ~RemoveGuard
  BY <1>5, CommandKeepsRegistry
<1>6. CASE TakeBackup \/ CommandDies \/ UNCHANGED allVars
  <2>1. UNCHANGED <<guard, db, routers>>
    BY <1>6 DEF TakeBackup, CommandDies, allVars, workerVars
  <2>2. QED
    BY <2>1, IntendedStays, RoutedStays
<1>7. QED
  BY <1>1, <1>2, <1>3, <1>4, <1>5, <1>6, IntendedStays, RoutedStays
  DEF RecoveryNext, CommandStep, Registering!RegistryNext

\* At first the worker wants nothing and the routing nodes have nothing of it.
LEMMA RegistryAtFirst ==
  ASSUME WorkerInit
  PROVE  Registering!RegistryInit
<1>1. Intended = [i \in Ids |-> "absent"]
  BY DEF WorkerInit, InitialSnapshot, Intended, StageOf
<1>2. Routed = [r \in Routers |-> [i \in Ids |-> "absent"]]
  <2>1. \A r \in Routers, i \in Ids : AcceptedRecord(r, i) = None
    BY WorkerAssumption DEF WorkerInit, AcceptedRecord, RecordOf
  <2>2. \A r \in Routers, i \in Ids : StageOf(AcceptedRecord(r, i)) = "absent"
    BY <2>1 DEF StageOf
  <2>3. QED
    BY <2>2 DEF Routed
<1>3. QED
  BY <1>1, <1>2 DEF Registering!RegistryInit

\* The worker and its routing nodes are a registry: whatever posts are lost,
\* delayed or overtaken, an instance comes up once and goes down once, and no
\* routing node is ahead of the worker's database.
THEOREM WorkerIsRegistry == WorkerSpec => KeepsRegistry
<1>1. WorkerInit => Registering!RegistryInit
  BY RegistryAtFirst
<1>2. Inv /\ Inv' /\ [WorkerNext]_workerVars
        => [Registering!RegistryNext]_<<Intended, Routed>>
  BY WorkerKeepsRegistry DEF Inv
<1>3. QED
  BY <1>1, <1>2, InvHolds, PTL DEF WorkerSpec, KeepsRegistry, Registering!RegistrySpec

\* They are one through every recovery, wherever the command died: what a
\* restored database has forgotten comes back before the worker intends
\* anything again.  Run recovery_rerun shows why the assumption is needed.
THEOREM RecoveryIsRegistry ==
  ASSUME ~RerunComplete
  PROVE  RecoverySpec => KeepsRegistry
<1>1. RecoveryInit => Registering!RegistryInit
  BY RegistryAtFirst DEF RecoveryInit
<1>2. RecoveryInv /\ RecoveryInv' /\ [RecoveryNext]_allVars
        => [Registering!RegistryNext]_<<Intended, Routed>>
  BY RecoveryKeepsRegistry
<1>3. QED
  BY <1>1, <1>2, RecoveryInvHolds, PTL
  DEF RecoverySpec, KeepsRegistry, Registering!RegistrySpec
=============================================================================
