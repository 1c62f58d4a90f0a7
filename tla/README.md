# A TLA+ verification of EdgeLab

EdgeLab is a small edge platform. Workers run application instances and own
the history of those instances. Two routing nodes take each worker's complete
history. Proxies poll the routing nodes and forward client connections by the
last view they took. An image worker prepares file systems on thin volumes,
an object store keeps its objects on a volume that a growth controller extends,
and laboratory scripts surround this core.

This directory holds TLA+ models of the core programs, the TLC runs that check
them on small instances, and theorems that TLAPS checks for every instance: all
safety properties of the passing runs, the three refinements, and the lemmas they rest
on. Source paths are relative to the root of the repository.
`PROJECT.json` maps each definition to the lines it models.

## 1. Inventory

| Component | State it keeps | Operations | Interacts with |
|---|---|---|---|
| Routing state, `routing/src/lib.rs` | a generation; per owner a snapshot, `stale`, `frozen_by`, `credential_hash`, `recovery` | `accept`, `freeze`, `recover`, `after_restart`, `validate_metadata` | called by the routing node and, to validate a view, by the proxy |
| Routing node, `routing/src/main.rs`, `storage.rs` | the active state (a watch channel), one writer permit, the state file | `POST /snapshot`, `POST /recover` (freeze, recover), `GET /view`, startup | workers and the recovery command post, proxies poll |
| Worker daemon, `cmd/worker/serve.go` | SQLite: `routing_state`, `routing_operations`; systemd units; observations | `register`, the publish loop, `reconcileWorkloads` | posts to both routing nodes, supervises units |
| Recovery command, `cmd/worker/recover.go` | a journal file, a guard file, the database, the configuration | one restartable operation | the worker's files, both routing nodes |
| Proxy, dynamic, `proxy/src/dynamic.rs` | the current state, a cache file, the view handed to the accept loop | poll, validate, save, activate, start | polls the routing nodes |
| Proxy, static, `proxy/src/main.rs` | view, listeners, `Admission` objects behind weak references, semaphores, accept tasks, sessions, one validation and one pending reload | SIGHUP reload, accept, forward, drain | clients and backends |
| Image worker, `cmd/worker/main.go`, `storage.go`, `image.go` | SQLite `operations`; LVM volumes; mounts; an extraction process | prepare an image, give an operation a snapshot | an image store, LVM |
| Growth controller, `cmd/grow/main.go` | SQLite `operations`; LV and file system size; a process lock | grow to a target, take up what is pending, watch | LVM, the volume of the object store |
| Object store, `cmd/objects/main.go` | content-addressed files, 16 request slots | GET, PUT | a volume that others mount, unmount and grow |
| Bounded listeners | connection slots | accept | every management server |

The rest of the repository is clients that observe the system from outside
(`cmd/traffic`, `cmd/*-check`, `cmd/echo`), scripts that build the laboratory
(`lab/`), tests and recorded evidence.

What makes the behaviour hard:

* **Concurrency.** A publisher's credential is checked before the writer permit
  is taken. Posts time out and are handled later. Reloads, accepts and sessions
  overlap. An extraction process outlives the run that started it.
* **Failure.** Saves have four steps and may be cut anywhere. The recovery
  command and the image worker may die between any two effects and are repeated.
* **Ordering.** Two routing nodes advance independently; a proxy may hear an
  older view after a newer one; recovery must fence both nodes before anything
  is published. A PUT is a sequence of file system calls, each of which looks its
  path up anew while the volume may come and go.
* **Limits.** The complete view, the operation table and `u64`/`int64` numbers
  are bounded, and deletions must fit whatever was added before. The object
  volume runs full while it is growing.

What makes each component correct is listed as the properties of section 4.
`PROJECT.json` lists every hazard at its line with the properties that cover it.

## 2. Modules

| Module | Models | Composition |
|---|---|---|
| `RoutingState` | the pure functions of `lib.rs` | used by all routing modules |
| `RoutingNode` | handlers, writer permit, `storage::save`, crashes, restarts | EXTENDS `RoutingState` |
| `RouteHistory` | what a routing node promises, without locks, files or phases | abstract; `RoutingNode` refines it (`KeepsPromise`) |
| `AtomicNode` | a node that handles a request in one step, and what a restart of it may find | abstract; `RoutingNode` refines it (`HandlesAtomically`) |
| `Worker` | the daemon, two routing nodes and the network between them | EXTENDS `RoutingState` |
| `Recovery` | the recovery command and the operator | EXTENDS `Worker`: the whole system under restoration |
| `Registry` | instances that a worker wants and routers have, without posts, loop, files or command | abstract; `Worker` and `Recovery` refine it (`KeepsRegistry`) |
| `ProxyDynamic` | the polling task, the cache and the accept loop's view | EXTENDS `RoutingState`, and INSTANCEs it with the proxy's own policy |
| `ProxyReload` | the static proxy's select loop | EXTENDS `Connect`, for what its sessions do |
| `Connect` | `connect`, `connect_target`, `connect_address`: the fallback over targets and addresses within two deadlines | pure operators |
| `Volume` | logical volume, file system, mount, free space of the group | used by the two below |
| `Grow` | the growth controller's table and calls | EXTENDS `Volume` |
| `ObjectStore` | the PUTs of the object store, what is on disk and what is not yet | EXTENDS `Volume` |
| `ObjectVolume` | store and controller on one volume, with operator, other volumes, and failures | EXTENDS `ObjectStore` and `Grow` |
| `ImageWorker` | runs, extraction processes, volumes, mounts | stands alone |
| `MC*` | the constants of the small instances | |
| `RoutingStateProofs` | lemmas about the pure functions | EXTENDS `RoutingState` |
| `SumProofs` | lemmas about sums over finite sets | used by the proofs below |
| `RoutingNodeProofs`, `RecoveryProofs`, `ProxyDynamicProofs`, `ProxyReloadProofs`, `ObjectVolumeProofs`, `ImageWorkerProofs` | lemmas and theorems of section 6; `RecoveryProofs` is about `Worker` and `Recovery` | each EXTENDS the module it is about |

### How the models correspond to the code

**RoutingState.** A Rust function returning `Result<State, String>` is two
operators: a predicate that holds when the function returns `Ok`, and the state
it then returns (`CanAccept`/`Accepted`, `CanFreeze`/`Frozen`,
`CanRecover`/`Recovered`). Records, snapshots and owners are records with the
code's field names; a missing map key is `None`. Endpoints are written
addresses; `Socket` says which socket each of them reaches, and `Canonical` is
the set that passes the address checks of `accept`. That canonical addresses
reach different sockets is the assumption behind the rejection of scoped and
IPv4-mapped addresses. The size of a serialized state counts its variable parts
and the width of its numbers; `Width(n) = n` stands for the number of digits,
of which only monotonicity matters. A digest is the triple it is computed from.

**RoutingNode.** `Authenticate` is publish's credential check before the permit.
`Publish` is everything behind `try_lock` up to the save: the second credential
check, `accept` and the start of the save. `Freeze` and `Recover` are the two
administrative requests. `SaveWrite`, `SaveSync`, `SaveRename` and
`SaveSyncDirectory` are the system calls of `storage::save`; `SaveFails` is an
error from any of them. `Activate` is `send_replace` and the answer. `survivors`
is the set of contents a power failure may leave in the state file: a rename
without a directory sync adds one, the sync removes all others, a file that was
not synced may be `Corrupt`. `acknowledged` and `confirmed` are history
variables. `Handled` is what one request of any kind does to a state, as `AtomicNode`
needs it. Restart accepts every owner's snapshot again, as `main` does; the
rebuild's partial states are replaced by the strongest of them (the state
without the owner), which the comment there explains.

**Worker.** `Register` is one SQLite transaction. The publish loop is a program
counter (`read`, `reconcile`, `await`) with the snapshot it has read and the
records it still has to reconcile; `db` may change meanwhile. A post is a message
that may be lost or handled at any later time. The routing node takes a post in
one step, which `HandlesAtomically` justifies: to a reader and to a restart
`RoutingNode` is a node that does. The routers of this module never go back: what
`RoutingNode` may lose in a power failure, an update that was served after a crash and
never acknowledged (section 5), is not modelled here. `ReconcileFails` is a failure of
`systemctl` or of a probe. For a deleted record whose `is-active` fails, the code takes
the unit for stopped and goes on with the turn, so the deletion may be published
while the unit runs on until a later turn stops it.
`Intended` and `Routed` reduce database and routers to the stages of `Registry`.

**Recovery.** One action per external effect of the command. `Restore` is the
operator's part: stop the daemon, create the guard, put the backup back. A backup may be
taken whenever there is no guard and replaces the one before. The daemon of
`Worker` goes on stepping between the command's steps as far as the lock allows.
Three assumptions about the operator and the network stand behind the actions. The
operator repeats an interrupted operation by its own name: the command writes the guard
whatever it held (`recover.go:72`), so running another operation meanwhile would take the
guard over, and `RunCommand` therefore asks for `guard = op`. The daemon is stopped
before the database is put back. And an administrative call is handled while
its client waits or not at all: the client gives up after three seconds
(`recover.go:122`), and a call that is handled later is not modelled. Within its own
operation such a call changes nothing, since `freeze` and `recover` answer a repetition
as before; one that came after the *next* operation would be new to the router.
Two constants say what the operator is free to do: `RerunComplete`, run a completed
operation again; `StaleBackup`, restore a backup from before the last recovery. The
code refuses neither, and findings 2 and 4 are what then happens.

**ProxyDynamic.** `Fetch` takes a view and validates it in one step, since only
the polling task replaces the state it is validated against. The temporary file
of `save` is written apart from the cache and is not visible until the rename.
`Start` puts the view of the cache in service at once, while an activated view waits for
the accept loop (`TakeView`). Two history variables follow the deletions: `withdrawn` are
the endpoints of deleted records of views that were in service, through `TakeView` or
`Start`; `settled` are those of them that a whole save stands behind, because the
view was activated, because the directory was synced when the proxy started from
it, or because any view was saved since. `PowerFails` reduces `withdrawn` to `settled`.

**ProxyReload.** An `Admission` object is a pair of application and number, and
`Alive` says whether some view, prepared candidate or session still holds the
`Arc`. `prepare` first reads the file and later builds the view; the running
validation carries its generation, and `Superseded` compares it with the latest.

**Connect.** The network's part is data: each address accepts, refuses or says
nothing, after a time, and so does each lookup. `Await` is `timeout_at`, which
still takes an answer that comes at the deadline. `InTurn` is the shape both loops
share: try the first, then go on until there is a stream or no time is left; it is a
recursive function of the place in the list, so that it can be proved about.
`Until` is the deadline of one target. `connect` runs inside a session, so
`SessionsConnect` speaks of states with a session; what it says about `connect`,
`FallbackReaches`, is a statement about all target lists and all places in them to
start from.

**Volume, Grow.** Sizes count units of one object; rounding to extents is a matter
of units. `rows` is the `operations` table in the order of `rowid`. `Intend` is a
call of `step` up to its `INSERT`, `Resume` one that finds a pending row; `call`
then walks through `lvextend`, `resize2fs` and the checks with `done = 1`. It
exists only while the `flock` is held. A call that is refused earlier changes
nothing and is no step. The watch mode, which keeps the lock between its calls, is
here a call without name and target that may be followed by any other: the model
has more interleavings than one run of it. `CallDies` is `-crash` at any stage, a
kill, or a failing command.

**ObjectStore.** A PUT is one step per file system call, in the order of
`ServeHTTP`: look at the mount, create, write, sync, link, remove, sync the
directory and answer. `place` is the file system the temporary file was made on,
`Here` the one the path leads to now. An entry's `data` is `cached` when it was
linked without a sync and `durable` when its name has been synced. A power failure
may take a name that is not durable and tears `cached` data. `acknowledged` is a
history variable. Temporary files occupy space until they are linked or removed;
those whose process was killed stay (`strays`).

**ImageWorker.** `run` is the process that holds `worker.lock`, with one step per
effect. A run replays the pipeline from the start whatever phase the row is in.
`children` are extraction processes; `Own` tells the one its run waits for from
those left behind. A tree is `blank`, `empty`, `partial` or `whole`; the marker
is the tree whose digest it holds. `umount` and `mkfs` fail while a process is
in the tree or the volume is mounted. `outdated` and `strayed` are history.

Operators headed "Mutant of X" are forms of X with a plausible bug. No
specification uses them. `PROJECT.json` pairs each with the property that
catches it, to show that the property depends on the code it is about.

## 3. Runs

| Run | Question | Bounds | Result |
|---|---|---|---|
| `routing_node_faults` | Is anything acknowledged ever lost, is each request served at once or not at all, does the node always start, does an answered freeze hold, and can every live record be deleted when the view is full? | 1 owner, 2 instances of which the limit admits one, 2 incarnations, revisions 1 and 3 of at most 4, all faults, 2 unsynced contents | holds |
| `routing_node_two_owners` | Do endpoints stay exclusive and fences hold between racing requests? | 2 owners, one socket with two spellings, 1 request between check and lock | holds |
| `worker` | Do late and lost posts, dead units and restarts leave worker and routers consistent, and does each deletion arrive? | 1 instance, 3 operations, table limit 2, 2 posts under way | holds |
| `worker_capacity` | Can what is routed be deleted when the view is full? | another worker fills the view | violated, finding 1 |
| `recovery` | Does recovery stay safe and complete when it dies and is repeated, and are worker and routers one registry throughout? | 1 instance, 2 registrations, 2 recovery operations, numbers up to 5 | holds |
| `recovery_rerun` | May a completed operation be run again? | as above | violated, finding 2 |
| `recovery_retry` | Is an answered registration durable across recovery? | as above | violated, finding 3 |
| `recovery_stale` | May a backup from before the last recovery be restored? | 3 registrations, numbers up to 6 | violated, finding 4 |
| `proxy_dynamic` | Does a proxy ever go back on a deletion, and does it go on? | 2 workers with 2 and 1 snapshots, one of them recovered; all faults | holds |
| `proxy_reload` | Do reloads, limits and drain work together, and does a session find its backend? | 2 applications, 2 ports, 3 configurations, 3 reloads, limits 2 and 2, ceiling 3; up to 3 targets with up to 3 addresses, 2 units of time per target of 5 | holds |
| `object_volume` | Do acknowledged objects stand, is growth accounted for, and does a PUT that found the volume full arrive? | 1 object, 2 requests at once, sizes 1 to 3 of a group of 4, 3 calls, 1 file left behind, all faults | holds |
| `image_worker` | Do interrupted preparations complete and leave complete images? | 2 operations on 1 image, 2 extraction processes, all faults | holds |

### Why the bounds are enough

Each bound is the smallest at which the hazards of the run occur. Two
incarnations are one recovery. A revision range of two tells "same", "newer" and
"older" apart. Numbers up to 4 let the generation run out, so the checked
additions are exercised. Two unsynced contents are what one failed save after a
rename leaves beside the last good file; a third gives no new relation between a
survivor and what was acknowledged. `routing_node_faults` uses revision 3, one
below the largest, because the reserve matters just when a deletion is wider than
the record it replaces, and a second instance for the addition that must be
refused. One post per router and one late post are two under way.
`worker` has one instance, since instances meet only in the limits of the table and of
the view and in their endpoints; three operations register it, delete it, and come
late or once too often. `recovery` needs the registration and the deletion of an
instance, of which the backup may know none, one or both; two posts would not
change what a router may be asked to accept, so one is under way at a time.
`recovery_stale` needs a third registration, after the recovery that quarantined the
instance. In the runs of recovery that expect a violation the names are
interchangeable, a symmetry that no liveness property forbids there. What
the runs of `worker` and `recovery` check of safety is proved for all bounds
(section 6), and so are two operations that freeze one owner in turn for
`FrozenHistoryStands`, of which `routing_node_faults` has one.
`proxy_reload` needs three reloads for one running, one pending and one that
replaces the pending one, and a third configuration to remove an application and
bring it back while its old sessions live. `image_worker` needs two extraction
processes: one left behind, one of a later run. One image is enough because runs
of different images share the lock only. `object_volume` needs two requests for
two PUTs of the same object, one behind the other; objects of different names
share only the directory sync and the space, and the file left behind takes the
space another object would. Three sizes are the first one, one increment and one
more that must not be put upon it. `Connect` needs a time for all targets that is
no multiple of the time for one, so that the last target's time is cut, and one
address more than `AddressLimit`.

Configurations are limited to 16 owners in the code; no instance comes near.
`MaxInFlight`, `MaxUnsynced`, `MaxPosts`, `MaxReloads` and `MaxStrays` are bounds
of the models and not of the code.

`CHECK_DEADLOCK FALSE` appears where the system may stop: a routing node whose
generation is exhausted and that does not fail any more, and a proxy that has
drained.

### Fairness

* `FairWorkerSpec`: the publish loop is an endless loop with a timeout at its one
  wait, so its steps are weakly fair; a stopped daemon is restarted by its
  supervisor. A router that is posted to again and again handles some post
  (strong fairness per router): a network that loses every post forever delivers
  nothing, in the code or in the model. `DeletionsArrive` assumes that the daemon
  stops and probes fail finitely often.
* `FairRecoverySpec`: the operator repeats the command while the guard exists,
  and the command does not pause. `RecoveryCompletes` assumes it dies finitely
  often, that both routers know the owner, and that the numbers are not exhausted
  (`Exhausted`: neither the restored database nor a router has the last one, with
  which the command refuses to go on).
* `FairProxySpec`: the polling task has a timeout at each wait; the accept loop's
  select is biased towards new views. `RetirementArrives` assumes that crashes
  and failed saves cease and that the second router answers from some time on.
  It makes no such assumption about the first router. "The second router does
  not answer" is a failed fetch where a fetch would have been accepted, so a view
  that the proxy refuses is not excused as a network failure.
* `FairReloadSpec`: the select loop and the running validation go on; the drain
  has a deadline.
* `FairImageSpec`: every command and run has a time limit, extraction processes
  have 90 seconds, and whoever asked for an operation repeats it.
* `FairSpec` of `ObjectVolume`: a PUT goes on (its requests have time limits), both
  programs are started again, the watch mode is called again and again (every two
  seconds), the operator mounts what is not mounted, and a client that wants an
  object stored repeats the PUT; since the mount comes and goes, that repetition is
  strongly fair. `PutsArrive` assumes that failures and unmounting cease and that
  other volumes give the group's space back.

## 4. Properties

Routing node. `AcknowledgedSurvives`: an update answered `Ok` is in the active
state, in the file, and in whatever a power failure may leave. `SaveProtocol`:
how the temporary file, the file and the survivors are related in each phase of
a save. `AlwaysStarts`: whatever is left on disk is accepted by the startup.
`ServedSurvivesCrash`: the file is as new as what is served. `FreshMeansConfirmed`:
an owner not marked stale has published to this process in its current
incarnation. `EndpointsExclusive`, `FencedNeverCommits`, `DeletionAlwaysFits`.
Two refinements: `KeepsPromise`, of `RouteHistory`, says what is never taken back;
`HandlesAtomically`, of `AtomicNode`, says that nothing is ever half done. What readers
see changes by exactly one accepted request, and only when that request's result is
all that any restart would find; until then a restart finds the state before it, or the
whole effect of a request that was cut short. `FrozenHistoryStands`: an
acknowledged frozen history stays until its own operation recovers it. It excuses
one case, which is no loss: a recovery that was saved, served after a crash and
never answered has moved the history already, and a later operation may freeze and
recover what it finds there.

Worker. `WorkerAhead`: no router is ever ahead of the worker's database.
`PostsVerifiedOnly`: a snapshot is posted only when its live instances were
verified in that turn. `AnsweredIsDurable`, `DeletionReserve`, `DeletionsArrive`.

Recovery. `ResultAcceptable`: a journalled result is acceptable to both routers
until the guard is removed, at the first attempt and at every repetition. `BothFenceFirst`: nothing of the new incarnation is in the
worker's hands before both routers have given up the old credential.
`WorkerAhead` after restoration, and `RecoveryCompletes`. `KeepsRegistry`, the refinement
of `Registry` by worker, routers and command together: an instance comes up once and goes
down once, in the database and on each router; a router learns no
more than what is intended; a recovery suspends the intent, and what it resumes with may forget what no
router has heard of, but takes nothing back that one has. `WorkerAhead` compares states;
this says which steps lead from one to the next.

Proxy. `RetiredStaysRetired`: an endpoint that was in service as deleted is no target
again, whatever crashes, fails or answers in whichever order, and not after a power
failure either if a whole save has followed. The one thing it leaves out is a deletion
that was in service from a file whose directory was never synced, which a power failure
may undo (section 5). `RestartsWithRoutes`, `ActivationsContinue`,
`RetirementArrives`. The last but one says that each view has every route of the one
before or its tombstone (`RoutesContinue`). It does not say that the number of a
snapshot never falls: `validate` compares the numbers only where a record has
changed. `LimitsHold`, `PermitsReturn`, `OneAcceptPerPort`,
`ReloadArrives`, `DrainEnds`. `SessionsConnect`: a backend that would accept in
less than the time of one target is reached, whatever the targets before it do, as
long as the whole time leaves each of them its own; and `connect` never overruns
its deadline.

Object store. `AcknowledgedStand`: an acknowledged object whose file was made on
the volume is there, whole, under a durable name. `ObjectsWhole`: no name ever
stands for content that was not on disk before. Growth. `GrowthAccounted`: one
operation is pending at most, the volume's size is one that was recorded, and an
operation that counts as done has been reached by volume and file system. Both
together: `PutsArrive`.

Image worker. `RegisteredIntact`: a snapshot that was ever answered is still there
and was taken of a complete, sealed origin. `SealedStands`: a sealed origin is
never written. `OperationsComplete`.

## 5. Findings

1. **A full view holds back deletions** (`worker_capacity`). `accept` reserves
   room for deletions, but a snapshot is accepted as a whole and the worker's
   `register` does not know the size of the view. One addition too many makes
   every later snapshot of the worker too large, and the deletion of an instance
   that is already routed is refused along with it. NOTES.md:64 says deletions
   remain possible at capacity.
2. **A completed recovery may be run again** (`recovery_rerun`). `recoverWorker`
   writes `journal.Complete` and never reads it. Run again after the worker has
   moved on, it puts the journalled snapshot back and loses tombstones which the
   routers hold. NOTES.md:52 says tombstones stay.
3. **A retried registration is answered as durable after it was quarantined**
   (`recovery_retry`). Recovery replaces `routing_state` and leaves
   `routing_operations`, from which retries are answered with
   `"durable": true`.
4. **A deletion may enter a result without a new revision** (`recovery_stale`). For an
   instance that the backup knows as deleted, `recoverWorker` marks the routers' record
   as deleted and takes the larger of the two revisions (`recover.go:189`). If the
   routers' is the larger, the record changes under the revision they have, and
   `accept` refuses it (`lib.rs:228`). This needs a backup from before the last recovery: an instance
   deleted in the backup, quarantined by the recovery, registered anew and published.
   The refused result stays in the journal and every repetition of the operation is
   refused too; NOTES.md:50 says a partial recovery picks back up. With a backup
   of the present incarnation it cannot happen, which `ResultStands` proves.

Observations that are no findings, since no document claims otherwise:

* A view that lacks an owner the proxy has already learnt of is refused as a
  whole (`proxy/src/dynamic.rs:69`), so a proxy cut off from the first router is
  held back until each worker has reached the second one. `RetirementArrives`
  has this as its premise `SecondConverged`.
* The extraction process of the image worker takes no lock and outlives its
  parent. If it changes its root only after a retry has formatted and mounted
  the volume anew, two extractions work in one tree. If one of them then ends
  half way, the marker of the other may hold the digest of a partial tree, which
  is sealed. `RegisteredIntact` and `OperationsComplete` have the absence of this
  case as a premise (`strayed`), which marks exactly the entry of an extraction
  into a volume formatted after its start; TLC finds the partial snapshot when
  the premise is dropped from `RegisteredIntact`.
* `owned()` looks at the mount and does not hold it. A PUT that has passed it when
  the volume is unmounted is written to the plain directory, acknowledged, and
  hidden by the next mount. `AcknowledgedStand` has the place of the file as its
  premise; what it shows is that nothing else can go wrong, not even unmounting
  between the link and the directory sync.
* Temporary files of a killed object store are never removed
  (`cmd/objects/main.go:97`); `MaxStrays` bounds them, since enough of them fill
  the volume. A body that finds the volume full is answered 400, not 507.
* A pending growth operation blocks every other one until it is reached. If the
  group's space is taken after it was recorded, nothing grows until the space is
  back (`ballast = 0` in `PutsArrive`).
* After a crash between rename and directory sync, a routing node serves an update
  that was never acknowledged and that a power failure may still take back
  (`routing/src/main.rs:290`). Only acknowledged updates are promised.
* The same holds for a proxy. If a save ends between rename and directory sync and the
  proxy is restarted, it serves the new cache file (`proxy/src/dynamic.rs:196`); a power
  failure may then bring the older file back, and a deleted instance with it, until a
  router is reached. TLC finds this when `PowerFails` keeps `withdrawn`. No document
  claims otherwise: NOTES.md:54 orders the steps of the save and says nothing of a
  start from a file that is not synced, and NOTES.md:86 makes no claim about power loss.
* A connection accepted just before a reload is activated is closed without being
  served (`proxy/src/main.rs:471`).

## 6. Proofs

The theorems hold for every value of the constants that satisfies the named
assumptions: any number of owners, instances, endpoints, credentials and operations,
any limits, any set of faults, any lists of targets and addresses. Each table has a row
for type correctness and one for each safety property of the runs.

### Pure functions: `RoutingStateProofs`, `SumProofs`

For every state in `State`, `Accepted`, `Frozen`, `Rebased`, `Recovered` and
`AfterRestart` give a state again, extend the history they start from, and keep
endpoints with the instances that hold them (`AcceptedIsState`, `AcceptedExtends`,
`AcceptedValid`; `FrozenKeeps`, `RebasedKeeps`, `RecoveredKeeps`, `AfterRestartKeeps`).
They also keep a state one that the node starts from (`AcceptedSound`, ...,
`SoundLoads`). `Extends` is reflexive and transitive, and `Valid` implies `Exclusive`
by `CanonicalAssumption`.

Sizes and permits are sums over finite sets, folds whose recursion takes an arbitrary
element off. `SumProofs` gets their equation without induction: the sum is the number
of units it counts, that number solves the equation of the fold, and a smallest
subset on which another solution differed from it would have to be empty. From this
follow `SumRemove`, `SumChange` and `SumBounded`, with which a change of one entry
becomes a change of the sum.

The same module replaces induction over numbers, whose theorem takes an operator the
provers cannot instantiate, by a smallest counterexample: `UpTo` says that a *set* with
zero that is closed under successors has all numbers up to n, because the intervals
`0 .. k` of the numbers it lacks would have a smallest one. `StepsExist` gives the function
that a recursion up to n defines.

### Routing node: `RoutingNodeProofs`

| Theorem | Property |
|---|---|
| `TypeCorrect` | `TypeOK` |
| `SaveProtocolHolds` | `SaveProtocol` |
| `AcknowledgedIsDurable` | `AcknowledgedSurvives` |
| `ServedIsDurable` | `ServedSurvivesCrash` |
| `ExclusiveAlways` | `EndpointsExclusive` |
| `FencingHolds` | `FencedNeverCommits` |
| `FrozenStands` | `FrozenHistoryStands` |
| `FreshIsConfirmed` | `FreshMeansConfirmed` |
| `StartsAlways` | `AlwaysStarts` |
| `DeletionsFit` | `DeletionAlwaysFits` |
| `PromiseKept` | `KeepsPromise`, the refinement of `RouteHistory` |
| `AtomicallyHandled` | `HandlesAtomically`, the refinement of `AtomicNode` |

The inductive invariant is `Inv == TypeOK /\ SaveProtocol`. `AcknowledgedSurvives`
is not inductive alone: whether a rename keeps acknowledged updates depends on
what the candidate was computed from, and whether a directory sync does depends
on what the file holds in that phase. `SaveProtocol` says both, phase by phase,
and implies the durability properties. One lemma per group of actions
(`BeginSaveKeepsInv`, `SaveKeepsInv`, `ActivateKeepsInv`, `FailureKeepsInv`)
gives `NextKeepsInv`. `FencingHolds` uses that the writer permit is exclusive.
`PromiseKept` maps `history` to `acknowledged` and `view` to the active state of a
node that is up.

`AtomicallyHandled` maps `view` to the same and `kept` to what a restart may find. Its
one addition to the invariant is `CandidateHandled`: what is being saved is what one
request makes of the state that is served, which no other request changes meanwhile. A
rename is then an `Attempt`, a directory sync or a failure a `Settle` or `Stop`, and
`Activate` a `Serve`, for which `SaveProtocol` supplies that nothing but the candidate can
be found any more. The steps in between stutter.

Above `Inv` stands `Kept`, with a part for each of three further questions.
`FenceInv`: how an acknowledged frozen history relates to the served state, the
candidate and every file that may survive. `FreshInv`: what a candidate marks fresh
was fresh in the served state or has just been sent by the publisher that holds the
permit. `SoundInv`: every one of these states is one the node could start from.
`AlwaysStarts` needs the last for the served state and the candidate too, since they
become files. `DeletionAlwaysFits` follows from `Sound` and the sums: the reserve in
`accept` counts each record in the form of its deletion.

### Worker: `RecoveryProofs`, first part

| Theorem | Property |
|---|---|
| `WorkerTypeCorrect` | `WorkerTypeOK` |
| `WorkerStaysAhead` | `WorkerAhead` |
| `OnlyVerifiedPosted` | `PostsVerifiedOnly` |
| `AnsweredStands` | `AnsweredIsDurable` |
| `ReserveHolds` | `DeletionReserve` |

`WorkerAhead` speaks of the routers and the database only; a post that is under way
would break it. `Inv` therefore follows a snapshot on its whole way: the loop's, each
post's and each router's is followed by the database (`Follows`). `LoopSound` says
which instances the loop has verified in this turn.

`WorkerIsRegistry`, that the daemon alone implements `Registry`, is proved with its
counterpart below.

### Recovery: `RecoveryProofs`, from the second part on

| Theorem | Property |
|---|---|
| `RecoveryTypeCorrect` | `RecoveryTypeOK` |
| `RecoveredStaysAhead` | `WorkerAhead`, across restorations |
| `TombstonesStand` | `TombstonesStay` |
| `FencedFirst` | `BothFenceFirst` |
| `ResultStands` | `ResultAcceptable` |
| `RecoveryIsRegistry` | `KeepsRegistry`, the refinement of `Registry` |

`RecoveryInv` says how far everything has got: what each router's entry is
(`Fenced` by the running operation, or has its result `Installed`), what the command's
step implies about both, and that without a guard the worker is ahead again. Late posts
are harmless because no post is of an incarnation a router has not reached, and
those of the incarnation before are refused by an entry that is fenced.

`HistoryInv` says why the two histories that the command merges fit together. All
copies of the database in its present incarnation (the loop's, the posts', the
routers', the backup) are one history until a result is journalled: of any two of
them one `Precedes` the other. So the merge of two routers is the later of their
copies, and the deletions that are taken over from a backup are of the same history.
`EntriesFit` is what `accept` looks at beyond the order (record limit, endpoints,
reserve); `MergedKnown` says what has been collected so far; `BackupKnown`, that a
journalled result is of a later incarnation than any backup.

For `KeepsRegistry`, a registration is `Register`, `Delete` or a stutter, a post that is
handled and each freeze and recover call at a router is `Publish`, since all of them
extend what the router has (`AcceptedExtends`, `FrozenKeeps`, `RecoveredKeeps`, and
`ExtendedStage` for what this means for a stage). `Restore` is `Suspend`. The step that
needs the invariant is `RemoveGuard`: it is `Resume` because the database is then the
result that every router has (`RemoveGuardResumes`); and a late post is no step ahead of
the intent because of `SnapshotsFollowed` after it.

All six theorems assume `~RerunComplete`; run `recovery_rerun` is the counterexample
otherwise. `ResultStands` also assumes `~StaleBackup`. This assumption was found by
the proof: the case of `Prepare` needs a backup of the same history, and TLC then
found the behaviour of finding 4, which run `recovery_stale` keeps.

### Proxies: `ProxyDynamicProofs`, `ProxyReloadProofs`

| Theorem | Property |
|---|---|
| `ProxyTypeCorrect` | `ProxyTypeOK` |
| `RetiredHolds` | `RetiredStaysRetired` |
| `RestartHolds` | `RestartsWithRoutes` |
| `ActivationsHold` | `ActivationsContinue` |
| `ReloadTypeCorrect` | `ReloadTypeOK` |
| `LimitsAlways` | `LimitsHold` |
| `PermitsAlwaysReturn` | `PermitsReturn` |
| `AcceptsStand` | `OneAcceptPerPort` |
| `SessionsAlwaysConnect` | `SessionsConnect` |

`ProxyInv` orders the views a proxy has or has written: what is served, the current
state, the cache, and the candidate each continue the one before; an activated view
is in whatever a power failure may leave until the accept loop takes it up
(`ActivatedSafe`). `WithdrawnBuried` says where the deletions are: every withdrawn
endpoint belongs to a deleted record of the cache and of what is in service, every
settled one also of all that a power failure may leave. `TakeView` may settle what it
withdraws by `ActivatedSafe`; `SaveSync` may because the cache is then all there is. An
endpoint belongs to one record of a valid view, so it is no target. That a candidate continues the current state is `validate`; the
transitivity of `RoutesContinue` does the rest.

`ReloadInv` says that an application has one living `Admission` object at most: the one
the loop's weak references name, or a running validation will name. `LimitsHold` is not
inductive: two living objects of one application would each admit up to the limit. An
object that a new view leaves out lives on in its sessions, and the reference finds it
again when the application returns; `PermitsReturn` then gives the limit by
arithmetic about sums.

`SessionsConnect` follows from `FallbackAlwaysReaches`, which says `FallbackReaches` of
`Connect` for every list of targets, every list of addresses and every timing. `InTurnRuns`
shows with `StepsExist` that the recursion of `InTurn` goes through the items one by one.
With `UpTo` follow that once there is a stream nothing else is tried (`StreamStays`), that
nothing outlasts the deadline and each stream is some item's (`InTurnBounds`), that a target
with enough time gets to its accepting address (`HealthyConnects`, over the sum of the
times of the addresses before it), and that its turn comes by the time those before it may
take at most (`TurnComes`). The same lemmas serve both loops.

### Object store and growth: `ObjectVolumeProofs`

| Theorem | Property |
|---|---|
| `VolumesTypeCorrect` | `VolumesTypeOK` |
| `AcknowledgedStays` | `AcknowledgedStand` |
| `ObjectsStayWhole` | `ObjectsWhole` |
| `GrowthIsAccounted` | `GrowthAccounted` |

Its inductive invariant has a part for each program and one for what they share,
`Inv == TypeInv /\ GrowInv /\ StoreInv`. `GrowthAccounted` alone does not survive
`Extend`: the call must still hold the row that is pending, and the size it read
must still be the size (`CallSound`). `AcknowledgedStand` alone does not survive
the answer of a PUT: a PUT behind its link has synced its content, or has found
the name, which nothing removes but a power failure that also ends the PUT
(`PutSound`); and what is not mounted has been written out, which matters when the
directory that is synced is the plain one. `VolumesTypeOK` needs that a volume is
never larger than its group and that a PUT beyond its first step has a place.
The steps of one program leave the other's part alone (`GrowthApart`,
`StoreApart`), so the proof of `NextKeepsInv` never treats the two together.

### Image worker: `ImageWorkerProofs`

| Theorem | Property |
|---|---|
| `ImageTypeCorrect` | `ImageTypeOK` |
| `RegisteredStays` | `RegisteredIntact` |
| `SealedStays` | `SealedStands` |

`ImageInv` relates the run that holds the lock to processes that do not: what the run
knows of its row and volume at each step (`RunKnows`, `StepFinds`), who may be inside a
mount (`MountsHold`), that a volume has one process at most that was started after it
was formatted last (`ChildrenKnown`), and that a marker stands for the whole tree as long
as no outdated process has entered (`MarkersTrue`). `RegisteredIntact` needs the last
two: the marker is written by the process, and a run that finds one believes it.

### Assumptions

The proofs rest on the named `ASSUME`s of the modules, and TLC evaluates each of them
in the runs.

* Values: `MaxU64Assumption`, `LimitAssumption`, `WorkerAssumption`,
  `VolumeAssumption`, `GrowAssumption`, `StoreAssumption`, ... say that numbers and
  limits are naturals and that tables have their types. `FiniteAssumption` and
  `ObjectsAssumption`: a configuration names finitely many owners and applications,
  identifiers have a bounded length, and a reload has two objects to choose from.
* `None`, `Nil` and `Corrupt` are no values of the other types
  (`NoneAssumption`, `NoneOwnerAssumption`, `FileAssumption`, `NoneJournalAssumption`,
  `NoneIntentAssumption`, `NilAssumption`, `NoneTaskAssumption`, `NoneStoreAssumption`).
* `ConnectAssumption`: times and the address limit are positive, and an application has
  at least one target.
* `CanonicalAssumption`: canonical addresses reach different sockets.
* `FreshAssumption`: a journal's credential, drawn from the system's random source, is
  not the one configured before.

Nothing is assumed of what the routing nodes serve beyond their own checks: the views
that a proxy polls are built by `Accepted`, `Frozen` and `Recovered`, and the lemmas
of `RoutingStateProofs` give what `ProxyInv` needs of them.

### Only model-checked

All liveness: `DeletionsArrive`, `RecoveryCompletes`, `RetirementArrives`,
`ReloadArrives`, `DrainEnds`, `PutsArrive`, `OperationsComplete`. Fairness and
ENABLED are beyond the prover.

## 7. Not modelled

* `GET /view`, health and status handlers: they read and change nothing.
* Parsing, formatting, HTTP and token syntax; copying of bytes. What DNS answers
  is data of `Connect`.
* `reconciled_ms`, delivery times and log contents: reported only.
* Unit files, transient mounts and network namespaces: external commands.
* Bounded listeners (`routing/src/listener.rs`, `workerListener`): a permit per
  connection and a deadline of ten seconds that limit how many requests reach the
  handlers. Which requests reach a handler, and when, is already arbitrary in the
  models.
* Identity checks of devices and markers (`edgelab_r2`, UUIDs, `.owner`): a mismatch
  ends the call before it changes anything.
* That a size reported by `resize2fs` outlives a power failure is taken from the
  file system; a resize that is cut short leaves any size in between.
* Test clients, laboratory scripts, evidence: no part of the running system.

## 8. Plan

Done: routing state and node, worker, recovery, both modes of the proxy with
`connect`, image worker, object store and growth controller; the abstract specifications
of the routing node and of worker and routers together; the proof of every safety property
that the passing runs check.

1. A run of the image worker for the extraction process that outlives its run,
   against NOTES.md:36 ("The CLI puts mutations in a line, one at a time"), and a
   second image.
2. The bounded listeners, as what limits which requests reach the handlers at once.
3. An abstract specification of a proxy that follows a `Registry` through the routing
   nodes.
