---------------------------- MODULE ProxyDynamic ----------------------------
(***************************************************************************)
(* A proxy in dynamic mode (proxy/src/dynamic.rs): the task that polls the *)
(* two routing nodes for their complete view, the cache file it keeps, and *)
(* the view the accept loop of main.rs takes its targets from.             *)
(*                                                                         *)
(* The poll asks the routers in the order of the configuration and takes   *)
(* the first view that continues its own.  The view is saved (temporary    *)
(* file, rename, sync of the directory) before it is activated; the accept *)
(* loop picks an activated view up some time later.  The proxy may die and *)
(* the machine lose power at every point, and a restart begins with the    *)
(* cache alone.                                                            *)
(*                                                                         *)
(* The two routing nodes accept the snapshots of History, each node at its *)
(* own time, as module Worker has them arrive.  The management listener    *)
(* and what it reports are left out, and so are generations: the cursor of *)
(* a poll only decides how long a router waits before it answers.          *)
(***************************************************************************)
EXTENDS RoutingState, Sequences

CONSTANTS
    History,      \* History[o]: the snapshots owner o publishes, oldest first
    Routed,       \* the applications of the proxy's configuration
    OwnerLimit,   \* owners a view may have
    Recoverer,    \* the operation that installs a new incarnation,
    NewHash,      \* and the credential it installs
    ProxyFaults   \* the kinds of failure that may happen

Routers == 1 .. 2

ASSUME ProxyAssumption ==
    /\ \A o \in Owners : History[o] \in Seq(Snapshot)
    /\ Routed \subseteq Apps
    /\ Recoverer \in Operations
    /\ NewHash \in Credentials
    /\ ProxyFaults \subseteq {"fetch", "save", "crash", "power"}

VARIABLES
    routers,    \* the state each routing node serves
    up,         \* the proxy runs
    current,    \* Status.current: the activated state, or None
    serving,    \* the state the accept loop's view was made from, or None
    poll,       \* where the polling task is
    cache,      \* the state in the cache file, None if there is none
    survivors,  \* what a power failure may leave of the cache file
    withdrawn,  \* history: endpoints of deleted records of views in service
    settled     \* history: those of them that a whole save stands behind

deletions == <<withdrawn, settled>>

proxyVars ==
    <<routers, up, current, serving, poll, cache, survivors, deletions>>

PollPhase == {"fetch", "rename", "sync", "activate"}

Poll == [router : Routers, phase : PollPhase, candidate : State \cup {None}]

PollAt(router) == [router |-> router, phase |-> "fetch", candidate |-> None]

ProxyTypeOK ==
    /\ routers \in [Routers -> State]
    /\ up \in BOOLEAN
    /\ current \in State \cup {None}
    /\ serving \in State \cup {None}
    /\ poll \in Poll
    /\ cache \in State \cup {None}
    /\ survivors \subseteq State \cup {None}
    /\ withdrawn \subseteq Endpoints
    /\ settled \subseteq Endpoints

ProxyInit ==
    /\ routers = [r \in Routers |-> EmptyState]
    /\ up = TRUE
    /\ current = None
    /\ serving = None
    /\ poll = PollAt(1)
    /\ cache = None
    /\ survivors = {None}
    /\ withdrawn = {}
    /\ settled = {}

-----------------------------------------------------------------------------
(***************************************************************************)
(* The routing nodes.                                                      *)
(***************************************************************************)
Installed(s, o, next) ==
    Recovered(Frozen(s, o, Recoverer), o, Recoverer, next, NewHash)

RouterAccepts(r, o, n) ==
    LET s == routers[r]
        next == History[o][n]
        t == IF next.incarnation = 1
             THEN Accepted(s, o, next)
             ELSE Installed(s, o, next)
    IN
    /\ IF next.incarnation = 1
       THEN CanCommit(s, o, next)
       ELSE /\ CanFreeze(s, o, Recoverer)
            /\ CanRecover(Frozen(s, o, Recoverer), o, Recoverer, next, NewHash)
    /\ routers' = [routers EXCEPT ![r] = [t EXCEPT !.generation = 0]]
    /\ UNCHANGED <<up, current, serving, poll, cache, survivors, deletions>>

-----------------------------------------------------------------------------
(***************************************************************************)
(* validate: the state is one that accept could have built, under the      *)
(* proxy's own policy, and it continues the state the proxy has.           *)
(***************************************************************************)
ProxyPolicy == INSTANCE RoutingState WITH Applications <- [o \in Owners |-> Routed]

Rebuilds(s) ==
    \A o \in Known(s) :
        ProxyPolicy!CanAccept(Without(s, o), o, s.owners[o].snapshot)

\* Mutant of ContinuesCached: a new incarnation is refused.
ContinuesIncarnation(previous, s) ==
    \A o \in Known(previous) :
        LET old == previous.owners[o].snapshot IN
        /\ s.owners[o] # None
        /\ s.owners[o].snapshot.incarnation = old.incarnation
        /\ \A i \in RecordIds(old) :
              RecordAdmissible(old.records[i], s.owners[o].snapshot.records[i])

ContinuesCached(previous, s) ==
    \A o \in Known(previous) :
        LET old == previous.owners[o].snapshot IN
        /\ s.owners[o] # None
        /\ s.owners[o].snapshot.incarnation >= old.incarnation
        /\ \A i \in RecordIds(old) :
              RecordAdmissible(old.records[i], s.owners[o].snapshot.records[i])

\* Mutant of Validates: the view is not compared with the one in use.
ValidatesAlone(s, previous) ==
    /\ ValidateMetadata(s)
    /\ Cardinality(Known(s)) <= OwnerLimit
    /\ Rebuilds(s)

Validates(s, previous) ==
    /\ ValidateMetadata(s)
    /\ Cardinality(Known(s)) <= OwnerLimit
    /\ Rebuilds(s)
    /\ previous # None => ContinuesCached(previous, s)

\* make_view: the endpoints of an application's live records.
Targets(s, app) ==
    IF s = None
    THEN {}
    ELSE {RecordOf(s, p[1], p[2]).endpoint : p \in
            {q \in Owners \X Ids :
                /\ RecordOf(s, q[1], q[2]) # None
                /\ RecordOf(s, q[1], q[2]).app = app
                /\ ~RecordOf(s, q[1], q[2]).deleted}}

-----------------------------------------------------------------------------
(***************************************************************************)
(* The polling task.                                                       *)
(***************************************************************************)
PollIn(phase) == up /\ poll.phase = phase

PollGoto(phase) == poll' = [poll EXCEPT !.phase = phase]

\* `continue' with the next router; behind the last one, sleep and begin anew.
NextRouter == PollAt(IF poll.router = 1 THEN 2 ELSE 1)

\* Mutant of Fetch: the view is activated without having been saved.
FetchUnsaved ==
    LET candidate == routers[poll.router] IN
    /\ PollIn("fetch")
    /\ poll' = IF Size(candidate) <= ViewLimit /\ Validates(candidate, current)
               THEN [poll EXCEPT !.phase = "activate", !.candidate = candidate]
               ELSE NextRouter
    /\ UNCHANGED <<routers, up, current, serving, cache, survivors, deletions>>

\* The view is validated against the current state, which only this task
\* replaces.
Fetch ==
    LET candidate == routers[poll.router] IN
    /\ PollIn("fetch")
    /\ poll' = IF Size(candidate) <= ViewLimit /\ Validates(candidate, current)
               THEN [poll EXCEPT !.phase = "rename", !.candidate = candidate]
               ELSE NextRouter
    /\ UNCHANGED <<routers, up, current, serving, cache, survivors, deletions>>

\* No answer within three seconds, or an error status.
FetchFails(r) ==
    /\ "fetch" \in ProxyFaults
    /\ PollIn("fetch")
    /\ poll.router = r
    /\ poll' = NextRouter
    /\ UNCHANGED <<routers, up, current, serving, cache, survivors, deletions>>

\* Mutant of SaveRename: the directory is not synced before the activation.
SaveRenameUnsynced ==
    /\ PollIn("rename")
    /\ PollGoto("activate")
    /\ cache' = poll.candidate
    /\ survivors' = survivors \cup {poll.candidate}
    /\ UNCHANGED <<routers, up, current, serving, deletions>>

\* storage::save.  The temporary file is written and synced apart from the
\* cache, which the rename then replaces; the rename lasts once the directory
\* is synced.
SaveRename ==
    /\ PollIn("rename")
    /\ PollGoto("sync")
    /\ cache' = poll.candidate
    /\ survivors' = survivors \cup {poll.candidate}
    /\ UNCHANGED <<routers, up, current, serving, deletions>>

SaveSync ==
    /\ PollIn("sync")
    /\ PollGoto("activate")
    /\ survivors' = {cache}
    /\ settled' = withdrawn
    /\ UNCHANGED <<routers, up, current, serving, cache, withdrawn>>

\* Any step of save returns an error: persistence_error, and the next router.
SaveFails ==
    /\ "save" \in ProxyFaults
    /\ PollIn("rename") \/ PollIn("sync")
    /\ poll' = NextRouter
    /\ UNCHANGED <<routers, up, current, serving, cache, survivors, deletions>>

Activate ==
    /\ PollIn("activate")
    /\ current' = poll.candidate
    /\ poll' = PollAt(1)
    /\ UNCHANGED <<routers, up, serving, cache, survivors, deletions>>

-----------------------------------------------------------------------------
\* The endpoints whose instances a state says are deleted.
Retired(s) ==
    IF s = None
    THEN {}
    ELSE {RecordOf(s, p[1], p[2]).endpoint : p \in
            {q \in Owners \X Ids :
                /\ RecordOf(s, q[1], q[2]) # None
                /\ RecordOf(s, q[1], q[2]).deleted}}

\* The accept loop's select takes the latest view from the watch channel.  That
\* view has been saved as a whole before.
TakeView ==
    /\ up
    /\ current # None
    /\ serving # current
    /\ serving' = current
    /\ withdrawn' = withdrawn \cup Retired(current)
    /\ settled' = withdrawn'
    /\ UNCHANGED <<routers, up, current, poll, cache, survivors>>

ProcessGone(kept) ==
    /\ up' = FALSE
    /\ current' = None
    /\ serving' = None
    /\ poll' = PollAt(1)
    /\ cache' = kept
    /\ UNCHANGED routers

\* The process is killed or has drained; the file system is as it was.
ProxyDies ==
    /\ "crash" \in ProxyFaults
    /\ up
    /\ ProcessGone(cache)
    /\ UNCHANGED <<survivors, deletions>>

\* What was in service from the file of a half-done save may go back.
PowerFails(kept) ==
    /\ "power" \in ProxyFaults
    /\ up
    /\ kept \in survivors
    /\ ProcessGone(kept)
    /\ survivors' = {kept}
    /\ withdrawn' = settled
    /\ UNCHANGED settled

\* start: a cache that does not validate leaves the proxy without a view, any
\* other is in service at once, whether or not its save was finished.
Start ==
    /\ ~up
    /\ up' = TRUE
    /\ current' = IF /\ cache # None
                     /\ Size(cache) <= ViewLimit
                     /\ Validates(AfterRestart(cache), None)
                  THEN AfterRestart(cache)
                  ELSE None
    /\ serving' = current'
    /\ withdrawn' = withdrawn \cup Retired(current')
    /\ settled' = IF survivors = {cache} THEN withdrawn' ELSE settled
    /\ UNCHANGED <<routers, poll, cache, survivors>>

PollStep ==
    \/ Fetch
    \/ SaveRename
    \/ SaveSync
    \/ Activate

ProxyNext ==
    \/ \E r \in Routers, o \in Owners :
          \E n \in 1 .. Len(History[o]) : RouterAccepts(r, o, n)
    \/ PollStep
    \/ \E r \in Routers : FetchFails(r)
    \/ SaveFails
    \/ TakeView
    \/ ProxyDies
    \/ \E kept \in survivors : PowerFails(kept)
    \/ Start

ProxySpec == ProxyInit /\ [][ProxyNext]_proxyVars

\* The poll is an endless loop with timeouts at each wait, the accept loop
\* watches for new views first, and the lab starts a proxy that is down.
FairProxySpec ==
    /\ ProxySpec
    /\ WF_proxyVars(PollStep)
    /\ WF_proxyVars(TakeView)
    /\ WF_proxyVars(Start)

-----------------------------------------------------------------------------
(***************************************************************************)
(* Properties.                                                             *)
(***************************************************************************)

\* Once a proxy has had a view in service in which an instance is deleted, it
\* never again sends a connection to that endpoint: not when the other router
\* is behind, not when a save failed half way, and not after a crash and a
\* restart from the cache.  This outlasts a power failure if a whole save has
\* followed the deletion: if the view was activated by the poll, or if the cache
\* file it was started from was in its directory to stay, or any view was saved
\* since.  Only a deletion in service from a file whose directory was never
\* synced may be undone, and by a power failure alone.
RetiredStaysRetired ==
    \A app \in Apps : Targets(serving, app) \cap withdrawn = {}

\* t has every route of s or its tombstone: no owner and no record is gone, and
\* no instance has moved.  What validate leaves open is the number of the
\* snapshot itself, which may be smaller when no record has changed.
RoutesContinue(s, t) ==
    \A o \in Known(s) :
        LET old == s.owners[o].snapshot IN
        /\ t.owners[o] # None
        /\ t.owners[o].snapshot.incarnation >= old.incarnation
        /\ \A i \in RecordIds(old) :
              RecordExtends(old.records[i], t.owners[o].snapshot.records[i])

\* The cache always validates again and holds at least what is in service, so
\* that a restart while both routers are away serves what was served before.
RestartsWithRoutes ==
    serving # None =>
        /\ cache # None
        /\ Size(cache) <= ViewLimit
        /\ Validates(AfterRestart(cache), None)
        /\ RoutesContinue(serving, cache)

\* Owners only grow and records only advance from one activated view to the
\* next, whichever router each came from.
ActivationsContinue ==
    [][current # None /\ current' # None =>
          RoutesContinue(current, current')]_proxyVars

\* Every worker has reached the second router with all it has to say.
SecondConverged ==
    \A o \in Owners :
        /\ routers[2].owners[o] # None
        /\ routers[2].owners[o].snapshot = History[o][Len(History[o])]

\* The second router does not answer, although its view would be taken.
SecondUnreachable == FetchFails(2) /\ ~Fetch

\* A deletion that both routers have accepted takes the endpoint out of
\* service, even if the first router is never reached again and whatever
\* saves failed before.  It takes the second router to have heard from every
\* worker: a view that lacks an owner which the proxy has learnt of from the
\* first router is refused as a whole.
RetirementArrives ==
    /\ <>[]SecondConverged
    /\ <>[][/\ ~ProxyDies
            /\ ~SaveFails
            /\ ~SecondUnreachable
            /\ \A kept \in survivors : ~PowerFails(kept)]_proxyVars
    => \A o \in Owners, i \in Ids :
          (\A r \in Routers :
              RecordOf(routers[r], o, i) # None /\ RecordOf(routers[r], o, i).deleted)
          ~> (serving # None /\ RecordOf(serving, o, i) # None
                 /\ RecordOf(serving, o, i).deleted)
=============================================================================
