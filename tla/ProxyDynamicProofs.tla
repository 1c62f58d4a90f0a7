------------------------- MODULE ProxyDynamicProofs -------------------------
(***************************************************************************)
(* Proofs for every history of every set of owners: what a proxy in        *)
(* dynamic mode has in service, in its cache file, in the file a power     *)
(* failure would leave and in its hands while it polls, and in which order *)
(* these views follow each other.                                          *)
(***************************************************************************)
EXTENDS ProxyDynamic, RoutingStateProofs

(***************************************************************************)
(* The inductive invariant.                                                *)
(***************************************************************************)

\* A view that a restarted proxy would take.
Restartable(s) ==
    /\ Size(s) <= ViewLimit
    /\ Validates(AfterRestart(s), None)

RoutersSound == \A r \in Routers : Valid(routers[r])

\* Every view the proxy has or has written is valid, and those on disk and
\* those on their way there can be started from.
ViewsSound ==
    /\ current # None => Valid(current)
    /\ serving # None => Valid(serving)
    /\ cache \in survivors
    /\ \A s \in (survivors \cup {poll.candidate}) \ {None} :
          Valid(s) /\ Restartable(s)

\* What the phase of the poll says of the files, and who is newer than whom.
Ordered ==
    /\ ~up => current = None /\ serving = None /\ poll = PollAt(1)
    /\ serving # None => current # None /\ RoutesContinue(serving, current)
    /\ current # None => cache # None /\ RoutesContinue(current, cache)
    /\ poll.phase # "fetch" => poll.candidate # None
    /\ poll.phase # "fetch" /\ current # None =>
          RoutesContinue(current, poll.candidate)
    /\ poll.phase \in {"sync", "activate"} => cache = poll.candidate
    /\ poll.phase = "activate" => survivors = {cache}

\* A view that has been activated is safe from a power failure until the
\* accept loop takes it up.
ActivatedSafe ==
    current # None /\ serving # current =>
        \A s \in survivors : s # None /\ RoutesContinue(current, s)

\* Every endpoint of gone belongs to a deleted record of s.
Buries(s, gone) ==
    s # None /\
    \A e \in gone :
        \E o \in Owners, i \in Ids :
            /\ RecordOf(s, o, i) # None
            /\ RecordOf(s, o, i).deleted
            /\ RecordOf(s, o, i).endpoint = e

\* What was withdrawn is buried in every view the proxy may have in service
\* without a power failure, what is settled also in what one may leave.
WithdrawnBuried ==
    /\ settled \subseteq withdrawn
    /\ settled # {} => \A s \in survivors : Buries(s, settled)
    /\ withdrawn # {} =>
          /\ Buries(cache, withdrawn)
          /\ up => Buries(current, withdrawn) /\ Buries(serving, withdrawn)

ProxyInv ==
    ProxyTypeOK /\ RoutersSound /\ ViewsSound /\ Ordered /\ ActivatedSafe
    /\ WithdrawnBuried

-----------------------------------------------------------------------------
(***************************************************************************)
(* Views that follow each other.                                           *)
(***************************************************************************)

\* Nothing is lost from a view to itself, nor by marking owners stale.
LEMMA ContinueSame ==
  ASSUME NEW s \in State, NEW t \in State, SameSnapshots(s, t)
  PROVE  RoutesContinue(s, t) /\ RoutesContinue(t, s)
<1>1. ASSUME NEW u \in State, NEW v \in State, SameSnapshots(u, v)
      PROVE  RoutesContinue(u, v)
  <2> SUFFICES ASSUME NEW o \in Known(u)
               PROVE  /\ v.owners[o] # None
                      /\ v.owners[o].snapshot = u.owners[o].snapshot
                      /\ u.owners[o].snapshot.incarnation \in Int
                      /\ \A i \in RecordIds(u.owners[o].snapshot) :
                            u.owners[o].snapshot.records[i] \in Record
    BY DEF RoutesContinue, RecordExtends, RecordIds, Record, U64
  <2>1. o \in Owners /\ u.owners[o] # None /\ u.owners[o] \in Owner
    BY DEF Known, State
  <2>2. v.owners[o] # None /\ v.owners[o].snapshot = u.owners[o].snapshot
    BY <1>1, <2>1 DEF SameSnapshots
  <2>3. QED
    BY <2>1, <2>2, MaxU64Assumption DEF Owner, Snapshot, U64, RecordIds
<1>2. SameSnapshots(t, s)
  BY DEF SameSnapshots
<1>3. QED
  BY <1>1, <1>2

\* What continues a continuation of a view continues the view.
LEMMA ContinueTransitive ==
  ASSUME NEW s \in State, NEW t \in State, NEW u \in State,
         RoutesContinue(s, t), RoutesContinue(t, u)
  PROVE  RoutesContinue(s, u)
<1> SUFFICES ASSUME NEW o \in Known(s)
             PROVE  /\ u.owners[o] # None
                    /\ u.owners[o].snapshot.incarnation >=
                          s.owners[o].snapshot.incarnation
                    /\ \A i \in RecordIds(s.owners[o].snapshot) :
                          RecordExtends(s.owners[o].snapshot.records[i],
                                        u.owners[o].snapshot.records[i])
  BY DEF RoutesContinue
<1> DEFINE a == s.owners[o].snapshot
           b == t.owners[o].snapshot
           c == u.owners[o].snapshot
<1>1. o \in Known(t) /\ b.incarnation >= a.incarnation
      /\ \A i \in RecordIds(a) : RecordExtends(a.records[i], b.records[i])
  BY DEF RoutesContinue, Known
<1>2. u.owners[o] # None /\ o \in Known(u) /\ c.incarnation >= b.incarnation
      /\ \A i \in RecordIds(b) : RecordExtends(b.records[i], c.records[i])
  BY <1>1 DEF RoutesContinue, Known
<1>3. a \in Snapshot /\ b \in Snapshot /\ c \in Snapshot
  BY <1>1, <1>2 DEF Known, State, Owner
<1> HIDE DEF a, b, c
<1>4. c.incarnation >= a.incarnation
  BY <1>1, <1>2, <1>3, MaxU64Assumption DEF Snapshot, U64
<1>5. ASSUME NEW i \in RecordIds(a)
      PROVE  RecordExtends(a.records[i], c.records[i])
  <2>1. RecordExtends(a.records[i], b.records[i]) /\ b.records[i] # None
    BY <1>1 DEF RecordExtends
  <2>2. RecordExtends(b.records[i], c.records[i])
    BY <1>2, <2>1 DEF RecordIds
  <2>3. /\ a.records[i] \in Record /\ b.records[i] \in Record
        /\ c.records[i] \in Record \cup {None}
    BY <1>3, <2>1 DEF Snapshot, RecordIds
  <2>4. QED
    BY <2>1, <2>2, <2>3, RecordExtendsTransitive
<1>6. QED
  BY <1>2, <1>4, <1>5 DEF a, c

\* A candidate that validate admits continues the view it was compared with.
LEMMA ValidatedContinues ==
  ASSUME NEW s, NEW t, s # None, Validates(t, s)
  PROVE  RoutesContinue(s, t)
<1>1. ContinuesCached(s, t)
  BY DEF Validates
<1>2. \A old, new : RecordAdmissible(old, new) => RecordExtends(old, new)
  BY Zenon DEF RecordAdmissible, RecordExtends
<1>3. QED
  BY <1>1, <1>2 DEF ContinuesCached, RoutesContinue

\* The records of an owner appear in a continuation, deleted ones as deleted.
LEMMA ContinuedRecord ==
  ASSUME NEW s \in State, NEW t \in State, RoutesContinue(s, t),
         NEW o \in Owners, NEW i \in Ids, RecordOf(s, o, i) # None
  PROVE  /\ RecordOf(t, o, i) # None
         /\ RecordOf(t, o, i).endpoint = RecordOf(s, o, i).endpoint
         /\ RecordOf(s, o, i).deleted => RecordOf(t, o, i).deleted
<1>1. o \in Known(s) /\ i \in RecordIds(s.owners[o].snapshot)
      /\ RecordOf(s, o, i) = s.owners[o].snapshot.records[i]
  BY DEF RecordOf, Known, RecordIds
<1>2. /\ t.owners[o] # None
      /\ RecordExtends(s.owners[o].snapshot.records[i],
                       t.owners[o].snapshot.records[i])
  BY <1>1 DEF RoutesContinue
<1>3. RecordOf(t, o, i) = t.owners[o].snapshot.records[i]
  BY <1>2 DEF RecordOf
<1>4. QED
  BY <1>1, <1>2, <1>3, Zenon DEF RecordExtends

\* A withdrawn endpoint stays withdrawn in every continuation.
LEMMA BuriedContinues ==
  ASSUME NEW s \in State, NEW t \in State, RoutesContinue(s, t),
         NEW gone, Buries(s, gone)
  PROVE  Buries(t, gone)
<1>1. t # None
  BY NoneOwnerAssumption
<1>2. ASSUME NEW e \in gone
      PROVE  \E o \in Owners, i \in Ids :
                /\ RecordOf(t, o, i) # None
                /\ RecordOf(t, o, i).deleted
                /\ RecordOf(t, o, i).endpoint = e
  <2>1. PICK o \in Owners, i \in Ids :
                /\ RecordOf(s, o, i) # None
                /\ RecordOf(s, o, i).deleted
                /\ RecordOf(s, o, i).endpoint = e
    BY DEF Buries
  <2>2. QED
    BY <2>1, ContinuedRecord
<1>3. QED
  BY <1>1, <1>2 DEF Buries

\* What a view retires are endpoints.
LEMMA RetiredEndpoints ==
  ASSUME NEW s \in State
  PROVE  Retired(s) \subseteq Endpoints
<1>1. \A o \in Owners, i \in Ids :
         RecordOf(s, o, i) # None => RecordOf(s, o, i) \in Record
  BY DEF RecordOf, State, Owner, Snapshot
<1>2. QED
  BY <1>1 DEF Retired, Record

\* The endpoints that a view retires itself stay withdrawn too.
LEMMA RetiredContinues ==
  ASSUME NEW s \in State, NEW t \in State, RoutesContinue(s, t),
         NEW gone, gone # {} => Buries(t, gone)
  PROVE  Buries(t, gone \cup Retired(s))
<1>1. t # None
  BY NoneOwnerAssumption
<1>2. ASSUME NEW e \in Retired(s)
      PROVE  \E o \in Owners, i \in Ids :
                /\ RecordOf(t, o, i) # None
                /\ RecordOf(t, o, i).deleted
                /\ RecordOf(t, o, i).endpoint = e
  <2>1. PICK o \in Owners, i \in Ids :
           /\ RecordOf(s, o, i) # None
           /\ RecordOf(s, o, i).deleted
           /\ RecordOf(s, o, i).endpoint = e
    BY DEF Retired
  <2>2. QED
    BY <2>1, ContinuedRecord
<1>3. QED
  BY <1>1, <1>2 DEF Buries

\* An endpoint belongs to one record, so a deleted one is no target.
LEMMA BuriedIsNoTarget ==
  ASSUME NEW s, Valid(s), NEW gone, Buries(s, gone), NEW app
  PROVE  Targets(s, app) \cap gone = {}
<1> SUFFICES ASSUME NEW e \in Targets(s, app), e \in gone
             PROVE  FALSE
  OBVIOUS
<1>1. PICK o \in Owners, i \in Ids :
         /\ RecordOf(s, o, i) # None
         /\ RecordOf(s, o, i).deleted
         /\ RecordOf(s, o, i).endpoint = e
  BY DEF Buries
<1>2. PICK p \in Owners, j \in Ids :
         /\ RecordOf(s, p, j) # None
         /\ ~RecordOf(s, p, j).deleted
         /\ RecordOf(s, p, j).endpoint = e
  BY DEF Targets, Buries
<1>3. p = o /\ j = i
  BY <1>1, <1>2 DEF Valid
<1>4. QED
  BY <1>1, <1>2, <1>3

-----------------------------------------------------------------------------
(***************************************************************************)
(* validate after a restart.                                               *)
(***************************************************************************)

\* The proxy's policy changes which applications are admitted, nothing else.
LEMMA PolicySame ==
  ASSUME NEW s, NEW o, NEW next
  PROVE  /\ ProxyPolicy!RecordIds(next) = RecordIds(next)
         /\ \A i, e : ProxyPolicy!ReservedByAnother(s, o, i, e)
                         <=> ReservedByAnother(s, o, i, e)
         /\ ProxyPolicy!Accepted(s, o, next) = Accepted(s, o, next)
         /\ ProxyPolicy!ReservedSize(s) = ReservedSize(s)
<1>1. ProxyPolicy!RecordIds(next) = RecordIds(next)
  BY DEF ProxyPolicy!RecordIds, RecordIds
<1>2. \A i, e : ProxyPolicy!ReservedByAnother(s, o, i, e)
                   <=> ReservedByAnother(s, o, i, e)
  BY DEF ProxyPolicy!ReservedByAnother, ReservedByAnother,
         ProxyPolicy!RecordOf, RecordOf
<1>3. ProxyPolicy!Accepted(s, o, next) = Accepted(s, o, next)
  BY DEF ProxyPolicy!Accepted, Accepted
<1>4. ProxyPolicy!ReservedSize(s) = ReservedSize(s)
  <2> DEFINE f == [p \in Known(s) |-> ReservedOwnerSize(s.owners[p])]
  <2>1. ProxyPolicy!Known(s) = Known(s)
    BY DEF ProxyPolicy!Known, Known
  <2>2. \A owner : ProxyPolicy!ReservedOwnerSize(owner) = ReservedOwnerSize(owner)
    <3>1. \A S : ProxyPolicy!Cardinality(S) = Cardinality(S)
      BY DEF ProxyPolicy!Cardinality, Cardinality
    <3>2. QED
      BY <3>1 DEF ProxyPolicy!ReservedOwnerSize, ReservedOwnerSize,
                  ProxyPolicy!RecordIds, RecordIds, ProxyPolicy!Width, Width
  <2>3. [p \in ProxyPolicy!Known(s) |-> ProxyPolicy!ReservedOwnerSize(s.owners[p])] = f
    BY <2>1, <2>2
  <2> HIDE DEF f
  <2>4. ProxyPolicy!SumFunction(f) = SumFunction(f)
    BY DEF ProxyPolicy!SumFunction, SumFunction,
           ProxyPolicy!SumFunctionOnSet, SumFunctionOnSet,
           ProxyPolicy!FoldFunctionOnSet, FoldFunctionOnSet,
           ProxyPolicy!MapThenFoldSet, MapThenFoldSet
  <2>5. ProxyPolicy!ReservedSize(s) = MaxU64 + ProxyPolicy!SumFunction(f)
    BY <2>3 DEF ProxyPolicy!ReservedSize, ProxyPolicy!Width
  <2>6. ReservedSize(s) = MaxU64 + SumFunction(f)
    BY DEF ReservedSize, Width, f
  <2>7. QED
    BY <2>4, <2>5, <2>6
<1>5. QED
  BY <1>1, <1>2, <1>3, <1>4

\* A view that validated once validates again after a restart, alone: nothing
\* that validate looks at depends on the flags that a restart changes.
LEMMA RestartValidates ==
  ASSUME NEW s \in State, NEW previous, Validates(s, previous)
  PROVE  Validates(AfterRestart(s), None)
<1> DEFINE t == AfterRestart(s)
<1>1. t \in State /\ SameSnapshots(s, t)
  BY AfterRestartKeeps
<1>2. Known(t) = Known(s)
  BY <1>1 DEF SameSnapshots, Known
<1>3. \A o \in Known(s) :
         /\ t.owners[o].snapshot = s.owners[o].snapshot
         /\ t.owners[o].credential_hash = s.owners[o].credential_hash
         /\ t.owners[o].recovery = s.owners[o].recovery
  <2> SUFFICES ASSUME NEW o \in Known(s)
               PROVE  /\ t.owners[o].snapshot = s.owners[o].snapshot
                      /\ t.owners[o].credential_hash = s.owners[o].credential_hash
                      /\ t.owners[o].recovery = s.owners[o].recovery
    OBVIOUS
  <2>1. o \in Owners /\ s.owners[o] # None /\ s.owners[o] \in Owner
    BY DEF Known, State
  <2>2. t.owners[o] = [s.owners[o] EXCEPT !.stale = TRUE]
    BY <2>1 DEF AfterRestart
  <2>3. QED
    BY <2>1, <2>2 DEF Owner
<1> HIDE DEF t
<1>4. ValidateMetadata(t)
  BY <1>2, <1>3 DEF Validates, ValidateMetadata
<1>5. ASSUME NEW o \in Known(s)
      PROVE  ProxyPolicy!CanAccept(Without(t, o), o, t.owners[o].snapshot)
  <2> DEFINE next == s.owners[o].snapshot
             b == Without(s, o)
             c == Without(t, o)
  <2>1. o \in Owners
    BY DEF Known
  <2>2. ProxyPolicy!CanAccept(b, o, next) /\ t.owners[o].snapshot = next
    BY <1>3 DEF Validates, Rebuilds
  <2>3. /\ b.generation = c.generation
        /\ b.owners[o] = None /\ c.owners[o] = None
        /\ b.owners = [s.owners EXCEPT ![o] = None]
        /\ c.owners = [t.owners EXCEPT ![o] = None]
    BY <1>1, <2>1 DEF Without, State
  <2>4. ReservedSize(Accepted(b, o, next)) = ReservedSize(Accepted(c, o, next))
    <3>1. ReservedSize(Accepted(b, o, next)) = ReservedSize(s)
      BY AddedBack
    <3>2. ReservedSize(Accepted(c, o, next)) = ReservedSize(t)
      BY <1>1, <1>2, <2>2, AddedBack
    <3>3. ReservedSize(t) = ReservedSize(s)
      BY <1>1, <1>2, <1>3, ReservedSame
    <3>4. QED
      BY <3>1, <3>2, <3>3
  <2>5. \A p \in Owners, j \in Ids : RecordOf(b, p, j) = RecordOf(c, p, j)
    <3>1. \A p \in Owners \ {o} :
             b.owners[p] = s.owners[p] /\ c.owners[p] = t.owners[p]
      BY <1>1, <2>3 DEF State
    <3>2. QED
      BY <1>1, <2>3, <3>1 DEF RecordOf, SameSnapshots
  <2>6. \A i, e : ReservedByAnother(b, o, i, e) <=> ReservedByAnother(c, o, i, e)
    BY <2>5 DEF ReservedByAnother
  <2>7. ProxyPolicy!RecordsValid(b, o, next)
    BY <2>2 DEF ProxyPolicy!CanAccept
  <2> HIDE DEF b, c, next
  <2>8. ProxyPolicy!RecordsValid(c, o, next)
    BY <2>6, <2>7, PolicySame DEF ProxyPolicy!RecordsValid
  <2>9. ProxyPolicy!ReservedSize(ProxyPolicy!Accepted(b, o, next)) =
        ProxyPolicy!ReservedSize(ProxyPolicy!Accepted(c, o, next))
    BY <2>4, PolicySame
  <2>10. ProxyPolicy!CanAccept(c, o, next)
    BY <2>2, <2>3, <2>8, <2>9 DEF ProxyPolicy!CanAccept
  <2>11. QED
    BY <2>2, <2>10 DEF c
<1>6. Rebuilds(t)
  BY <1>2, <1>5 DEF Rebuilds
<1>7. Validates(t, None)
  BY <1>2, <1>4, <1>6 DEF Validates
<1>8. QED
  BY <1>7 DEF t

-----------------------------------------------------------------------------
(***************************************************************************)
(* The steps of the routing nodes and of the polling task.                 *)
(***************************************************************************)

LEMMA ProxyInitInv == ProxyInit => ProxyInv
<1> SUFFICES ASSUME ProxyInit
             PROVE  ProxyInv
  OBVIOUS
<1> USE DEF ProxyInit
<1>1. ProxyTypeOK
  BY EmptyStateValid DEF ProxyTypeOK, PollAt, Poll, PollPhase, Routers
<1>2. RoutersSound
  BY EmptyStateValid DEF RoutersSound
<1>3. ViewsSound
  BY DEF ViewsSound, PollAt
<1>4. Ordered
  BY DEF Ordered, PollAt
<1>5. ActivatedSafe /\ WithdrawnBuried
  BY DEF ActivatedSafe, WithdrawnBuried
<1>6. QED
  BY <1>1, <1>2, <1>3, <1>4, <1>5 DEF ProxyInv

\* What a routing node accepts leaves it with a valid state.
LEMMA RouterKeeps ==
  ASSUME ProxyInv, NEW r \in Routers, NEW o \in Owners,
         NEW n \in 1 .. Len(History[o]), RouterAccepts(r, o, n)
  PROVE  ProxyInv'
<1> DEFINE s == routers[r]
           next == History[o][n]
           f == Frozen(s, o, Recoverer)
           t == IF next.incarnation = 1 THEN Accepted(s, o, next)
                                        ELSE Installed(s, o, next)
           u == [t EXCEPT !.generation = 0]
<1>1. s \in State /\ Valid(s) /\ next \in Snapshot
  BY ProxyAssumption DEF ProxyInv, ProxyTypeOK, RoutersSound
<1>2. t \in State /\ Valid(t)
  <2>1. CASE next.incarnation = 1
    <3>1. CanAccept(s, o, next)
      BY <2>1 DEF RouterAccepts, CanCommit
    <3>2. Accepted(s, o, next) \in State /\ Valid(Accepted(s, o, next))
      BY <1>1, <3>1, AcceptedIsState, AcceptedValid
    <3>3. QED
      BY <2>1, <3>2
  <2>2. CASE next.incarnation # 1
    <3>1. CanFreeze(s, o, Recoverer) /\ CanRecover(f, o, Recoverer, next, NewHash)
      BY <2>2 DEF RouterAccepts
    <3>2. f \in State /\ SameSnapshots(s, f)
      BY <1>1, <3>1, FrozenKeeps, ProxyAssumption
    <3>3. Valid(f)
      BY <1>1, <3>2, SameSnapshotsExtend
    <3> HIDE DEF f
    <3>4. /\ Recovered(f, o, Recoverer, next, NewHash) \in State
          /\ Valid(Recovered(f, o, Recoverer, next, NewHash))
      BY <1>1, <3>1, <3>2, <3>3, RecoveredKeeps, ProxyAssumption
    <3>5. t = Recovered(f, o, Recoverer, next, NewHash)
      BY <2>2 DEF Installed, f
    <3>6. QED
      BY <3>4, <3>5
  <2>3. QED
    BY <2>1, <2>2
<1>3. routers' = [routers EXCEPT ![r] = u]
  BY DEF RouterAccepts
<1> HIDE DEF t
<1>4. u \in State /\ u.owners = t.owners
  BY <1>2, MaxU64Assumption DEF State, U64
<1>5. SameSnapshots(t, u)
  BY <1>4 DEF SameSnapshots
<1>6. Valid(u)
  BY <1>2, <1>4, <1>5, SameSnapshotsExtend
<1> HIDE DEF u, s, next
<1>7. UNCHANGED <<up, current, serving, poll, cache, survivors, withdrawn, settled>>
  BY DEF RouterAccepts, deletions
<1>8. ProxyTypeOK'
  BY <1>3, <1>4, <1>7 DEF ProxyInv, ProxyTypeOK
<1>9. RoutersSound'
  BY <1>3, <1>6 DEF ProxyInv, ProxyTypeOK, RoutersSound
<1>10. ViewsSound' /\ Ordered'
  BY <1>7 DEF ProxyInv, ViewsSound, Ordered
<1>11. ActivatedSafe' /\ WithdrawnBuried'
  BY <1>7 DEF ProxyInv, ActivatedSafe, WithdrawnBuried
<1>12. QED
  BY <1>8, <1>9, <1>10, <1>11 DEF ProxyInv

\* The poll lets go of the view it has and turns to another router.
LEMMA LetGo ==
  ASSUME ProxyInv, NEW r \in Routers, up, poll' = PollAt(r),
         UNCHANGED <<routers, up, current, serving, cache, survivors, deletions>>
  PROVE  ProxyInv'
<1>1. /\ poll'.phase = "fetch" /\ poll'.candidate = None
      /\ poll' \in Poll
  BY DEF PollAt, Poll, PollPhase
<1>2. ProxyTypeOK' /\ RoutersSound'
  BY <1>1 DEF ProxyInv, ProxyTypeOK, RoutersSound, deletions
<1>3. ViewsSound'
  BY <1>1 DEF ProxyInv, ViewsSound
<1>4. Ordered'
  BY <1>1 DEF ProxyInv, Ordered
<1>5. ActivatedSafe' /\ WithdrawnBuried'
  BY DEF ProxyInv, ActivatedSafe, WithdrawnBuried, deletions
<1>6. QED
  BY <1>2, <1>3, <1>4, <1>5 DEF ProxyInv

LEMMA NextRouterKeeps ==
  ASSUME ProxyInv, up, poll' = NextRouter,
         UNCHANGED <<routers, up, current, serving, cache, survivors, deletions>>
  PROVE  ProxyInv'
<1>1. \E r \in Routers : poll' = PollAt(r)
  BY DEF NextRouter, Routers
<1>2. QED
  BY <1>1, LetGo

\* A view is taken in hand only if it continues the one in use and a restart
\* would take it.
LEMMA FetchKeeps ==
  ASSUME ProxyInv, Fetch
  PROVE  ProxyInv'
<1> DEFINE c == routers[poll.router]
<1>1. c \in State /\ c # None /\ Valid(c)
  BY NoneOwnerAssumption DEF ProxyInv, ProxyTypeOK, Poll, RoutersSound
<1>2. UNCHANGED <<routers, up, current, serving, cache, survivors, deletions>>
  BY DEF Fetch
<1>3. CASE ~(Size(c) <= ViewLimit /\ Validates(c, current))
  BY <1>2, <1>3, NextRouterKeeps DEF Fetch, PollIn
<1>4. CASE Size(c) <= ViewLimit /\ Validates(c, current)
  <2>1. poll' = [poll EXCEPT !.phase = "rename", !.candidate = c]
    BY <1>4 DEF Fetch
  <2> HIDE DEF c
  <2>2. Restartable(c)
    BY <1>1, <1>4, RestartValidates DEF Restartable
  <2>3. current # None => RoutesContinue(current, c)
    BY <1>4, ValidatedContinues
  <2>4. /\ poll' \in Poll
        /\ poll'.phase = "rename" /\ poll'.candidate = c
    BY <1>1, <2>1 DEF ProxyInv, ProxyTypeOK, Poll, PollPhase
  <2>5. ProxyTypeOK' /\ RoutersSound'
    BY <1>2, <2>4 DEF ProxyInv, ProxyTypeOK, RoutersSound, deletions
  <2>6. ViewsSound'
    BY <1>1, <1>2, <2>2, <2>4 DEF ProxyInv, ViewsSound
  <2>7. Ordered'
    BY <1>1, <1>2, <2>3, <2>4 DEF ProxyInv, Ordered, Fetch, PollIn
  <2>8. ActivatedSafe' /\ WithdrawnBuried'
    BY <1>2 DEF ProxyInv, ActivatedSafe, WithdrawnBuried, deletions
  <2>9. QED
    BY <2>5, <2>6, <2>7, <2>8 DEF ProxyInv
<1>5. QED
  BY <1>3, <1>4

\* The view in hand becomes the cache file, or will after a power failure.
LEMMA SaveRenameKeeps ==
  ASSUME ProxyInv, SaveRename
  PROVE  ProxyInv'
<1> DEFINE c == poll.candidate
<1>1. /\ up /\ poll.phase = "rename" /\ poll \in Poll
      /\ poll' = [poll EXCEPT !.phase = "sync"]
      /\ cache' = c /\ survivors' = survivors \cup {c}
      /\ UNCHANGED <<routers, up, current, serving, withdrawn, settled>>
  BY DEF SaveRename, PollIn, PollGoto, ProxyInv, ProxyTypeOK, deletions
<1>2. /\ c \in State /\ c # None
      /\ current # None => RoutesContinue(current, c)
  BY <1>1 DEF ProxyInv, Ordered, Poll
<1>3. /\ poll' \in Poll
      /\ poll'.phase = "sync" /\ poll'.candidate = c
  BY <1>1 DEF Poll, PollPhase
<1> HIDE DEF c
<1>4. ProxyTypeOK' /\ RoutersSound'
  BY <1>1, <1>2, <1>3 DEF ProxyInv, ProxyTypeOK, RoutersSound
<1>5. ViewsSound'
  BY <1>1, <1>2, <1>3 DEF ProxyInv, ViewsSound, c
<1>6. Ordered'
  BY <1>1, <1>2, <1>3 DEF ProxyInv, Ordered
<1>7. ActivatedSafe'
  BY <1>1, <1>2 DEF ProxyInv, ActivatedSafe
<1>8. WithdrawnBuried'
  <2>1. ASSUME NEW gone, gone # {}, gone \subseteq withdrawn
        PROVE  Buries(c, gone)
    <3>1. Buries(current, withdrawn) /\ current \in State
      BY <1>1, <2>1 DEF ProxyInv, WithdrawnBuried, ProxyTypeOK, Buries
    <3>2. Buries(c, withdrawn)
      BY <1>2, <3>1, BuriedContinues, NoneOwnerAssumption
    <3>3. QED
      BY <2>1, <3>2 DEF Buries
  <2>2. QED
    BY <1>1, <2>1 DEF ProxyInv, WithdrawnBuried
<1>9. QED
  BY <1>4, <1>5, <1>6, <1>7, <1>8 DEF ProxyInv

\* From here on a power failure leaves the new view.
LEMMA SaveSyncKeeps ==
  ASSUME ProxyInv, SaveSync
  PROVE  ProxyInv'
<1>1. /\ up /\ poll.phase = "sync" /\ poll \in Poll
      /\ poll' = [poll EXCEPT !.phase = "activate"]
      /\ survivors' = {cache} /\ settled' = withdrawn
      /\ UNCHANGED <<routers, up, current, serving, cache, withdrawn>>
  BY DEF SaveSync, PollIn, PollGoto, ProxyInv, ProxyTypeOK
<1>2. /\ cache \in survivors /\ cache = poll.candidate /\ cache # None
      /\ current # None => RoutesContinue(current, cache)
  BY <1>1 DEF ProxyInv, Ordered, ViewsSound
<1>3. /\ poll' \in Poll
      /\ poll'.phase = "activate" /\ poll'.candidate = poll.candidate
  BY <1>1 DEF Poll, PollPhase
<1>4. ProxyTypeOK' /\ RoutersSound'
  BY <1>1, <1>2, <1>3 DEF ProxyInv, ProxyTypeOK, RoutersSound
<1>5. ViewsSound'
  BY <1>1, <1>2, <1>3 DEF ProxyInv, ViewsSound
<1>6. Ordered'
  BY <1>1, <1>2, <1>3 DEF ProxyInv, Ordered
<1>7. ActivatedSafe'
  BY <1>1, <1>2 DEF ActivatedSafe
<1>8. WithdrawnBuried'
  BY <1>1, <1>2 DEF ProxyInv, WithdrawnBuried
<1>9. QED
  BY <1>4, <1>5, <1>6, <1>7, <1>8 DEF ProxyInv

\* The new view is activated behind the save.
LEMMA ActivateKeeps ==
  ASSUME ProxyInv, Activate
  PROVE  /\ ProxyInv'
         /\ current # None => RoutesContinue(current, current')
<1> DEFINE c == poll.candidate
<1>1. /\ up /\ poll.phase = "activate" /\ poll \in Poll
      /\ poll' = PollAt(1) /\ current' = c
      /\ UNCHANGED <<routers, up, serving, cache, survivors, withdrawn, settled>>
  BY DEF Activate, PollIn, ProxyInv, ProxyTypeOK, deletions
<1>2. /\ c \in State /\ c # None /\ cache = c /\ survivors = {c} /\ Valid(c)
      /\ current # None => RoutesContinue(current, c)
  BY <1>1 DEF ProxyInv, Ordered, ViewsSound, Poll
<1>3. /\ poll'.phase = "fetch" /\ poll'.candidate = None
      /\ poll' \in Poll
  BY <1>1 DEF PollAt, Poll, PollPhase, Routers
<1>4. RoutesContinue(c, c)
  BY <1>2, ContinueSame DEF SameSnapshots
<1>5. current \in State \cup {None} /\ serving \in State \cup {None}
  BY DEF ProxyInv, ProxyTypeOK
<1> HIDE DEF c
<1>6. ProxyTypeOK' /\ RoutersSound'
  BY <1>1, <1>2, <1>3 DEF ProxyInv, ProxyTypeOK, RoutersSound
<1>7. ViewsSound'
  BY <1>1, <1>2, <1>3 DEF ProxyInv, ViewsSound
<1>8. Ordered'
  <2>1. serving # None => RoutesContinue(serving, c)
    <3>1. serving # None => current # None /\ RoutesContinue(serving, current)
      BY DEF ProxyInv, Ordered
    <3>2. QED
      BY <1>2, <1>5, <3>1, ContinueTransitive
  <2>2. QED
    BY <1>1, <1>2, <1>3, <1>4, <2>1 DEF Ordered
<1>9. ActivatedSafe'
  BY <1>1, <1>2, <1>4 DEF ActivatedSafe
<1>10. WithdrawnBuried'
  BY <1>1, <1>2 DEF ProxyInv, WithdrawnBuried
<1>11. QED
  BY <1>1, <1>2, <1>6, <1>7, <1>8, <1>9, <1>10 DEF ProxyInv

-----------------------------------------------------------------------------
(***************************************************************************)
(* The accept loop, failures and the restart.                              *)
(***************************************************************************)

\* What the accept loop takes up is by then safe from a power failure.
LEMMA TakeViewKeeps ==
  ASSUME ProxyInv, TakeView
  PROVE  ProxyInv'
<1> DEFINE gone == withdrawn \cup Retired(current)
<1>1. /\ up /\ current # None /\ serving # current
      /\ serving' = current /\ withdrawn' = gone /\ settled' = gone
      /\ UNCHANGED <<routers, up, current, poll, cache, survivors>>
  BY DEF TakeView
<1>2. current \in State /\ RoutesContinue(current, current)
  BY <1>1, ContinueSame DEF ProxyInv, ProxyTypeOK, SameSnapshots
<1>3. Retired(current) \subseteq Endpoints
  BY <1>2, RetiredEndpoints
<1>4. Buries(current, gone)
  BY <1>1, <1>2, RetiredContinues DEF ProxyInv, WithdrawnBuried
<1>5. ASSUME NEW s \in survivors
      PROVE  Buries(s, gone)
  <2>1. s \in State /\ RoutesContinue(current, s)
    BY <1>1 DEF ProxyInv, ProxyTypeOK, ActivatedSafe
  <2>2. withdrawn # {} => Buries(s, withdrawn)
    BY <1>1, <1>2, <2>1, BuriedContinues DEF ProxyInv, WithdrawnBuried
  <2>3. QED
    BY <1>2, <2>1, <2>2, RetiredContinues
<1> HIDE DEF gone
<1>6. ProxyTypeOK' /\ RoutersSound'
  BY <1>1, <1>2, <1>3 DEF ProxyInv, ProxyTypeOK, RoutersSound, gone
<1>7. ViewsSound'
  BY <1>1 DEF ProxyInv, ViewsSound
<1>8. Ordered'
  BY <1>1, <1>2 DEF ProxyInv, Ordered
<1>9. ActivatedSafe'
  BY <1>1 DEF ActivatedSafe
<1>10. WithdrawnBuried'
  <2>1. cache \in survivors
    BY DEF ProxyInv, ViewsSound
  <2>2. QED
    BY <1>1, <1>4, <1>5, <2>1 DEF WithdrawnBuried
<1>11. QED
  BY <1>6, <1>7, <1>8, <1>9, <1>10 DEF ProxyInv

\* A proxy that is gone has left its cache file, or an older one that a power
\* failure has brought back.
LEMMA GoneKeeps ==
  ASSUME ProxyInv, NEW kept \in survivors, ProcessGone(kept),
         survivors' \subseteq survivors, kept \in survivors',
         settled' = settled,
         withdrawn' = settled \/ (withdrawn' = withdrawn /\ kept = cache)
  PROVE  ProxyInv'
<1>1. /\ up' = FALSE /\ current' = None /\ serving' = None /\ cache' = kept
      /\ poll' = PollAt(1)
      /\ UNCHANGED routers
  BY DEF ProcessGone
<1>2. /\ poll'.phase = "fetch" /\ poll'.candidate = None
      /\ poll' \in Poll
  BY <1>1 DEF PollAt, Poll, PollPhase, Routers
<1>3. ProxyTypeOK' /\ RoutersSound'
  BY <1>1, <1>2 DEF ProxyInv, ProxyTypeOK, RoutersSound
<1>4. ViewsSound'
  BY <1>1, <1>2 DEF ProxyInv, ViewsSound
<1>5. Ordered'
  BY <1>1, <1>2 DEF Ordered, PollAt
<1>6. ActivatedSafe' /\ WithdrawnBuried'
  BY <1>1 DEF ProxyInv, ActivatedSafe, WithdrawnBuried
<1>7. QED
  BY <1>3, <1>4, <1>5, <1>6 DEF ProxyInv

\* The restarted proxy takes up what its cache file says.
LEMMA StartKeeps ==
  ASSUME ProxyInv, Start
  PROVE  ProxyInv'
<1> DEFINE c == AfterRestart(cache)
<1>1. /\ ~up /\ up' = TRUE /\ serving' = current'
      /\ withdrawn' = withdrawn \cup Retired(current')
      /\ settled' = IF survivors = {cache} THEN withdrawn' ELSE settled
      /\ UNCHANGED <<routers, poll, cache, survivors>>
  BY DEF Start
<1>2. /\ current = None /\ poll = PollAt(1)
      /\ poll.phase = "fetch" /\ poll.candidate = None
  BY <1>1 DEF ProxyInv, Ordered, PollAt
<1>3. cache # None =>
         /\ cache \in State /\ cache \in survivors
         /\ Valid(cache) /\ Restartable(cache)
  BY DEF ProxyInv, ProxyTypeOK, ViewsSound
<1>4. current' = IF cache = None THEN None ELSE c
  BY <1>3 DEF Start, Restartable
<1>5. cache # None =>
         /\ c \in State /\ Valid(c)
         /\ RoutesContinue(c, c) /\ RoutesContinue(c, cache)
         /\ RoutesContinue(cache, c)
  <2>1. cache # None => c \in State /\ SameSnapshots(cache, c)
    BY <1>3, AfterRestartKeeps
  <2> HIDE DEF c
  <2>2. cache # None => Valid(c)
    BY <1>3, <2>1, SameSnapshotsExtend
  <2>3. cache # None => RoutesContinue(c, cache) /\ RoutesContinue(cache, c)
    BY <1>3, <2>1, ContinueSame
  <2>4. cache # None => RoutesContinue(c, c)
    BY <2>1, ContinueSame DEF SameSnapshots
  <2>5. QED
    BY <2>1, <2>2, <2>3, <2>4
<1> HIDE DEF c
<1>6. ProxyTypeOK' /\ RoutersSound'
  <2>1. Retired(current') \subseteq Endpoints
    <3>1. cache # None => Retired(c) \subseteq Endpoints
      BY <1>5, RetiredEndpoints
    <3>2. QED
      BY <1>4, <3>1 DEF Retired
  <2>2. QED
    BY <1>1, <1>4, <1>5, <2>1 DEF ProxyInv, ProxyTypeOK, RoutersSound
<1>7. ViewsSound'
  BY <1>1, <1>2, <1>4, <1>5 DEF ProxyInv, ViewsSound
<1>8. Ordered'
  BY <1>1, <1>2, <1>4, <1>5 DEF Ordered
<1>9. ActivatedSafe'
  BY <1>1 DEF ActivatedSafe
<1>10. WithdrawnBuried'
  <2>1. withdrawn # {} => cache # None /\ Buries(cache, withdrawn)
    BY DEF ProxyInv, WithdrawnBuried, Buries
  <2>2. CASE cache = None
    <3>1. withdrawn' = {} /\ settled' = {}
      BY <1>1, <1>4, <2>1, <2>2 DEF Retired, ProxyInv, WithdrawnBuried
    <3>2. QED
      BY <3>1 DEF WithdrawnBuried
  <2>3. CASE cache # None
    <3>1. withdrawn' = withdrawn \cup Retired(c)
      BY <1>1, <1>4, <2>3
    <3>2. withdrawn # {} => Buries(c, withdrawn)
      BY <1>3, <1>5, <2>1, BuriedContinues
    <3>3. Buries(c, withdrawn') /\ Buries(cache, withdrawn')
      <4>1. Buries(c, withdrawn \cup Retired(c))
        BY <1>5, <2>3, <3>2, RetiredContinues
      <4>2. Buries(cache, withdrawn \cup Retired(c))
        BY <1>3, <1>5, <2>1, <2>3, RetiredContinues
      <4>3. QED
        BY <3>1, <4>1, <4>2
    <3>4. settled' \subseteq withdrawn'
      BY <1>1 DEF ProxyInv, WithdrawnBuried
    <3>5. settled' # {} => \A s \in survivors : Buries(s, settled')
      BY <1>1, <3>3 DEF ProxyInv, WithdrawnBuried
    <3>6. QED
      BY <1>1, <1>4, <2>3, <3>3, <3>4, <3>5 DEF WithdrawnBuried
  <2>4. QED
    BY <2>2, <2>3
<1>11. QED
  BY <1>6, <1>7, <1>8, <1>9, <1>10 DEF ProxyInv

LEMMA ProxyStutterKeeps ==
  ASSUME ProxyInv, UNCHANGED proxyVars
  PROVE  ProxyInv'
<1>1. ProxyTypeOK' /\ RoutersSound' /\ ViewsSound'
  BY DEF proxyVars, deletions, ProxyInv, ProxyTypeOK, RoutersSound, ViewsSound
<1>2. Ordered' /\ ActivatedSafe' /\ WithdrawnBuried'
  BY DEF proxyVars, deletions, ProxyInv, Ordered, ActivatedSafe, WithdrawnBuried
<1>3. QED
  BY <1>1, <1>2 DEF ProxyInv

LEMMA ProxyNextKeeps ==
  ASSUME ProxyInv, [ProxyNext]_proxyVars
  PROVE  ProxyInv'
<1>1. CASE \E r \in Routers, o \in Owners :
              \E n \in 1 .. Len(History[o]) : RouterAccepts(r, o, n)
  BY <1>1, RouterKeeps
<1>2. CASE PollStep
  BY <1>2, FetchKeeps, SaveRenameKeeps, SaveSyncKeeps, ActivateKeeps DEF PollStep
<1>3. CASE (\E r \in Routers : FetchFails(r)) \/ SaveFails
  BY <1>3, NextRouterKeeps DEF FetchFails, SaveFails, PollIn
<1>4. CASE TakeView
  BY <1>4, TakeViewKeeps
<1>5. CASE ProxyDies
  <2>1. cache \in survivors
    BY DEF ProxyInv, ViewsSound
  <2>2. QED
    BY <1>5, <2>1, GoneKeeps DEF ProxyDies, deletions
<1>6. CASE \E kept \in survivors : PowerFails(kept)
  BY <1>6, GoneKeeps DEF PowerFails
<1>7. CASE Start
  BY <1>7, StartKeeps
<1>8. CASE UNCHANGED proxyVars
  BY <1>8, ProxyStutterKeeps
<1>9. QED
  BY <1>1, <1>2, <1>3, <1>4, <1>5, <1>6, <1>7, <1>8 DEF ProxyNext

-----------------------------------------------------------------------------
(***************************************************************************)
(* The theorems.                                                           *)
(***************************************************************************)

\* The inductive invariant holds in every reachable state of the proxy.
THEOREM ProxyInvHolds == ProxySpec => []ProxyInv
<1>1. ProxyInit => ProxyInv
  BY ProxyInitInv
<1>2. ProxyInv /\ [ProxyNext]_proxyVars => ProxyInv'
  BY ProxyNextKeeps
<1>3. QED
  BY <1>1, <1>2, PTL DEF ProxySpec

\* The views, the cache file and the poll are always of their types.
THEOREM ProxyTypeCorrect == ProxySpec => []ProxyTypeOK
<1>1. ProxyInv => ProxyTypeOK
  BY DEF ProxyInv
<1>2. QED
  BY <1>1, ProxyInvHolds, PTL

\* make_view, save and start: an endpoint that the proxy has had in service as
\* deleted is no target again, whichever router answers and whatever fails; only
\* a power failure takes back what no whole save has followed.
THEOREM RetiredHolds == ProxySpec => []RetiredStaysRetired
<1>1. ProxyInv => RetiredStaysRetired
  <2> SUFFICES ASSUME ProxyInv, NEW app \in Apps
               PROVE  Targets(serving, app) \cap withdrawn = {}
    BY DEF RetiredStaysRetired
  <2>1. CASE serving = None
    BY <2>1 DEF Targets
  <2>2. CASE serving # None /\ withdrawn # {}
    <3>1. up /\ Valid(serving)
      BY <2>2 DEF ProxyInv, Ordered, ViewsSound
    <3>2. Buries(serving, withdrawn)
      BY <2>2, <3>1 DEF ProxyInv, WithdrawnBuried
    <3>3. QED
      BY <3>1, <3>2, BuriedIsNoTarget
  <2>3. QED
    BY <2>1, <2>2
<1>2. QED
  BY <1>1, ProxyInvHolds, PTL

\* storage::save and start: the cache file of a proxy with routes can be
\* started from and holds at least these routes.
THEOREM RestartHolds == ProxySpec => []RestartsWithRoutes
<1>1. ProxyInv => RestartsWithRoutes
  <2> SUFFICES ASSUME ProxyInv, serving # None
               PROVE  /\ cache # None
                      /\ Restartable(cache)
                      /\ RoutesContinue(serving, cache)
    BY DEF RestartsWithRoutes, Restartable
  <2>1. /\ current # None /\ cache # None
        /\ RoutesContinue(serving, current) /\ RoutesContinue(current, cache)
    BY DEF ProxyInv, Ordered
  <2>2. serving \in State /\ current \in State /\ cache \in State
    BY <2>1 DEF ProxyInv, ProxyTypeOK
  <2>3. Restartable(cache)
    BY <2>1 DEF ProxyInv, ViewsSound
  <2>4. QED
    BY <2>1, <2>2, <2>3, ContinueTransitive
<1>2. QED
  BY <1>1, ProxyInvHolds, PTL

\* poll: each activated view has every route of the one before or its
\* tombstone.
THEOREM ActivationsHold == ProxySpec => ActivationsContinue
<1>1. ProxyInv /\ [ProxyNext]_proxyVars =>
         [current # None /\ current' # None =>
             RoutesContinue(current, current')]_proxyVars
  <2> SUFFICES ASSUME ProxyInv, ProxyNext, current # None, current' # None
               PROVE  RoutesContinue(current, current')
    OBVIOUS
  <2>1. CASE Activate
    BY <2>1, ActivateKeeps
  <2>2. CASE current' = current
    <3>1. current \in State
      BY DEF ProxyInv, ProxyTypeOK
    <3>2. RoutesContinue(current, current)
      BY <3>1, ContinueSame DEF SameSnapshots
    <3>3. QED
      BY <2>2, <3>2
  <2>3. CASE Start
    BY <2>3 DEF Start, ProxyInv, Ordered
  <2>4. Activate \/ current' = current \/ Start
    BY DEF ProxyNext, RouterAccepts, PollStep, Fetch, SaveRename, SaveSync,
           FetchFails, SaveFails, TakeView, ProxyDies, PowerFails, ProcessGone
  <2>5. QED
    BY <2>1, <2>2, <2>3, <2>4
<1>2. QED
  BY <1>1, ProxyInvHolds, PTL DEF ProxySpec, ActivationsContinue
=============================================================================
