------------------------- MODULE RoutingNodeProofs --------------------------
(***************************************************************************)
(* Proofs for every set of owners, snapshots, operations and credentials   *)
(* and for every bound: the type invariant of RoutingNode, the invariant   *)
(* of its save protocol, and what follows from it for acknowledged and     *)
(* served state.  States are opaque here: all that is used of accept,      *)
(* freeze, recover and after_restart are the lemmas of RoutingStateProofs. *)
(***************************************************************************)
EXTENDS RoutingNode, RoutingStateProofs

\* The inductive invariant.
Inv == TypeOK /\ SaveProtocol

\* A freeze candidate is a state that extends and is as valid as its base.
LEMMA FrozenGood ==
  ASSUME NEW s \in State, NEW o \in Owners, NEW op \in Operations,
         CanFreeze(s, o, op), Valid(s)
  PROVE  /\ Frozen(s, o, op) \in State
         /\ Extends(s, Frozen(s, o, op))
         /\ Valid(Frozen(s, o, op))
  BY FrozenKeeps, SameSnapshotsExtend

\* The state served after a restart is the one on disk, marked stale.
LEMMA RestartedGood ==
  ASSUME NEW s \in State, Valid(s)
  PROVE  /\ AfterRestart(s) \in State
         /\ Extends(s, AfterRestart(s))
         /\ Extends(AfterRestart(s), s)
         /\ Valid(AfterRestart(s))
  BY AfterRestartKeeps, SameSnapshotsExtend

\* A request that takes the lock has a candidate that builds on the active
\* state; nothing else changes.
LEMMA BeginSaveKeepsInv ==
  ASSUME Inv, up, writer = None,
         NEW o \in Owners, NEW expected \in Credentials \cup {None},
         NEW candidate \in State,
         Extends(active, candidate), Valid(candidate),
         candidate.owners[o] # None,
         BeginSave(o, expected, candidate),
         authenticated' \in SUBSET Request,
         UNCHANGED <<up, active, temporary, disk, survivors, acknowledged,
                     confirmed>>
  PROVE  Inv'
<1>1. writer' \in Writer
  BY DEF BeginSave, Writer, Phase
<1>2. TypeOK'
  BY <1>1 DEF Inv, TypeOK
<1>3. WriterInv'
  BY <1>1 DEF BeginSave, WriterInv, Writer, Phase
<1>4. FilesInv' /\ ServedInv'
  BY DEF Inv, SaveProtocol, FilesInv, ServedInv
<1>5. QED
  BY <1>2, <1>3, <1>4 DEF Inv, SaveProtocol

\* The four steps of storage::save keep the files what the phase says.
LEMMA SaveKeepsInv ==
  ASSUME Inv, Save
  PROVE  Inv'
<1> USE DEF Inv, SaveProtocol
<1>1. CASE SaveWrite
  <2>1. writer \in Writer /\ writer' \in Writer /\ temporary' \in TemporaryFile
    BY <1>1 DEF SaveWrite, At, TypeOK, Writer, Phase, TemporaryFile
  <2>2. TypeOK'
    BY <1>1, <2>1 DEF SaveWrite, TypeOK
  <2>3. WriterInv'
    BY <1>1, <2>1, FileAssumption
    DEF SaveWrite, At, WriterInv, Writer, TemporaryFile
  <2>4. FilesInv' /\ ServedInv'
    BY <1>1 DEF SaveWrite, FilesInv, ServedInv
  <2>5. QED
    BY <2>2, <2>3, <2>4
<1>2. CASE SaveSync
  <2>1. /\ writer \in Writer /\ writer' \in Writer
        /\ temporary \in TemporaryFile /\ temporary' \in TemporaryFile
        /\ temporary'.synced = TRUE
        /\ temporary'.contents = temporary.contents
    BY <1>2 DEF SaveSync, At, TypeOK, WriterInv, Writer, Phase, TemporaryFile
  <2>2. TypeOK'
    BY <1>2, <2>1 DEF SaveSync, TypeOK
  <2>3. WriterInv'
    BY <1>2, <2>1, FileAssumption
    DEF SaveSync, At, WriterInv, Writer, TemporaryFile
  <2>4. FilesInv' /\ ServedInv'
    BY <1>2 DEF SaveSync, FilesInv, ServedInv
  <2>5. QED
    BY <2>2, <2>3, <2>4
<1>3. CASE SaveRename
  <2>1. /\ writer \in Writer /\ writer' \in Writer
        /\ writer'.candidate = writer.candidate
        /\ writer'.phase = "sync_directory"
        /\ writer'.owner = writer.owner
        /\ writer.candidate \in State
    BY <1>3 DEF SaveRename, At, TypeOK, Writer, Phase
  <2>2. /\ temporary.contents = writer.candidate
        /\ temporary.synced = TRUE
        /\ up
        /\ Extends(active, writer.candidate)
        /\ Valid(writer.candidate)
        /\ writer.candidate.owners[writer.owner] # None
    BY <1>3 DEF SaveRename, At, WriterInv
  <2>3. disk' = writer.candidate /\ survivors' = survivors \cup {writer.candidate}
    BY <1>3, <2>2 DEF SaveRename
  <2>4. TypeOK'
    BY <1>3, <2>1, <2>3 DEF SaveRename, TypeOK
  <2>5. WriterInv'
    BY <1>3, <2>1, <2>2, <2>3 DEF SaveRename, WriterInv
  <2>6. Extends(acknowledged, writer.candidate)
    BY <2>1, <2>2, ExtendsTransitive DEF ServedInv, TypeOK
  <2>7. FilesInv'
    BY <1>3, <2>1, <2>2, <2>3, <2>6, FileAssumption DEF SaveRename, FilesInv
  <2>8. ServedInv'
    BY <1>3, <2>2, <2>3 DEF SaveRename, ServedInv
  <2>9. QED
    BY <2>4, <2>5, <2>7, <2>8
<1>4. CASE SaveSyncDirectory
  <2>1. /\ writer \in Writer /\ writer' \in Writer
        /\ writer'.candidate = writer.candidate
        /\ writer'.phase = "activate"
        /\ writer'.owner = writer.owner
    BY <1>4 DEF SaveSyncDirectory, At, TypeOK, Writer, Phase
  <2>2. TypeOK'
    BY <1>4, <2>1 DEF SaveSyncDirectory, TypeOK
  <2>3. WriterInv'
    BY <1>4, <2>1 DEF SaveSyncDirectory, At, WriterInv
  <2>4. FilesInv' /\ ServedInv'
    BY <1>4 DEF SaveSyncDirectory, FilesInv, ServedInv
  <2>5. QED
    BY <2>2, <2>3, <2>4
<1>5. QED
  BY <1>1, <1>2, <1>3, <1>4 DEF Save

\* Activation: the candidate is on disk, alone, and becomes the active and
\* the acknowledged state.
LEMMA ActivateKeepsInv ==
  ASSUME Inv, Activate
  PROVE  Inv'
<1> USE DEF Inv, SaveProtocol
<1>1. /\ writer \in Writer /\ writer.candidate \in State /\ up
      /\ writer.owner \in Owners
      /\ disk = writer.candidate /\ survivors = {disk}
      /\ Valid(writer.candidate)
  BY DEF Activate, At, WriterInv, TypeOK, Writer
<1>2. Extends(writer.candidate, writer.candidate)
  BY <1>1, ExtendsReflexive
<1>3. confirmed' \in [Owners -> U64]
  <2>1. CASE writer.expected = None
    BY <2>1 DEF Activate, TypeOK
  <2>2. CASE writer.expected # None
    <3>1. confirmed' = [confirmed EXCEPT ![writer.owner] =
              writer.candidate.owners[writer.owner].snapshot.incarnation]
      BY <2>2 DEF Activate
    <3>2. writer.candidate.owners[writer.owner].snapshot.incarnation \in U64
      <4>1. writer.candidate.owners[writer.owner] # None
        BY DEF Activate, At, WriterInv
      <4>2. writer.candidate.owners[writer.owner] \in Owner
        BY <1>1, <4>1 DEF State
      <4>3. QED
        BY <4>2 DEF Owner, Snapshot
    <3>3. QED
      BY <1>1, <3>1, <3>2 DEF TypeOK
  <2>3. QED
    BY <2>1, <2>2
<1>4. TypeOK'
  BY <1>1, <1>3 DEF Activate, TypeOK
<1>5. WriterInv' /\ FilesInv' /\ ServedInv'
  BY <1>1, <1>2 DEF Activate, WriterInv, FilesInv, ServedInv
<1>6. QED
  BY <1>4, <1>5

\* A lost process or machine: every file that may be left extends what was
\* acknowledged, and the restarted node serves the one it finds.
LEMMA FailureKeepsInv ==
  ASSUME Inv,
         \/ Crash
         \/ \E contents \in survivors : PowerFailure(contents)
         \/ Restart
  PROVE  Inv'
<1> USE DEF Inv, SaveProtocol
<1>0. [o \in Owners |-> 0] \in [Owners -> U64]
  BY MaxU64Assumption DEF U64
<1>1. CASE Crash
  <2>1. TypeOK'
    BY <1>0, <1>1 DEF Crash, LoseMemory, TypeOK
  <2>2. WriterInv' /\ FilesInv' /\ ServedInv'
    BY <1>1 DEF Crash, LoseMemory, WriterInv, FilesInv, ServedInv
  <2>3. QED
    BY <2>1, <2>2
<1>2. CASE \E contents \in survivors : PowerFailure(contents)
  <2>1. PICK contents \in survivors : PowerFailure(contents)
    BY <1>2
  <2>2. contents \in State /\ disk' = contents /\ survivors' = {contents}
    BY <2>1 DEF PowerFailure, TypeOK
  <2>3. TypeOK'
    BY <1>0, <2>1, <2>2 DEF PowerFailure, LoseMemory, TypeOK
  <2>4. WriterInv' /\ FilesInv' /\ ServedInv'
    BY <2>1, <2>2, FileAssumption
    DEF PowerFailure, LoseMemory, WriterInv, FilesInv, ServedInv
  <2>5. QED
    BY <2>3, <2>4
<1>3. CASE Restart
  <2>1. disk \in State /\ Valid(disk) /\ Extends(acknowledged, disk)
    BY DEF TypeOK, FilesInv
  <2>2. /\ AfterRestart(disk) \in State
        /\ Extends(disk, AfterRestart(disk))
        /\ Extends(AfterRestart(disk), disk)
        /\ Valid(AfterRestart(disk))
    BY <2>1, RestartedGood
  <2>3. Extends(acknowledged, AfterRestart(disk))
    BY <2>1, <2>2, ExtendsTransitive DEF TypeOK
  <2>4. TypeOK'
    BY <1>3, <2>2 DEF Restart, TypeOK
  <2>5. WriterInv'
    BY <1>3 DEF Restart, WriterInv
  <2>6. FilesInv' /\ ServedInv'
    BY <1>3, <2>2, <2>3 DEF Restart, FilesInv, ServedInv
  <2>7. QED
    BY <2>4, <2>5, <2>6
<1>4. QED
  BY <1>1, <1>2, <1>3

\* Every step keeps the invariant.
LEMMA NextKeepsInv ==
  ASSUME Inv, [Next]_vars
  PROVE  Inv'
<1>0. active \in State /\ Valid(active)
  BY DEF Inv, SaveProtocol, TypeOK, ServedInv
<1>1. ASSUME NEW o \in Owners, NEW token \in Credentials, Authenticate(o, token)
      PROVE  Inv'
  <2>1. authenticated' \in SUBSET Request
    BY <1>1 DEF Authenticate, Request, Inv, TypeOK
  <2>2. QED
    BY <1>1, <2>1
    DEF Authenticate, Inv, TypeOK, SaveProtocol, WriterInv, FilesInv, ServedInv
<1>2. ASSUME NEW request \in authenticated, NEW next \in Offers,
             Publish(request, next)
      PROVE  Inv'
  <2> DEFINE o == request.owner
             candidate == Accepted(active, o, next)
  <2>1. o \in Owners /\ request.expected \in Credentials /\ next \in Snapshot
    BY OffersAssumption DEF Inv, TypeOK, Request
  <2>2. CanAccept(active, o, next)
    BY <1>2 DEF Publish, CanPublish, CanCommit
  <2>3. candidate \in State /\ candidate.owners[o] # None
    BY <1>0, <2>1, <2>2, AcceptedIsState, NoneOwnerAssumption
  <2>4. Extends(active, candidate) /\ Valid(candidate)
    BY <1>0, <2>1, <2>2, AcceptedExtends, AcceptedValid
  <2>5. /\ up /\ writer = None
        /\ BeginSave(o, request.expected, candidate)
        /\ authenticated' \in SUBSET Request
        /\ UNCHANGED <<up, active, temporary, disk, survivors, acknowledged,
                       confirmed>>
    BY <1>2 DEF Publish, Inv, TypeOK
  <2> HIDE DEF candidate, o
  <2>6. QED
    BY <2>1, <2>3, <2>4, <2>5, BeginSaveKeepsInv
<1>3. ASSUME NEW request \in authenticated, NEW next \in Offers,
             PublishRefused(request, next)
      PROVE  Inv'
  BY <1>3
  DEF PublishRefused, Inv, TypeOK, SaveProtocol, WriterInv, FilesInv, ServedInv
<1>4. ASSUME NEW o \in Owners, NEW op \in Operations, Freeze(o, op)
      PROVE  Inv'
  <2> DEFINE candidate == Frozen(active, o, op)
  <2>1. CanFreeze(active, o, op) /\ active.owners[o] # None
    BY <1>4 DEF Freeze, CanFreeze
  <2>2. candidate \in State /\ Extends(active, candidate) /\ Valid(candidate)
    BY <1>0, <2>1, FrozenGood
  <2>3. candidate.owners[o] # None
    BY <2>1, <2>2 DEF Extends, OwnerExtends
  <2>4. /\ up /\ writer = None
        /\ BeginSave(o, None, candidate)
        /\ authenticated' \in SUBSET Request
        /\ UNCHANGED <<up, active, temporary, disk, survivors, acknowledged,
                       confirmed>>
    BY <1>4 DEF Freeze, Inv, TypeOK
  <2> HIDE DEF candidate
  <2>5. QED
    BY <2>2, <2>3, <2>4, BeginSaveKeepsInv
<1>5. ASSUME NEW o \in Owners, NEW op \in Operations, NEW next \in Offers,
             NEW hash \in Credentials, Recover(o, op, next, hash)
      PROVE  Inv'
  <2> DEFINE candidate == Recovered(active, o, op, next, hash)
  <2>1. /\ CanRecover(active, o, op, next, hash) /\ active.owners[o] # None
        /\ next \in Snapshot
    BY <1>5, OffersAssumption DEF Recover, CanRecover
  <2>2. candidate \in State /\ Extends(active, candidate) /\ Valid(candidate)
    BY <1>0, <2>1, RecoveredKeeps
  <2>3. candidate.owners[o] # None
    BY <2>1, <2>2 DEF Extends, OwnerExtends
  <2>4. /\ up /\ writer = None
        /\ BeginSave(o, None, candidate)
        /\ authenticated' \in SUBSET Request
        /\ UNCHANGED <<up, active, temporary, disk, survivors, acknowledged,
                       confirmed>>
    BY <1>5 DEF Recover, Inv, TypeOK
  <2> HIDE DEF candidate
  <2>5. QED
    BY <2>2, <2>3, <2>4, BeginSaveKeepsInv
<1>6. CASE SaveFails
  BY <1>6
  DEF SaveFails, Inv, TypeOK, SaveProtocol, WriterInv, FilesInv, ServedInv
<1>7. CASE UNCHANGED vars
  BY <1>7
  DEF vars, Inv, TypeOK, SaveProtocol, WriterInv, FilesInv, ServedInv
<1>8. QED
  BY <1>1, <1>2, <1>3, <1>4, <1>5, <1>6, <1>7, SaveKeepsInv, ActivateKeepsInv,
     FailureKeepsInv
  DEF Next

\* A new node, without a state file, satisfies the invariant.
LEMMA InitInv == Init => Inv
<1> SUFFICES ASSUME Init PROVE Inv
  OBVIOUS
<1>1. EmptyState \in State /\ Valid(EmptyState)
  BY EmptyStateValid
<1>2. Extends(EmptyState, EmptyState)
  BY <1>1, ExtendsReflexive
<1>3. [o \in Owners |-> 0] \in [Owners -> U64]
  BY MaxU64Assumption DEF U64
<1>4. TypeOK
  BY <1>1, <1>3 DEF Init, TypeOK
<1>5. WriterInv /\ FilesInv /\ ServedInv
  BY <1>1, <1>2, FileAssumption DEF Init, WriterInv, FilesInv, ServedInv
<1>6. QED
  BY <1>4, <1>5 DEF Inv, SaveProtocol

\* The invariant of the save protocol holds in every reachable state.
THEOREM InvHolds == Spec => []Inv
<1>1. Inv /\ [Next]_vars => Inv'
  BY NextKeepsInv
<1>2. QED
  BY InitInv, <1>1, PTL DEF Spec

\* Every variable of the node keeps its type: counters stay within u64 and
\* every state that accept, freeze or recover computes is well-formed.
THEOREM TypeCorrect == Spec => []TypeOK
  BY InvHolds, PTL DEF Inv

\* The order of storage::save and send_replace keeps the files as each phase
\* expects them.
THEOREM SaveProtocolHolds == Spec => []SaveProtocol
  BY InvHolds, PTL DEF Inv

\* An update that was answered Ok survives every failure.
THEOREM AcknowledgedIsDurable == Spec => []AcknowledgedSurvives
<1>1. Inv => AcknowledgedSurvives
  BY DEF Inv, SaveProtocol, FilesInv, ServedInv, AcknowledgedSurvives
<1>2. QED
  BY InvHolds, <1>1, PTL

\* What readers were served survives a crash of the process.
THEOREM ServedIsDurable == Spec => []ServedSurvivesCrash
<1>1. Inv => ServedSurvivesCrash
  BY DEF Inv, SaveProtocol, ServedInv, ServedSurvivesCrash
<1>2. QED
  BY InvHolds, <1>1, PTL

\* No socket is ever routed to two instances.
THEOREM ExclusiveAlways == Spec => []EndpointsExclusive
<1>1. Inv => EndpointsExclusive
  BY ValidIsExclusive DEF Inv, SaveProtocol, ServedInv, EndpointsExclusive
<1>2. QED
  BY InvHolds, <1>1, PTL

\* The credential that publish checks a second time behind the lock stays
\* valid while the lock is held: the active state changes only at the end.
THEOREM FencingHolds == Spec => []FencedNeverCommits
<1> DEFINE I == Inv /\ FencedNeverCommits
<1>1. Init => FencedNeverCommits
  BY DEF Init, FencedNeverCommits
<1>2. ASSUME Inv, FencedNeverCommits, [Next]_vars
      PROVE  FencedNeverCommits'
  <2> USE <1>2 DEF FencedNeverCommits
  <2>1. ASSUME NEW o \in Owners, NEW token \in Credentials, Authenticate(o, token)
        PROVE  FencedNeverCommits'
    BY <2>1 DEF Authenticate, Credential
  <2>2. ASSUME NEW request \in authenticated, NEW next \in Offers,
               Publish(request, next)
        PROVE  FencedNeverCommits'
    BY <2>2 DEF Publish, CanPublish, NotFenced, BeginSave, Credential
  <2>3. ASSUME NEW request \in authenticated, NEW next \in Offers,
               PublishRefused(request, next)
        PROVE  FencedNeverCommits'
    BY <2>3 DEF PublishRefused, Credential
  <2>4. ASSUME NEW o \in Owners, NEW op \in Operations, Freeze(o, op)
        PROVE  FencedNeverCommits'
    BY <2>4 DEF Freeze, BeginSave
  <2>5. ASSUME NEW o \in Owners, NEW op \in Operations, NEW next \in Offers,
               NEW hash \in Credentials, Recover(o, op, next, hash)
        PROVE  FencedNeverCommits'
    BY <2>5 DEF Recover, BeginSave
  <2>6. CASE Save
    <3>1. writer \in Writer /\ active' = active
      BY <2>6 DEF Save, SaveWrite, SaveSync, SaveRename, SaveSyncDirectory, At,
                  Inv, TypeOK
    <3>2. writer'.owner = writer.owner /\ writer'.expected = writer.expected
      BY <2>6, <3>1 DEF Save, SaveWrite, SaveSync, SaveRename,
                        SaveSyncDirectory, At, Writer
    <3>3. writer # None
      BY <2>6 DEF Save, SaveWrite, SaveSync, SaveRename, SaveSyncDirectory, At
    <3>4. QED
      BY <3>1, <3>2, <3>3 DEF Credential
  <2>7. CASE SaveFails \/ Activate \/ Crash
    BY <2>7 DEF SaveFails, Activate, Crash, LoseMemory
  <2>8. CASE \E contents \in survivors : PowerFailure(contents)
    BY <2>8 DEF PowerFailure, LoseMemory
  <2>9. CASE Restart
    BY <2>9 DEF Restart, Inv, SaveProtocol, WriterInv
  <2>10. CASE UNCHANGED vars
    BY <2>10 DEF vars, Credential
  <2>11. QED
    BY <1>2, <2>1, <2>2, <2>3, <2>4, <2>5, <2>6, <2>7, <2>8, <2>9, <2>10 DEF Next
<1>3. I /\ [Next]_vars => I'
  BY <1>2, NextKeepsInv
<1>4. QED
  BY InitInv, <1>1, <1>3, PTL DEF Spec

(***************************************************************************)
(* Frozen histories and fresh routes.                                      *)
(***************************************************************************)

\* One request moves a frozen history only by recovering it with the operation
\* that froze it, and the trace of a recovery is never dropped.
MovesBy(old, new) ==
    /\ old.recovery # None => new.recovery # None
    /\ old.frozen_by # None =>
          \/ /\ new.snapshot = old.snapshot
             /\ new.frozen_by = old.frozen_by
          \/ /\ new.recovery # None
             /\ new.recovery.operation = old.frozen_by
             /\ new.snapshot.incarnation > old.snapshot.incarnation

Moves(s, t) == \A o \in Known(s) : MovesBy(s.owners[o], t.owners[o])

\* Seen from an answered freeze, over any number of requests: the history is
\* the frozen one, or some recovery has moved it to a later incarnation.
StandsBy(old, new) ==
    old.frozen_by # None =>
        \/ /\ new.snapshot = old.snapshot
           /\ new.frozen_by = old.frozen_by
        \/ /\ new.recovery # None
           /\ new.snapshot.incarnation > old.snapshot.incarnation

Stands(s, t) == \A o \in Known(s) : StandsBy(s.owners[o], t.owners[o])

FenceInv ==
    /\ writer # None => Moves(active, writer.candidate)
    /\ writer # None => Stands(acknowledged, writer.candidate)
    /\ up => Stands(acknowledged, active)
    /\ \A contents \in survivors : Stands(acknowledged, contents)

\* What is marked fresh in a candidate was fresh before in this incarnation,
\* or is what the publisher that holds the lock has just sent.
FreshIn(s, w) ==
    \A o \in Known(w.candidate) :
        ~w.candidate.owners[o].stale =>
            \/ /\ o = w.owner
               /\ w.expected # None
            \/ /\ s.owners[o] # None
               /\ ~s.owners[o].stale
               /\ w.candidate.owners[o].snapshot.incarnation =
                     s.owners[o].snapshot.incarnation

FreshInv == writer # None => FreshIn(active, writer)

\* A node could start from every state there is: the one served, the one that
\* is being saved, and each that a failure may leave on disk.
SoundInv ==
    /\ Sound(active)
    /\ writer # None => Sound(writer.candidate)
    /\ \A contents \in survivors : Sound(contents)

Kept == FenceInv /\ FreshInv /\ SoundInv

\* Nothing moves by itself.
LEMMA StandsReflexive ==
  ASSUME NEW s
  PROVE  Stands(s, s) /\ Moves(s, s)
  BY DEF Stands, StandsBy, Moves, MovesBy

\* Marking everything stale moves nothing.
LEMMA StandsAfterRestart ==
  ASSUME NEW s \in State, NEW t \in State, Extends(s, t), Stands(s, t)
  PROVE  Stands(s, AfterRestart(t))
<1> SUFFICES ASSUME NEW o \in Known(s)
             PROVE  StandsBy(s.owners[o], AfterRestart(t).owners[o])
  BY DEF Stands
<1>1. t.owners[o] # None /\ o \in Owners /\ StandsBy(s.owners[o], t.owners[o])
  BY DEF Known, Extends, OwnerExtends, Stands
<1>2. t.owners[o] \in Owner
  BY <1>1 DEF State
<1>3. AfterRestart(t).owners[o] = [t.owners[o] EXCEPT !.stale = TRUE]
  BY <1>1 DEF AfterRestart
<1>4. QED
  BY <1>1, <1>2, <1>3 DEF StandsBy, Owner

\* What stands when one request is saved stands after it.
LEMMA StandsThenMoves ==
  ASSUME NEW a \in State, NEW s \in State, NEW t \in State,
         Extends(a, s), Extends(s, t), Stands(a, s), Moves(s, t)
  PROVE  Stands(a, t)
<1> SUFFICES ASSUME NEW o \in Known(a), a.owners[o].frozen_by # None
             PROVE  StandsBy(a.owners[o], t.owners[o])
  BY DEF Stands, StandsBy
<1> DEFINE old == a.owners[o]
           mid == s.owners[o]
           new == t.owners[o]
<1>1. o \in Owners /\ old # None
  BY DEF Known
<1>2. OwnerExtends(old, mid) /\ mid # None
  BY <1>1 DEF Extends, OwnerExtends
<1>3. OwnerExtends(mid, new) /\ new # None
  BY <1>1, <1>2 DEF Extends, OwnerExtends
<1>4. StandsBy(old, mid) /\ MovesBy(mid, new)
  BY <1>1, <1>2 DEF Stands, Moves, Known
<1>5. old \in Owner /\ mid \in Owner /\ new \in Owner
  BY <1>1, <1>2, <1>3 DEF State
<1>6. /\ old.snapshot.incarnation \in Int
      /\ mid.snapshot.incarnation \in Int
      /\ new.snapshot.incarnation \in Int
  BY <1>5, MaxU64Assumption DEF Owner, Snapshot, U64
<1>7. new.snapshot.incarnation >= mid.snapshot.incarnation
  BY <1>3 DEF OwnerExtends
<1> HIDE DEF old, mid, new
<1>8. CASE mid.snapshot = old.snapshot /\ mid.frozen_by = old.frozen_by
  BY <1>4, <1>8 DEF MovesBy, StandsBy, old, new
<1>9. CASE mid.recovery # None
           /\ mid.snapshot.incarnation > old.snapshot.incarnation
  <2>1. new.recovery # None
    BY <1>4, <1>9 DEF MovesBy
  <2>2. new.snapshot.incarnation > old.snapshot.incarnation
    BY <1>6, <1>7, <1>9
  <2>3. StandsBy(old, new)
    BY <2>1, <2>2 DEF StandsBy
  <2>4. QED
    BY <2>3 DEF old, new
<1>10. QED
  BY <1>4, <1>8, <1>9 DEF StandsBy, old

\* accept never touches a frozen owner, and keeps what recovery installed.
LEMMA AcceptedMoves ==
  ASSUME NEW s \in State, NEW o \in Owners, NEW next \in Snapshot,
         CanAccept(s, o, next)
  PROVE  /\ Moves(s, Accepted(s, o, next))
         /\ \A p \in Owners \ {o} :
               Accepted(s, o, next).owners[p] = s.owners[p]
<1> DEFINE t == Accepted(s, o, next)
<1>1. \A p \in Owners \ {o} : t.owners[p] = s.owners[p]
  BY DEF Accepted, State
<1>2. ASSUME s.owners[o] # None
      PROVE  /\ s.owners[o].frozen_by = None
             /\ t.owners[o].recovery = s.owners[o].recovery
  BY <1>2 DEF CanAccept, Continues, Accepted, State
<1>3. QED
  BY <1>1, <1>2 DEF Moves, MovesBy, Known

\* freeze sets a fence where there is none and touches nothing else.
LEMMA FrozenMoves ==
  ASSUME NEW s \in State, NEW o \in Owners, NEW op \in Operations,
         CanFreeze(s, o, op)
  PROVE  /\ Moves(s, Frozen(s, o, op))
         /\ \A p \in Owners :
               \/ Frozen(s, o, op).owners[p] = s.owners[p]
               \/ Frozen(s, o, op).owners[p].stale
<1> DEFINE t == Frozen(s, o, op)
<1>1. CASE FreezeIsRepeat(s.owners[o], op)
  BY <1>1, StandsReflexive DEF Frozen
<1>2. CASE ~FreezeIsRepeat(s.owners[o], op)
  <2>1. s.owners[o] \in Owner /\ s.owners[o].frozen_by = None
    BY <1>2 DEF CanFreeze, State
  <2>2. t.owners[o] = [s.owners[o] EXCEPT !.frozen_by = op, !.stale = TRUE]
    BY <1>2 DEF Frozen, State
  <2>3. t.owners[o].recovery = s.owners[o].recovery /\ t.owners[o].stale = TRUE
    BY <2>1, <2>2 DEF Owner
  <2>4. \A p \in Owners \ {o} : t.owners[p] = s.owners[p]
    BY <1>2 DEF Frozen, State
  <2>5. QED
    BY <2>1, <2>3, <2>4 DEF Moves, MovesBy, Known
<1>3. QED
  BY <1>1, <1>2

\* recover moves the owner it froze, with the operation that froze it, and
\* leaves it marked stale.
LEMMA RecoveredMoves ==
  ASSUME NEW s \in State, NEW o \in Owners, NEW op \in Operations,
         NEW next \in Snapshot, NEW hash \in Credentials,
         CanRecover(s, o, op, next, hash)
  PROVE  /\ Moves(s, Recovered(s, o, op, next, hash))
         /\ \A p \in Owners :
               \/ Recovered(s, o, op, next, hash).owners[p] = s.owners[p]
               \/ Recovered(s, o, op, next, hash).owners[p].stale
<1> DEFINE t == Recovered(s, o, op, next, hash)
<1>1. CASE RecoveredBy(s.owners[o], op)
  BY <1>1, StandsReflexive DEF Recovered
<1>2. CASE ~RecoveredBy(s.owners[o], op)
  <2>1. /\ s.owners[o].frozen_by = op
        /\ next.incarnation > s.owners[o].snapshot.incarnation
    BY <1>2 DEF CanRecover
  <2>2. MovedByRecovery(s, t, o, op, next, hash)
    BY <1>2, RecoveredBecomes
  <2> HIDE DEF t
  <2>3. t.owners[o].recovery # None
    BY <2>2, NoneOwnerAssumption DEF MovedByRecovery
  <2>4. MovesBy(s.owners[o], t.owners[o])
    BY <2>1, <2>2, <2>3 DEF MovesBy, MovedByRecovery
  <2>5. Moves(s, t)
    BY <2>2, <2>4 DEF Moves, MovesBy, MovedByRecovery, Known
  <2>6. QED
    BY <2>2, <2>5 DEF MovedByRecovery, t
<1>3. QED
  BY <1>1, <1>2

\* A request that takes the lock with such a candidate keeps all of them.
LEMMA BeginSaveKeepsFences ==
  ASSUME Inv, Kept, up,
         NEW o \in Owners, NEW expected \in Credentials \cup {None},
         NEW candidate \in State,
         Extends(active, candidate), Moves(active, candidate),
         Sound(candidate),
         \A p \in Owners :
            \/ candidate.owners[p] = active.owners[p]
            \/ candidate.owners[p] # None /\ candidate.owners[p].stale
            \/ p = o /\ expected # None,
         BeginSave(o, expected, candidate),
         UNCHANGED <<up, active, survivors, acknowledged>>
  PROVE  Kept'
<1>1. Stands(acknowledged, active) /\ Extends(acknowledged, active)
  BY DEF Kept, FenceInv, Inv, SaveProtocol, ServedInv
<1>2. Stands(acknowledged, candidate)
  BY <1>1, StandsThenMoves DEF Inv, TypeOK
<1>3. /\ writer'.candidate = candidate
      /\ writer'.owner = o
      /\ writer'.expected = expected
  BY DEF BeginSave
<1>4. FenceInv'
  BY <1>2, <1>3 DEF Kept, FenceInv
<1>5. FreshIn(active, writer)'
  BY <1>3 DEF FreshIn, Known
<1>6. SoundInv'
  BY <1>3 DEF Kept, SoundInv
<1>7. QED
  BY <1>4, <1>5, <1>6 DEF Kept, FreshInv

\* The steps of storage::save leave the candidate alone, and the only new
\* file that may survive is the candidate.
LEMMA SaveKeepsFences ==
  ASSUME Inv, Kept, Save
  PROVE  Kept'
<1>1. /\ writer \in Writer /\ writer # None
      /\ UNCHANGED <<up, active, acknowledged>>
  BY DEF Save, SaveWrite, SaveSync, SaveRename, SaveSyncDirectory, At,
         Inv, TypeOK
<1>2. /\ writer'.candidate = writer.candidate
      /\ writer'.owner = writer.owner
      /\ writer'.expected = writer.expected
  BY <1>1 DEF Save, SaveWrite, SaveSync, SaveRename, SaveSyncDirectory, Writer
<1>3. survivors' \subseteq survivors \cup {writer.candidate}
  <2>1. CASE SaveRename
    <3>1. temporary.contents = writer.candidate /\ temporary.synced = TRUE
      BY <2>1 DEF SaveRename, At, Inv, SaveProtocol, WriterInv
    <3>2. QED
      BY <2>1, <3>1 DEF SaveRename
  <2>2. CASE SaveSyncDirectory
    <3>1. survivors' = {disk} /\ disk \in survivors
      BY <2>2 DEF SaveSyncDirectory, Inv, SaveProtocol, FilesInv
    <3>2. QED
      BY <3>1
  <2>3. QED
    BY <2>1, <2>2 DEF Save, SaveWrite, SaveSync
<1>4. FenceInv'
  BY <1>1, <1>2, <1>3 DEF Kept, FenceInv
<1>5. FreshIn(active, writer)'
  BY <1>1, <1>2 DEF Kept, FreshInv, FreshIn, Known
<1>6. SoundInv'
  BY <1>1, <1>2, <1>3 DEF Kept, SoundInv
<1>7. QED
  BY <1>4, <1>5, <1>6 DEF Kept, FreshInv

\* No step breaks the fences or forges freshness.
LEMMA NextKeepsFences ==
  ASSUME Inv, Kept, [Next]_vars
  PROVE  Kept'
<1>0. /\ active \in State /\ acknowledged \in State /\ disk \in State
      /\ Valid(active) /\ Sound(active)
  BY DEF Inv, SaveProtocol, TypeOK, ServedInv, Kept, SoundInv
<1>1. ASSUME NEW request \in authenticated, NEW next \in Offers,
             Publish(request, next)
      PROVE  Kept'
  <2> DEFINE o == request.owner
             candidate == Accepted(active, o, next)
  <2>1. /\ o \in Owners /\ next \in Snapshot
        /\ request.expected \in Credentials /\ request.expected # None
    BY OffersAssumption, NoneAssumption DEF Inv, TypeOK, Request
  <2>2. CanAccept(active, o, next)
    BY <1>1 DEF Publish, CanPublish, CanCommit
  <2>3. candidate \in State /\ Extends(active, candidate)
    BY <1>0, <2>1, <2>2, AcceptedIsState, AcceptedExtends
  <2>a. CanCommit(active, o, next)
    BY <1>1 DEF Publish, CanPublish
  <2>b. Sound(candidate)
    BY <1>0, <2>1, <2>a, AcceptedSound
  <2>4. /\ Moves(active, candidate)
        /\ \A p \in Owners : candidate.owners[p] = active.owners[p] \/ p = o
    BY <1>0, <2>1, <2>2, AcceptedMoves
  <2>5. /\ up /\ BeginSave(o, request.expected, candidate)
        /\ UNCHANGED <<up, active, survivors, acknowledged>>
    BY <1>1 DEF Publish
  <2> HIDE DEF candidate, o
  <2>6. QED
    BY <2>1, <2>3, <2>4, <2>5, <2>b, BeginSaveKeepsFences
<1>2. ASSUME NEW o \in Owners, NEW op \in Operations, Freeze(o, op)
      PROVE  Kept'
  <2> DEFINE candidate == Frozen(active, o, op)
  <2>1. CanFreeze(active, o, op)
    BY <1>2 DEF Freeze
  <2>2. candidate \in State /\ SameSnapshots(active, candidate)
    BY <1>0, <2>1, FrozenKeeps
  <2>3. Extends(active, candidate) /\ Sound(candidate)
    BY <1>0, <2>1, <2>2, SameSnapshotsExtend, FrozenSound
  <2>4. /\ Moves(active, candidate)
        /\ \A p \in Owners : \/ candidate.owners[p] = active.owners[p]
                             \/ candidate.owners[p].stale
    BY <1>0, <2>1, FrozenMoves
  <2>5. \A p \in Owners : \/ candidate.owners[p] = active.owners[p]
                          \/ candidate.owners[p] # None
    BY <2>2 DEF SameSnapshots
  <2>6. /\ up /\ BeginSave(o, None, candidate)
        /\ UNCHANGED <<up, active, survivors, acknowledged>>
    BY <1>2 DEF Freeze
  <2> HIDE DEF candidate
  <2>7. QED
    BY <2>2, <2>3, <2>4, <2>5, <2>6, BeginSaveKeepsFences
<1>3. ASSUME NEW o \in Owners, NEW op \in Operations, NEW next \in Offers,
             NEW hash \in Credentials, Recover(o, op, next, hash)
      PROVE  Kept'
  <2> DEFINE candidate == Recovered(active, o, op, next, hash)
  <2>1. CanRecover(active, o, op, next, hash) /\ next \in Snapshot
    BY <1>3, OffersAssumption DEF Recover
  <2>2. /\ candidate \in State /\ Extends(active, candidate)
        /\ Sound(candidate)
    BY <1>0, <2>1, RecoveredKeeps, RecoveredSound
  <2>3. /\ Moves(active, candidate)
        /\ \A p \in Owners : \/ candidate.owners[p] = active.owners[p]
                             \/ candidate.owners[p].stale
    BY <1>0, <2>1, RecoveredMoves
  <2>4. \A p \in Owners : \/ candidate.owners[p] = active.owners[p]
                          \/ candidate.owners[p] # None
    BY <1>0, <2>2 DEF Extends, OwnerExtends
  <2>5. /\ up /\ BeginSave(o, None, candidate)
        /\ UNCHANGED <<up, active, survivors, acknowledged>>
    BY <1>3 DEF Recover
  <2> HIDE DEF candidate
  <2>6. QED
    BY <2>2, <2>3, <2>4, <2>5, BeginSaveKeepsFences
<1>4. CASE Activate
  <2>1. /\ writer # None
        /\ acknowledged' = writer.candidate /\ active' = writer.candidate
        /\ writer' = None /\ up' = up /\ survivors' = survivors
        /\ survivors = {writer.candidate}
    BY <1>4 DEF Activate, At, Inv, SaveProtocol, WriterInv
  <2>2. QED
    BY <2>1, StandsReflexive DEF Kept, FenceInv, FreshInv, SoundInv
<1>5. CASE Restart
  <2>1. /\ Stands(acknowledged, disk) /\ Extends(acknowledged, disk)
        /\ writer = None /\ Sound(disk)
    BY <1>5 DEF Restart, Kept, FenceInv, SoundInv, Inv, SaveProtocol, FilesInv,
                WriterInv
  <2>2. Stands(acknowledged, AfterRestart(disk)) /\ Sound(AfterRestart(disk))
    BY <1>0, <2>1, StandsAfterRestart, AfterRestartSound
  <2>3. QED
    BY <1>5, <2>1, <2>2 DEF Restart, Kept, FenceInv, FreshInv, SoundInv
<1>6. CASE \/ \E o \in Owners, token \in Credentials : Authenticate(o, token)
           \/ \E request \in authenticated, next \in Offers :
                 PublishRefused(request, next)
           \/ UNCHANGED vars
  BY <1>6
  DEF Authenticate, PublishRefused, vars, Kept, FenceInv, FreshInv, FreshIn,
      SoundInv
<1>7. CASE \/ SaveFails \/ Crash
           \/ \E contents \in survivors : PowerFailure(contents)
  BY <1>7
  DEF SaveFails, Crash, PowerFailure, LoseMemory, Kept, FenceInv, FreshInv,
      SoundInv
<1>8. QED
  BY <1>1, <1>2, <1>3, <1>4, <1>5, <1>6, <1>7, SaveKeepsFences DEF Next

\* All of them hold in every reachable state.
THEOREM KeptHolds == Spec => [](Inv /\ Kept)
<1>1. Init => Kept
  BY StandsReflexive, EmptyStateSound
  DEF Init, Kept, FenceInv, FreshInv, SoundInv
<1>2. Inv /\ Kept /\ [Next]_vars => (Inv /\ Kept)'
  BY NextKeepsInv, NextKeepsFences
<1>3. QED
  BY InitInv, <1>1, <1>2, PTL DEF Spec

\* An answered freeze holds until its own operation recovers the owner.
THEOREM FrozenStands == Spec => FrozenHistoryStands
<1> DEFINE Step ==
      \A o \in Known(acknowledged) :
          LET old == acknowledged.owners[o]
              new == acknowledged'.owners[o] IN
          old.frozen_by # None =>
              \/ /\ new.snapshot = old.snapshot
                 /\ new.frozen_by = old.frozen_by
              \/ /\ new.recovery # None
                 /\ new.snapshot.incarnation > old.snapshot.incarnation
                 /\ active.owners[o].snapshot = old.snapshot =>
                       new.recovery.operation = old.frozen_by
<1>1. ASSUME Inv, Kept, [Next]_vars
      PROVE  [Step]_vars
  <2>1. CASE Activate
    <3>1. /\ writer # None /\ up /\ writer.candidate \in State
          /\ acknowledged' = writer.candidate
          /\ Extends(acknowledged, active)
      BY <1>1, <2>1 DEF Activate, At, Inv, TypeOK, SaveProtocol, ServedInv,
                        WriterInv, Writer
    <3>2. /\ Moves(active, writer.candidate)
          /\ Stands(acknowledged, writer.candidate)
          /\ Stands(acknowledged, active)
      BY <1>1, <3>1 DEF Kept, FenceInv
    <3>3. SUFFICES
            ASSUME NEW o \in Known(acknowledged),
                   acknowledged.owners[o].frozen_by # None,
                   ~ /\ writer.candidate.owners[o].snapshot =
                          acknowledged.owners[o].snapshot
                     /\ writer.candidate.owners[o].frozen_by =
                          acknowledged.owners[o].frozen_by,
                   active.owners[o].snapshot = acknowledged.owners[o].snapshot
            PROVE  writer.candidate.owners[o].recovery.operation =
                      acknowledged.owners[o].frozen_by
      BY <3>1, <3>2 DEF Stands, StandsBy
    <3>4. o \in Owners /\ o \in Known(active) /\ acknowledged.owners[o] # None
      BY <3>1 DEF Known, Extends, OwnerExtends
    <3>5. acknowledged.owners[o].snapshot.incarnation \in Int
      BY <1>1, <3>4, MaxU64Assumption
      DEF Inv, TypeOK, State, Owner, Snapshot, U64
    <3>6. active.owners[o].frozen_by = acknowledged.owners[o].frozen_by
      BY <3>2, <3>3, <3>4, <3>5 DEF Stands, StandsBy
    <3>7. QED
      BY <3>2, <3>3, <3>4, <3>6 DEF Moves, MovesBy
  <2>2. CASE UNCHANGED acknowledged
    BY <2>2
  <2>3. QED
    BY <1>1, <2>1, <2>2
    DEF Next, Authenticate, Publish, PublishRefused, Freeze, Recover, Save,
        SaveWrite, SaveSync, SaveRename, SaveSyncDirectory, SaveFails, Crash,
        PowerFailure, Restart, vars
<1>2. QED
  BY KeptHolds, <1>1, PTL DEF FrozenHistoryStands, Spec

\* A route is shown as fresh only after its owner has published it to this
\* process.
THEOREM FreshIsConfirmed == Spec => []FreshMeansConfirmed
<1>1. Init => FreshMeansConfirmed
  BY NoneOwnerAssumption DEF Init, FreshMeansConfirmed, EmptyState, Known
<1>2. ASSUME Inv, Kept, FreshMeansConfirmed, [Next]_vars
      PROVE  FreshMeansConfirmed'
  <2>1. CASE Activate
    <3>1. /\ writer # None /\ up /\ writer \in Writer
          /\ active' = writer.candidate
          /\ confirmed' =
               IF writer.expected = None
               THEN confirmed
               ELSE [confirmed EXCEPT ![writer.owner] =
                  writer.candidate.owners[writer.owner].snapshot.incarnation]
      BY <1>2, <2>1 DEF Activate, At, Inv, TypeOK
    <3>2. confirmed \in [Owners -> U64] /\ FreshIn(active, writer)
      BY <1>2, <3>1 DEF Inv, TypeOK, Kept, FreshInv
    <3>3. SUFFICES ASSUME NEW o \in Known(writer.candidate),
                          ~writer.candidate.owners[o].stale
                   PROVE  confirmed'[o] =
                            writer.candidate.owners[o].snapshot.incarnation
      BY <3>1 DEF FreshMeansConfirmed
    <3>4. o \in Owners
      BY DEF Known
    <3>5. CASE o = writer.owner /\ writer.expected # None
      BY <3>1, <3>2, <3>4, <3>5
    <3>6. CASE /\ active.owners[o] # None
               /\ ~active.owners[o].stale
               /\ writer.candidate.owners[o].snapshot.incarnation =
                     active.owners[o].snapshot.incarnation
      <4>1. confirmed[o] = writer.candidate.owners[o].snapshot.incarnation
        BY <1>2, <3>1, <3>4, <3>6 DEF FreshMeansConfirmed, Known
      <4>2. QED
        BY <3>1, <3>2, <3>4, <4>1
    <3>7. QED
      BY <3>2, <3>3, <3>5, <3>6 DEF FreshIn
  <2>2. CASE Restart
    <3>1. disk \in State /\ active' = AfterRestart(disk)
      BY <1>2, <2>2 DEF Restart, Inv, TypeOK
    <3>2. ASSUME NEW o \in Known(AfterRestart(disk))
          PROVE  AfterRestart(disk).owners[o].stale = TRUE
      <4>1. o \in Owners /\ disk.owners[o] # None
        BY DEF Known, AfterRestart
      <4>2. disk.owners[o] \in Owner
        BY <3>1, <4>1 DEF State
      <4>3. QED
        BY <4>1, <4>2 DEF AfterRestart, Owner
    <3>3. QED
      BY <3>1, <3>2 DEF FreshMeansConfirmed
  <2>3. CASE ~up'
    BY <2>3 DEF FreshMeansConfirmed
  <2>4. CASE UNCHANGED <<up, active, confirmed>>
    BY <1>2, <2>4 DEF FreshMeansConfirmed, Known
  <2>5. QED
    BY <1>2, <2>1, <2>2, <2>3, <2>4
    DEF Next, Authenticate, Publish, PublishRefused, Freeze, Recover, Save,
        SaveWrite, SaveSync, SaveRename, SaveSyncDirectory, SaveFails, Crash,
        PowerFailure, LoseMemory, vars
<1>3. QED
  BY KeptHolds, <1>1, <1>2, PTL DEF Spec

\* Whatever a failure leaves on disk, the node starts from it.
THEOREM StartsAlways == Spec => []AlwaysStarts
<1>1. ASSUME Inv, Kept
      PROVE  AlwaysStarts
  <2> SUFFICES ASSUME NEW contents \in survivors \cup {disk}
               PROVE  contents # Corrupt /\ Loads(contents)
    BY DEF AlwaysStarts
  <2>1. contents \in survivors /\ contents # Corrupt
    BY <1>1 DEF Inv, SaveProtocol, FilesInv
  <2>2. contents \in State /\ Valid(contents) /\ Sound(contents)
    BY <1>1, <2>1 DEF Inv, TypeOK, SaveProtocol, FilesInv, Kept, SoundInv
  <2>3. QED
    BY <2>1, <2>2, SoundLoads
<1>2. QED
  BY KeptHolds, <1>1, PTL

\* An owner that is not frozen can delete any record of its own, however full
\* the view is: the largest form of the state counts every record at its
\* widest already.
LEMMA DeletionFits ==
  ASSUME NEW s \in State, Valid(s), Sound(s), NEW o \in Known(s),
         s.owners[o].frozen_by = None, s.generation < MaxU64,
         s.owners[o].snapshot.revision < MaxU64,
         NEW i \in RecordIds(s.owners[o].snapshot)
  PROVE  CanAccept(s, o, Deletion(s.owners[o].snapshot, i))
<1> DEFINE old == s.owners[o].snapshot
           next == Deletion(old, i)
           t == Accepted(s, o, next)
<1>1. /\ o \in Owners /\ s.owners[o] \in Owner /\ old \in Snapshot
      /\ i \in Ids /\ old.records[i] # None
  BY DEF Known, State, Owner, RecordIds
<1>2. old.records[i] \in Record /\ old.revision \in 0 .. MaxU64
  BY <1>1 DEF Snapshot, U64
<1>3. SnapshotSound(o, old)
  BY DEF Sound
<1> HIDE DEF old
<1> DEFINE record == [old.records[i] EXCEPT !.revision = old.revision + 1,
                                            !.deleted = TRUE]
<1>4. /\ record \in Record
      /\ record.app = old.records[i].app
      /\ record.endpoint = old.records[i].endpoint
      /\ record.revision = old.revision + 1
      /\ record.deleted = TRUE
      /\ old.revision + 1 \in U64
  <2>1. old.revision + 1 \in U64
    BY <1>1, <1>2, MaxU64Assumption DEF old, U64
  <2>2. QED
    BY <1>2, <2>1 DEF Record
<1> HIDE DEF record
<1>5. next = [old EXCEPT !.revision = old.revision + 1,
                         !.records = [old.records EXCEPT ![i] = record]]
  BY <1>1 DEF Deletion, record, Snapshot
<1> HIDE DEF next
<1>6. /\ next \in Snapshot
      /\ next.incarnation = old.incarnation
      /\ next.revision = old.revision + 1
      /\ next.records = [old.records EXCEPT ![i] = record]
  BY <1>1, <1>4, <1>5 DEF Snapshot
<1>7. /\ next.records[i] = record
      /\ \A j \in Ids \ {i} : next.records[j] = old.records[j]
  BY <1>1, <1>6 DEF Snapshot
<1>8. RecordIds(next) = RecordIds(old)
  BY <1>1, <1>4, <1>7, NoneAssumption DEF RecordIds
<1>9. Continues(s.owners[o], next)
  <2>1. ASSUME NEW j \in RecordIds(old)
        PROVE  RecordAdmissible(old.records[j], next.records[j])
    <3>1. j \in Ids /\ old.records[j] # None /\ old.records[j] \in Record
      BY <1>1 DEF RecordIds, Snapshot
    <3>2. old.records[j].revision \in 0 .. MaxU64
      BY <3>1 DEF Record, U64
    <3>3. CASE j # i
      BY <1>7, <3>1, <3>2, <3>3 DEF RecordAdmissible
    <3>4. CASE j = i
      <4>1. old.records[i].revision <= old.revision
        BY <1>3, <3>4 DEF SnapshotSound
      <4>2. record # None
        BY <1>4, NoneAssumption
      <4>3. record.revision > old.records[i].revision
        BY <1>2, <1>4, <3>2, <3>4, <4>1
      <4>4. /\ record.revision >= old.records[i].revision
            /\ record.revision # old.records[i].revision
        BY <1>2, <1>4, <3>2, <3>4, <4>3
      <4>5. RecordAdmissible(old.records[i], record)
        BY <1>4, <4>2, <4>4, Zenon DEF RecordAdmissible
      <4>6. QED
        BY <1>7, <3>4, <4>5
    <3>5. QED
      BY <3>3, <3>4
  <2>2. next.revision > old.revision
    BY <1>2, <1>6
  <2>3. QED
    BY <1>2, <1>6, <2>1, <2>2 DEF Continues, old
<1>10. RecordsValid(s, o, next)
  <2> SUFFICES ASSUME NEW j \in RecordIds(next)
               PROVE  /\ next.records[j].endpoint \in Canonical
                      /\ next.records[j].app \in Applications[o]
                      /\ next.records[j].revision # 0
                      /\ next.records[j].revision <= next.revision
                      /\ \A k \in RecordIds(next) :
                            next.records[k].endpoint = next.records[j].endpoint
                            => k = j
                      /\ ~ReservedByAnother(s, o, j, next.records[j].endpoint)
    BY DEF RecordsValid
  <2>1. \A k \in RecordIds(next) :
           /\ k \in Ids /\ old.records[k] # None
           /\ RecordOf(s, o, k) = old.records[k]
           /\ next.records[k].endpoint = old.records[k].endpoint
           /\ next.records[k].app = old.records[k].app
    BY <1>1, <1>4, <1>7, <1>8, NoneOwnerAssumption DEF RecordIds, RecordOf, old
  <2>2. /\ old.records[j].endpoint \in Canonical
        /\ \A k \in RecordIds(next) :
              old.records[k].endpoint = old.records[j].endpoint => k = j
        /\ ~ReservedByAnother(s, o, j, old.records[j].endpoint)
    BY <1>1, <2>1 DEF Valid, ReservedByAnother
  <2>3. /\ old.records[j].app \in Applications[o]
        /\ old.records[j].revision # 0
        /\ old.records[j].revision <= old.revision
    BY <1>3, <1>8 DEF SnapshotSound
  <2>4. old.records[j] \in Record
    BY <1>1, <2>1 DEF Snapshot
  <2>5. old.records[j].revision \in 0 .. MaxU64
    BY <2>4 DEF Record, U64
  <2>6. next.records[j].revision # 0 /\ next.records[j].revision <= next.revision
    BY <1>2, <1>4, <1>6, <1>7, <2>1, <2>3, <2>5
  <2>7. QED
    BY <2>1, <2>2, <2>3, <2>6
<1>11. ReservedSize(t) = ReservedSize(s)
  <2> DEFINE entry ==
               [snapshot |-> next, stale |-> FALSE, frozen_by |-> None,
                credential_hash |-> s.owners[o].credential_hash,
                recovery |-> s.owners[o].recovery]
  <2>1. s.owners[o] # None
    BY DEF Known
  <2>2. t = [generation |-> s.generation + 1,
             owners |-> [s.owners EXCEPT ![o] = entry]]
    BY <2>1 DEF Accepted
  <2>3. entry \in Owner /\ entry.snapshot = next
    BY <1>1, <1>6 DEF Owner
  <2> HIDE DEF entry, t
  <2>4. s.generation + 1 \in U64
    BY MaxU64Assumption DEF State, U64
  <2>5. t \in State
    BY <1>1, <2>2, <2>3, <2>4 DEF State
  <2>6. /\ t.owners[o] = entry /\ entry # None
        /\ \A p \in Owners \ {o} : t.owners[p] = s.owners[p]
    BY <1>1, <2>2, <2>3, NoneOwnerAssumption DEF State
  <2>7. Known(t) = Known(s)
    BY <1>1, <2>1, <2>6 DEF Known
  <2>8. \A p \in Known(t) : RecordIds(t.owners[p].snapshot) =
                             RecordIds(s.owners[p].snapshot)
    BY <1>8, <2>3, <2>6 DEF Known, old
  <2>9. QED
    BY <2>5, <2>7, <2>8, ReservedSame
<1>12. next.incarnation # 0 /\ next.revision # 0
  BY <1>2, <1>3, <1>6 DEF SnapshotSound
<1>13. Cardinality(RecordIds(next)) <= RecordLimit
  BY <1>3, <1>8 DEF SnapshotSound
<1>14. ReservedSize(s) <= ViewLimit
  BY DEF Sound
<1> HIDE DEF t
<1>15. CanAccept(s, o, next)
  BY <1>9, <1>10, <1>11, <1>12, <1>13, <1>14 DEF CanAccept, t
<1>16. QED
  BY <1>15 DEF next, old

\* Deletions fit, in every state of the node.
THEOREM DeletionsFit == Spec => []DeletionAlwaysFits
<1>1. ASSUME Inv, Kept
      PROVE  DeletionAlwaysFits
  <2>1. active \in State /\ Valid(active) /\ Sound(active)
    BY <1>1 DEF Inv, TypeOK, SaveProtocol, ServedInv, Kept, SoundInv
  <2>2. QED
    BY <2>1, DeletionFits DEF DeletionAlwaysFits
<1>2. QED
  BY KeptHolds, <1>1, PTL

\* The definitions of RouteHistory are those of RoutingState.
LEMMA PromiseSame ==
  /\ Promise!State = State
  /\ Promise!EmptyState = EmptyState
  /\ \A s, t : Promise!Extends(s, t) <=> Extends(s, t)
  /\ \A s : Promise!Exclusive(s) <=> Exclusive(s)
<1>1. Promise!State = State
  BY DEF Promise!State, State, Promise!Owner, Owner, Promise!Recovery, Recovery,
         Promise!Snapshot, Snapshot, Promise!Record, Record, Promise!U64, U64
<1>2. Promise!EmptyState = EmptyState
  BY DEF Promise!EmptyState, EmptyState
<1>3. \A s, t : Promise!Extends(s, t) <=> Extends(s, t)
  BY DEF Promise!Extends, Extends, Promise!OwnerExtends, OwnerExtends,
         Promise!RecordExtends, RecordExtends
<1>4. \A s : Promise!Exclusive(s) <=> Exclusive(s)
  BY DEF Promise!Exclusive, Exclusive, Promise!RecordOf, RecordOf
<1>5. QED
  BY <1>1, <1>2, <1>3, <1>4

\* The node implements the promise of RouteHistory: Activate is its Commit,
\* a failure its Stop, Restart its Start, and every other step changes
\* neither what was acknowledged nor what is served.
THEOREM PromiseKept == Spec => KeepsPromise
<1> DEFINE view == IF up THEN active ELSE None
<1>1. Init => Promise!HistoryInit
  BY PromiseSame DEF Init, Promise!HistoryInit
<1>2. ASSUME Inv, [Next]_vars
      PROVE  [Promise!HistoryNext]_<<acknowledged, view>>
  <2>0. active \in State /\ acknowledged \in State
    BY <1>2 DEF Inv, TypeOK
  <2>1. CASE Activate
    <3>1. /\ up /\ writer.candidate \in State
          /\ Extends(active, writer.candidate)
          /\ Valid(writer.candidate)
          /\ Extends(acknowledged, active)
      BY <1>2, <2>1 DEF Activate, At, Inv, TypeOK, SaveProtocol, WriterInv,
                        ServedInv, Writer
    <3>2. Extends(acknowledged, writer.candidate)
      BY <2>0, <3>1, ExtendsTransitive
    <3>3. Exclusive(writer.candidate)
      BY <3>1, ValidIsExclusive
    <3>4. active # None
      BY <2>0, NoneOwnerAssumption
    <3>5. acknowledged' = writer.candidate /\ active' = writer.candidate /\ up'
      BY <2>1, <3>1 DEF Activate
    <3>6. Promise!Commit
      BY <3>1, <3>2, <3>3, <3>4, <3>5, PromiseSame DEF Promise!Commit
    <3>7. QED
      BY <3>6 DEF Promise!HistoryNext
  <2>2. CASE Crash \/ \E contents \in survivors : PowerFailure(contents)
    <3>1. Promise!Stop
      BY <2>2 DEF Crash, PowerFailure, LoseMemory, Promise!Stop
    <3>2. QED
      BY <3>1 DEF Promise!HistoryNext
  <2>3. CASE Restart
    <3>1. Inv'
      BY <1>2, NextKeepsInv
    <3>2. /\ active' \in State /\ Extends(acknowledged', active')
          /\ Valid(active') /\ up' /\ ~up /\ acknowledged' = acknowledged
      BY <2>3, <3>1 DEF Restart, Inv, TypeOK, SaveProtocol, ServedInv
    <3>3. Exclusive(active')
      BY <3>2, ValidIsExclusive
    <3>4. Promise!Start
      BY <3>2, <3>3, PromiseSame DEF Promise!Start
    <3>5. QED
      BY <3>4 DEF Promise!HistoryNext
  <2>4. ASSUME UNCHANGED <<up, active, acknowledged>>
        PROVE  UNCHANGED <<acknowledged, view>>
    BY <2>4
  <2>5. \/ Activate
        \/ Crash \/ \E contents \in survivors : PowerFailure(contents)
        \/ Restart
        \/ UNCHANGED <<up, active, acknowledged>>
    BY <1>2
    DEF Next, Authenticate, Publish, PublishRefused, Freeze, Recover, Save,
        SaveWrite, SaveSync, SaveRename, SaveSyncDirectory, SaveFails, vars
  <2>6. QED
    BY <2>1, <2>2, <2>3, <2>4, <2>5
<1>3. QED
  BY InvHolds, <1>1, <1>2, PTL
  DEF Spec, KeepsPromise, Promise!HistorySpec

-----------------------------------------------------------------------------
(***************************************************************************)
(* The node as one that handles each request in one step.                  *)
(***************************************************************************)

\* What is being saved is what one request makes of the active state.
CandidateHandled == writer # None => Handled(active, writer.candidate)

\* Nothing changes the active state while a request holds the lock.
LEMMA CandidateStaysHandled ==
  ASSUME Inv, CandidateHandled, [Next]_vars
  PROVE  CandidateHandled'
<1>1. ASSUME NEW request \in authenticated, NEW next \in Offers, Publish(request, next)
      PROVE  CandidateHandled'
  <2> DEFINE o == request.owner
             candidate == Accepted(active, o, next)
  <2>1. o \in Owners /\ CanCommit(active, o, next)
    BY <1>1 DEF Publish, CanPublish, Inv, TypeOK, Request
  <2>2. active' = active /\ writer'.candidate = candidate
    BY <1>1 DEF Publish, BeginSave
  <2> HIDE DEF o
  <2>3. Handled(active, candidate)
    BY <2>1 DEF Handled
  <2> HIDE DEF candidate
  <2>4. Handled(active', writer'.candidate)
    BY <2>2, <2>3
  <2>5. QED
    BY <2>4 DEF CandidateHandled
<1>2. ASSUME NEW o \in Owners, NEW op \in Operations, Freeze(o, op)
      PROVE  CandidateHandled'
  <2> DEFINE candidate == Frozen(active, o, op)
  <2>1. CanFreeze(active, o, op) /\ active' = active /\ writer'.candidate = candidate
    BY <1>2 DEF Freeze, BeginSave
  <2>2. Handled(active, candidate)
    BY <2>1 DEF Handled
  <2> HIDE DEF candidate
  <2>3. Handled(active', writer'.candidate)
    BY <2>1, <2>2
  <2>4. QED
    BY <2>3 DEF CandidateHandled
<1>3. ASSUME NEW o \in Owners, NEW op \in Operations, NEW next \in Offers,
             NEW hash \in Credentials, Recover(o, op, next, hash)
      PROVE  CandidateHandled'
  <2> DEFINE candidate == Recovered(active, o, op, next, hash)
  <2>1. /\ CanRecover(active, o, op, next, hash)
        /\ active' = active /\ writer'.candidate = candidate
    BY <1>3 DEF Recover, BeginSave
  <2>2. Handled(active, candidate)
    BY <2>1 DEF Handled
  <2> HIDE DEF candidate
  <2>3. Handled(active', writer'.candidate)
    BY <2>1, <2>2
  <2>4. QED
    BY <2>3 DEF CandidateHandled
<1>4. ASSUME \/ writer' = None
             \/ writer # None /\ writer'.candidate = writer.candidate /\ active' = active
             \/ writer' = writer /\ active' = active
      PROVE  CandidateHandled'
  BY <1>4 DEF CandidateHandled
<1>5. ASSUME Save
      PROVE  writer # None /\ writer'.candidate = writer.candidate /\ active' = active
  BY <1>5
  DEF Save, SaveWrite, SaveSync, SaveRename, SaveSyncDirectory, At, Inv, TypeOK, Writer
<1>6. ASSUME SaveFails \/ Activate \/ Crash
             \/ \E contents \in survivors : PowerFailure(contents)
      PROVE  writer' = None
  BY <1>6 DEF SaveFails, Activate, Crash, PowerFailure, LoseMemory
<1>7. ASSUME Restart
      PROVE  writer' = None
  BY <1>7 DEF Restart, Inv, SaveProtocol, WriterInv
<1>8. ASSUME \/ \E o \in Owners, token \in Credentials : Authenticate(o, token)
             \/ \E request \in authenticated, next \in Offers : PublishRefused(request, next)
             \/ UNCHANGED vars
      PROVE  writer' = writer /\ active' = active
  BY <1>8 DEF Authenticate, PublishRefused, vars
<1>9. QED
  BY <1>1, <1>2, <1>3, <1>4, <1>5, <1>6, <1>7, <1>8 DEF Next

\* In every reachable state.
LEMMA CandidateAlwaysHandled == Spec => [](Inv /\ CandidateHandled)
<1>1. Init => CandidateHandled
  BY DEF Init, CandidateHandled
<1>2. Inv /\ CandidateHandled /\ [Next]_vars => CandidateHandled'
  BY CandidateStaysHandled
<1>3. QED
  BY InvHolds, <1>1, <1>2, PTL DEF Spec

\* The node implements AtomicNode: the rename is its Attempt, the sync of the
\* directory its Settle, Activate its Serve, a failure its Stop and Restart its
\* Start; every other step changes neither what is served nor what may be found.
THEOREM AtomicallyHandled == Spec => HandlesAtomically
<1> DEFINE view == IF up THEN active ELSE None
<1>1. Init => Atomically!AtomicInit
  BY DEF Init, Atomically!AtomicInit
<1>2. ASSUME Inv, CandidateHandled, [Next]_vars
      PROVE  [Atomically!AtomicNext]_<<view, survivors>>
  <2>0. /\ active \in State /\ active # None
        /\ disk \in survivors
    BY <1>2, NoneOwnerAssumption DEF Inv, TypeOK, SaveProtocol, FilesInv
  <2>1. CASE SaveRename
    <3>1. /\ up /\ up' /\ active' = active
          /\ survivors' = survivors \cup {writer.candidate}
          /\ Handled(active, writer.candidate)
      BY <1>2, <2>1
      DEF SaveRename, At, Inv, SaveProtocol, WriterInv, CandidateHandled
    <3>2. CASE writer.candidate \in survivors
      BY <3>1, <3>2
    <3>3. CASE writer.candidate \notin survivors
      <4>1. writer.candidate \in survivors' \ survivors
        BY <3>1, <3>3
      <4>2. Atomically!Attempt
        BY <2>0, <3>1, <4>1 DEF Atomically!Attempt
      <4>3. QED
        BY <4>2 DEF Atomically!AtomicNext
    <3>4. QED
      BY <3>2, <3>3
  <2>2. CASE SaveSyncDirectory
    <3>1. Atomically!Settle
      BY <2>0, <2>2 DEF SaveSyncDirectory, Atomically!Settle
    <3>2. QED
      BY <3>1 DEF Atomically!AtomicNext
  <2>3. CASE Activate
    <3>1. /\ up /\ up' /\ active' = writer.candidate
          /\ survivors = {writer.candidate} /\ survivors' = survivors
          /\ Handled(active, writer.candidate)
      BY <1>2, <2>3
      DEF Activate, At, Inv, SaveProtocol, WriterInv, CandidateHandled
    <3>2. CASE active' = active
      BY <3>1, <3>2
    <3>3. CASE active' # active
      <4>1. Handled(active, active')
        BY <3>1
      <4>2. Atomically!Serve
        BY <2>0, <3>1, <3>3, <4>1 DEF Atomically!Serve
      <4>3. QED
        BY <4>2 DEF Atomically!AtomicNext
    <3>4. QED
      BY <3>2, <3>3
  <2>4. CASE Crash \/ \E contents \in survivors : PowerFailure(contents)
    <3>1. up' = FALSE /\ survivors' # {} /\ survivors' \subseteq survivors
      BY <2>0, <2>4 DEF Crash, PowerFailure, LoseMemory
    <3>2. Atomically!Stop
      BY <3>1 DEF Atomically!Stop
    <3>3. QED
      BY <3>2 DEF Atomically!AtomicNext
  <2>5. CASE Restart
    <3>1. Atomically!Start
      BY <2>0, <2>5 DEF Restart, Atomically!Start
    <3>2. QED
      BY <3>1 DEF Atomically!AtomicNext
  <2>6. ASSUME UNCHANGED <<up, active, survivors>>
        PROVE  UNCHANGED <<view, survivors>>
    BY <2>6
  <2>7. \/ SaveRename \/ SaveSyncDirectory \/ Activate
        \/ Crash \/ \E contents \in survivors : PowerFailure(contents)
        \/ Restart
        \/ UNCHANGED <<up, active, survivors>>
    BY <1>2
    DEF Next, Authenticate, Publish, PublishRefused, Freeze, Recover, Save,
        SaveWrite, SaveSync, SaveFails, vars
  <2>8. QED
    BY <2>1, <2>2, <2>3, <2>4, <2>5, <2>6, <2>7
<1>3. QED
  BY CandidateAlwaysHandled, <1>1, <1>2, PTL
  DEF Spec, HandlesAtomically, Atomically!AtomicSpec
=============================================================================
