------------------------- MODULE RoutingStateProofs -------------------------
(***************************************************************************)
(* Lemmas about the functions of RoutingState: each of them keeps a state  *)
(* a state, extends the history it starts from, and leaves every endpoint  *)
(* with the instance that has it.                                          *)
(***************************************************************************)
EXTENDS RoutingState, SumProofs

\* The empty state of a node without a state file is a valid state.
LEMMA EmptyStateValid == EmptyState \in State /\ Valid(EmptyState)
  BY MaxU64Assumption DEF EmptyState, State, U64, Valid, RecordOf

\* Two endpoints accept admits are different sockets, so a valid state gives
\* no socket to two instances.
LEMMA ValidIsExclusive ==
  ASSUME NEW s, Valid(s)
  PROVE  Exclusive(s)
  BY CanonicalAssumption DEF Valid, Exclusive

\* Replacing a record twice keeps what replacing it once keeps.
LEMMA RecordExtendsTransitive ==
  ASSUME NEW a \in Record, NEW b \in Record, NEW c \in Record \cup {None},
         RecordExtends(a, b), RecordExtends(b, c)
  PROVE  RecordExtends(a, c)
<1>1. c \in Record
  BY DEF RecordExtends
<1>2. c.revision >= a.revision
  BY <1>1 DEF RecordExtends, Record, U64
<1>3. a.deleted => c.deleted
  BY Zenon DEF RecordExtends
<1>4. QED
  BY <1>2, <1>3 DEF RecordExtends

\* Every state extends itself.
LEMMA ExtendsReflexive ==
  ASSUME NEW s \in State
  PROVE  Extends(s, s)
  BY DEF Extends, OwnerExtends, RecordExtends, State, Owner, Snapshot, Record, U64

\* What extends an extension of a state extends the state.
LEMMA ExtendsTransitive ==
  ASSUME NEW s \in State, NEW t \in State, NEW u \in State,
         Extends(s, t), Extends(t, u)
  PROVE  Extends(s, u)
<1> SUFFICES ASSUME NEW o \in Owners, s.owners[o] # None
             PROVE  OwnerExtends(s.owners[o], u.owners[o])
  BY DEF Extends
<1>1. OwnerExtends(s.owners[o], t.owners[o]) /\ t.owners[o] # None
  BY DEF Extends, OwnerExtends
<1>2. OwnerExtends(t.owners[o], u.owners[o]) /\ u.owners[o] # None
  BY <1>1 DEF Extends, OwnerExtends
<1>3. s.owners[o] \in Owner /\ t.owners[o] \in Owner /\ u.owners[o] \in Owner
  BY <1>1, <1>2 DEF State
<1>4. ASSUME NEW i \in Ids, s.owners[o].snapshot.records[i] # None
      PROVE  RecordExtends(s.owners[o].snapshot.records[i],
                           u.owners[o].snapshot.records[i])
  <2>1. /\ s.owners[o].snapshot.records[i] \in Record
        /\ t.owners[o].snapshot.records[i] \in Record \cup {None}
        /\ u.owners[o].snapshot.records[i] \in Record \cup {None}
    BY <1>3, <1>4 DEF Owner, Snapshot
  <2>2. RecordExtends(s.owners[o].snapshot.records[i],
                      t.owners[o].snapshot.records[i])
    BY <1>1, <1>4 DEF OwnerExtends
  <2>3. t.owners[o].snapshot.records[i] # None
    BY <2>2 DEF RecordExtends
  <2>4. RecordExtends(t.owners[o].snapshot.records[i],
                      u.owners[o].snapshot.records[i])
    BY <1>2, <2>3 DEF OwnerExtends
  <2>5. QED
    BY <2>1, <2>2, <2>3, <2>4, RecordExtendsTransitive
<1>5. QED
  BY <1>1, <1>2, <1>3, <1>4 DEF OwnerExtends, Owner, Snapshot, U64

\* What accept builds is a state, as long as the generation can be counted.
LEMMA CandidateIsState ==
  ASSUME NEW s \in State, NEW o \in Owners, NEW next \in Snapshot,
         s.generation < MaxU64
  PROVE  /\ Accepted(s, o, next) \in State
         /\ Accepted(s, o, next).owners[o] \in Owner
<1> DEFINE previous == s.owners[o]
           entry == Accepted(s, o, next).owners[o]
<1>1. s.generation + 1 \in U64
  BY MaxU64Assumption DEF State, U64
<1>2. entry \in Owner
  <2>1. previous = None \/ previous \in Owner
    BY DEF State
  <2>2. CASE previous = None
    BY <2>2 DEF Accepted, Owner, State
  <2>3. CASE previous # None
    BY <2>1, <2>3 DEF Accepted, Owner, State
  <2>4. QED
    BY <2>2, <2>3
<1>3. /\ Accepted(s, o, next).generation = s.generation + 1
      /\ Accepted(s, o, next).owners = [s.owners EXCEPT ![o] = entry]
      /\ Accepted(s, o, next) = [generation |-> Accepted(s, o, next).generation,
                                 owners |-> Accepted(s, o, next).owners]
  BY DEF Accepted, State
<1>4. [s.owners EXCEPT ![o] = entry] \in [Owners -> Owner \cup {None}]
  BY <1>2 DEF State
<1>5. QED
  BY <1>1, <1>2, <1>3, <1>4 DEF State

\* accept returns a state.
LEMMA AcceptedIsState ==
  ASSUME NEW s \in State, NEW o \in Owners, NEW next \in Snapshot,
         CanAccept(s, o, next)
  PROVE  /\ Accepted(s, o, next) \in State
         /\ Accepted(s, o, next).owners[o] \in Owner
  BY CandidateIsState DEF CanAccept

\* accept's candidate keeps the accepted history of every owner: nothing is
\* omitted, moved or undeleted.
LEMMA AcceptedExtends ==
  ASSUME NEW s \in State, NEW o \in Owners, NEW next \in Snapshot,
         CanAccept(s, o, next)
  PROVE  Extends(s, Accepted(s, o, next))
<1> DEFINE t == Accepted(s, o, next)
<1>0. t \in State
  BY AcceptedIsState
<1> SUFFICES ASSUME NEW p \in Owners, s.owners[p] # None
             PROVE  OwnerExtends(s.owners[p], t.owners[p])
  BY DEF Extends
<1>1. CASE p # o
  <2>1. t.owners[p] = s.owners[p]
    BY <1>1 DEF Accepted, State
  <2>2. OwnerExtends(s.owners[p], s.owners[p])
    BY ExtendsReflexive DEF Extends
  <2>3. QED
    BY <2>1, <2>2
<1>2. CASE p = o
  <2>1. Continues(s.owners[o], next)
    BY <1>2 DEF CanAccept
  <2>2. t.owners[o] # None /\ t.owners[o].snapshot = next
    <3>1. t.owners[o].snapshot = next
      BY DEF Accepted, State
    <3>2. t.owners[o] # None
      BY AcceptedIsState, NoneOwnerAssumption
    <3>3. QED
      BY <3>1, <3>2
  <2>3. s.owners[o] \in Owner
    BY <1>2 DEF State
  <2>4. /\ next.incarnation >= s.owners[o].snapshot.incarnation
        /\ next.revision >= s.owners[o].snapshot.revision
    BY <2>1, <2>3 DEF Continues, Owner, Snapshot, U64
  <2>5. ASSUME NEW i \in Ids, s.owners[o].snapshot.records[i] # None
        PROVE  RecordExtends(s.owners[o].snapshot.records[i], next.records[i])
    BY <2>1, <2>5
    DEF Continues, RecordIds, RecordAdmissible, RecordExtends
  <2>6. QED
    BY <1>2, <2>2, <2>4, <2>5 DEF OwnerExtends
<1>3. QED
  BY <1>1, <1>2

\* The record map of accept's candidate: the owner's is the snapshot's.
LEMMA AcceptedRecords ==
  ASSUME NEW s \in State, NEW o \in Owners, NEW next \in Snapshot,
         CanAccept(s, o, next), NEW p \in Owners, NEW i \in Ids
  PROVE  RecordOf(Accepted(s, o, next), p, i) =
            IF p = o THEN next.records[i] ELSE RecordOf(s, p, i)
<1> DEFINE t == Accepted(s, o, next)
<1>1. CASE p # o
  BY <1>1 DEF Accepted, State, RecordOf
<1>2. CASE p = o
  <2>1. t.owners[o].snapshot = next
    BY DEF Accepted, State
  <2>2. t.owners[o] # None
    BY NoneOwnerAssumption, AcceptedIsState
  <2>3. QED
    BY <1>2, <2>1, <2>2 DEF RecordOf
<1>3. QED
  BY <1>1, <1>2

\* accept gives no endpoint to a second instance.
LEMMA AcceptedValid ==
  ASSUME NEW s \in State, NEW o \in Owners, NEW next \in Snapshot,
         CanAccept(s, o, next), Valid(s)
  PROVE  Valid(Accepted(s, o, next))
<1> DEFINE t == Accepted(s, o, next)
<1>0. RecordsValid(s, o, next)
  BY DEF CanAccept
<1> SUFFICES ASSUME NEW p \in Owners, NEW q \in Owners,
                    NEW i \in Ids, NEW j \in Ids,
                    RecordOf(t, p, i) # None
             PROVE  /\ RecordOf(t, p, i).endpoint \in Canonical
                    /\ RecordOf(t, q, j) # None
                       /\ RecordOf(t, p, i).endpoint = RecordOf(t, q, j).endpoint
                       => p = q /\ i = j
  BY DEF Valid
<1>1. /\ RecordOf(t, p, i) = IF p = o THEN next.records[i] ELSE RecordOf(s, p, i)
      /\ RecordOf(t, q, j) = IF q = o THEN next.records[j] ELSE RecordOf(s, q, j)
  BY AcceptedRecords
<1>2. CASE p = o /\ q = o
  BY <1>0, <1>1, <1>2 DEF RecordsValid, RecordIds
<1>3. CASE p = o /\ q # o
  BY <1>0, <1>1, <1>3 DEF RecordsValid, RecordIds, ReservedByAnother
<1>4. CASE p # o /\ q = o
  BY <1>0, <1>1, <1>4 DEF RecordsValid, RecordIds, ReservedByAnother, Valid
<1>5. CASE p # o /\ q # o
  BY <1>1, <1>5 DEF Valid
<1>6. QED
  BY <1>2, <1>3, <1>4, <1>5

\* Two states with the same owners and the same snapshots.
SameSnapshots(s, t) ==
    \A o \in Owners :
        /\ s.owners[o] = None <=> t.owners[o] = None
        /\ s.owners[o] # None => t.owners[o].snapshot = s.owners[o].snapshot

\* Fences, credentials and stale flags are no part of the history.
LEMMA SameSnapshotsExtend ==
  ASSUME NEW s \in State, NEW t \in State, SameSnapshots(s, t)
  PROVE  /\ Extends(s, t) /\ Extends(t, s)
         /\ Valid(s) => Valid(t)
<1>1. Extends(s, t)
  <2>1. Extends(s, s)
    BY ExtendsReflexive
  <2>2. QED
    BY <2>1 DEF SameSnapshots, Extends, OwnerExtends
<1>2. Extends(t, s)
  <2>1. Extends(t, t)
    BY ExtendsReflexive
  <2>2. QED
    BY <2>1 DEF SameSnapshots, Extends, OwnerExtends
<1>3. \A o \in Owners, i \in Ids : RecordOf(s, o, i) = RecordOf(t, o, i)
  BY DEF SameSnapshots, RecordOf
<1>4. Valid(s) => Valid(t)
  BY <1>3 DEF Valid
<1>5. QED
  BY <1>1, <1>2, <1>4

\* freeze changes the fence and the stale flag of one owner, no snapshot.
LEMMA FrozenKeeps ==
  ASSUME NEW s \in State, NEW o \in Owners, NEW op \in Operations,
         CanFreeze(s, o, op)
  PROVE  Frozen(s, o, op) \in State /\ SameSnapshots(s, Frozen(s, o, op))
<1> DEFINE t == Frozen(s, o, op)
<1>1. CASE FreezeIsRepeat(s.owners[o], op)
  BY <1>1 DEF Frozen, SameSnapshots
<1>2. CASE ~FreezeIsRepeat(s.owners[o], op)
  <2> DEFINE entry == [s.owners[o] EXCEPT !.frozen_by = op, !.stale = TRUE]
  <2>1. s.owners[o] \in Owner /\ s.generation + 1 \in U64
    BY <1>2, MaxU64Assumption DEF CanFreeze, State, U64
  <2>2. entry \in Owner /\ entry.snapshot = s.owners[o].snapshot
    BY <2>1 DEF Owner
  <2>3. t = [generation |-> s.generation + 1,
             owners |-> [s.owners EXCEPT ![o] = entry]]
    BY <1>2, <2>1 DEF Frozen, State, Owner
  <2>4. t \in State
    BY <2>1, <2>2, <2>3 DEF State
  <2>5. entry # None /\ s.owners[o] # None
    BY <2>1, <2>2, NoneOwnerAssumption
  <2>6. SameSnapshots(s, t)
    BY <2>2, <2>3, <2>5 DEF SameSnapshots, State
  <2>7. QED
    BY <2>4, <2>6
<1>3. QED
  BY <1>1, <1>2

\* after_restart only marks owners stale.
LEMMA AfterRestartKeeps ==
  ASSUME NEW s \in State
  PROVE  AfterRestart(s) \in State /\ SameSnapshots(s, AfterRestart(s))
<1> DEFINE entry(o) == IF s.owners[o] = None THEN None
                       ELSE [s.owners[o] EXCEPT !.stale = TRUE]
<1>1. AfterRestart(s) = [generation |-> s.generation,
                         owners |-> [o \in Owners |-> entry(o)]]
  BY DEF AfterRestart, State
<1>2. ASSUME NEW o \in Owners, s.owners[o] # None
      PROVE  /\ entry(o) \in Owner
             /\ entry(o) # None
             /\ entry(o).snapshot = s.owners[o].snapshot
  <2>1. s.owners[o] \in Owner
    BY <1>2 DEF State
  <2>2. entry(o) \in Owner /\ entry(o).snapshot = s.owners[o].snapshot
    BY <1>2, <2>1 DEF Owner
  <2>3. QED
    BY <2>2, NoneOwnerAssumption
<1>3. \A o \in Owners : s.owners[o] = None => entry(o) = None
  OBVIOUS
<1>4. AfterRestart(s) \in State
  BY <1>1, <1>2, <1>3 DEF State
<1>5. SameSnapshots(s, AfterRestart(s))
  BY <1>1, <1>2, <1>3 DEF SameSnapshots
<1>6. QED
  BY <1>4, <1>5

\* The base recover hands to accept is a state with the same records.
LEMMA RebasedKeeps ==
  ASSUME NEW s \in State, NEW o \in Owners, NEW n \in U64, s.owners[o] # None,
         n > s.owners[o].snapshot.incarnation
  PROVE  /\ Rebased(s, o, n) \in State
         /\ Extends(s, Rebased(s, o, n))
         /\ Valid(s) => Valid(Rebased(s, o, n))
<1> DEFINE old == s.owners[o]
           snap == [old.snapshot EXCEPT !.incarnation = n]
           entry == [old EXCEPT !.snapshot = snap, !.frozen_by = None]
           t == Rebased(s, o, n)
<1>1. old \in Owner
  BY DEF State
<1>2. /\ snap \in Snapshot
      /\ snap.incarnation = n
      /\ snap.revision = old.snapshot.revision
      /\ snap.records = old.snapshot.records
  BY <1>1 DEF Owner, Snapshot
<1>3. entry \in Owner /\ entry.snapshot = snap
  BY <1>1, <1>2 DEF Owner
<1>4. t = [generation |-> s.generation, owners |-> [s.owners EXCEPT ![o] = entry]]
  BY <1>1, <1>2, <1>3 DEF Rebased, State, Owner, Snapshot
<1>5. t \in State
  BY <1>3, <1>4 DEF State
<1>6. entry # None
  BY <1>3, NoneOwnerAssumption
<1>7. \A p \in Owners : t.owners[p] = IF p = o THEN entry ELSE s.owners[p]
  BY <1>4 DEF State
<1>8. Extends(s, t)
  <2>1. Extends(s, s)
    BY ExtendsReflexive
  <2>2. ASSUME NEW p \in Owners, s.owners[p] # None, p # o
        PROVE  OwnerExtends(s.owners[p], t.owners[p])
    BY <1>7, <2>1, <2>2 DEF Extends
  <2>3. OwnerExtends(old, old)
    BY <2>1 DEF Extends
  <2>4. OwnerExtends(old, entry)
    BY <1>1, <1>2, <1>3, <1>6, <2>3 DEF OwnerExtends, Owner, Snapshot, U64
  <2>5. QED
    BY <1>7, <2>2, <2>4 DEF Extends
<1>9. \A p \in Owners, i \in Ids : RecordOf(s, p, i) = RecordOf(t, p, i)
  BY <1>2, <1>3, <1>6, <1>7 DEF RecordOf
<1>10. Valid(s) => Valid(t)
  BY <1>9 DEF Valid
<1>11. QED
  BY <1>5, <1>8, <1>10

\* recover's candidate keeps every record and tombstone of the fenced history
\* and gives no endpoint to a second instance.
LEMMA RecoveredKeeps ==
  ASSUME NEW s \in State, NEW o \in Owners, NEW op \in Operations,
         NEW next \in Snapshot, NEW hash \in Credentials,
         CanRecover(s, o, op, next, hash)
  PROVE  /\ Recovered(s, o, op, next, hash) \in State
         /\ Extends(s, Recovered(s, o, op, next, hash))
         /\ Valid(s) => Valid(Recovered(s, o, op, next, hash))
<1> DEFINE t == Recovered(s, o, op, next, hash)
           base == Rebased(s, o, next.incarnation)
           accepted == Accepted(base, o, next)
<1>1. CASE RecoveredBy(s.owners[o], op)
  BY <1>1, ExtendsReflexive DEF Recovered
<1>2. CASE ~RecoveredBy(s.owners[o], op)
  <2>1. /\ s.owners[o] # None
        /\ next.incarnation > s.owners[o].snapshot.incarnation
        /\ CanAccept(base, o, next)
    BY <1>2 DEF CanRecover
  <2>2. next.incarnation \in U64
    BY DEF Snapshot
  <2>3. base \in State /\ Extends(s, base) /\ (Valid(s) => Valid(base))
    BY <2>1, <2>2, RebasedKeeps
  <2>4. accepted \in State /\ accepted.owners[o] \in Owner
    BY <2>1, <2>3, AcceptedIsState
  <2>5. Extends(base, accepted)
    BY <2>1, <2>3, AcceptedExtends
  <2>6. Valid(base) => Valid(accepted)
    BY <2>1, <2>3, AcceptedValid
  <2> DEFINE result == [operation |-> op, digest |-> Digest(op, next, hash)]
             entry == [accepted.owners[o] EXCEPT
                          !.stale = TRUE, !.credential_hash = hash,
                          !.recovery = result]
  <2>7. result \in Recovery
    BY DEF Recovery, Digest
  <2>8. entry \in Owner /\ entry.snapshot = accepted.owners[o].snapshot
    BY <2>4, <2>7 DEF Owner
  <2>9. t = [generation |-> accepted.generation,
             owners |-> [accepted.owners EXCEPT ![o] = entry]]
    BY <1>2 DEF Recovered
  <2> HIDE DEF entry, t, accepted
  <2>10. t \in State
    BY <2>4, <2>8, <2>9 DEF State
  <2>11. SameSnapshots(accepted, t)
    <3>1. entry # None /\ accepted.owners[o] # None
      BY <2>4, <2>8, NoneOwnerAssumption
    <3>2. QED
      BY <2>4, <2>8, <2>9, <3>1 DEF SameSnapshots, State
  <2>12. Extends(accepted, t) /\ (Valid(accepted) => Valid(t))
    BY <2>4, <2>10, <2>11, SameSnapshotsExtend
  <2>13. Extends(s, accepted)
    BY <2>3, <2>4, <2>5, ExtendsTransitive
  <2>14. Extends(s, t)
    BY <2>4, <2>10, <2>12, <2>13, ExtendsTransitive
  <2>15. QED
    BY <2>3, <2>6, <2>10, <2>12, <2>14 DEF t
<1>3. QED
  BY <1>1, <1>2

(***************************************************************************)
(* What a state must satisfy for a node to start from it.                  *)
(***************************************************************************)

\* What accept demands of the snapshot of one owner, whoever else is there.
SnapshotSound(o, snapshot) ==
    /\ snapshot.incarnation # 0
    /\ snapshot.revision # 0
    /\ Cardinality(RecordIds(snapshot)) <= RecordLimit
    /\ \A i \in RecordIds(snapshot) :
          LET r == snapshot.records[i] IN
          /\ r.app \in Applications[o]
          /\ r.revision # 0
          /\ r.revision <= snapshot.revision

\* A state every owner of which accept and validate_metadata admit, and that
\* fits the view at its largest.  The empty state is the default one.
Sound(s) ==
    /\ \A o \in Known(s) : SnapshotSound(o, s.owners[o].snapshot)
    /\ ValidateMetadata(s)
    /\ Known(s) = {} => s.generation = 0
    /\ Known(s) # {} => ReservedSize(s) <= ViewLimit

\* The sets that sizes are summed over are finite, the sizes are numbers.
LEMMA SizesAreNumbers ==
  ASSUME NEW s \in State
  PROVE  /\ IsFiniteSet(Known(s))
         /\ \A o \in Known(s) :
               /\ s.owners[o] \in Owner
               /\ IsFiniteSet(RecordIds(s.owners[o].snapshot))
               /\ Cardinality(RecordIds(s.owners[o].snapshot)) \in Nat
               /\ ReservedOwnerSize(s.owners[o]) \in Nat
               /\ OwnerSize(s.owners[o]) \in Nat
               /\ OwnerSize(s.owners[o]) <= ReservedOwnerSize(s.owners[o])
<1>1. IsFiniteSet(Known(s))
  BY FiniteAssumption, FS_Subset DEF Known
<1>2. ASSUME NEW o \in Known(s)
      PROVE  /\ s.owners[o] \in Owner
             /\ IsFiniteSet(RecordIds(s.owners[o].snapshot))
             /\ Cardinality(RecordIds(s.owners[o].snapshot)) \in Nat
             /\ ReservedOwnerSize(s.owners[o]) \in Nat
             /\ OwnerSize(s.owners[o]) \in Nat
             /\ OwnerSize(s.owners[o]) <= ReservedOwnerSize(s.owners[o])
  <2> DEFINE owner == s.owners[o]
             ids == RecordIds(owner.snapshot)
             f == [i \in ids |-> RecordSize(owner.snapshot.records[i])]
             g == [i \in ids |-> 1 + Width(MaxU64)]
  <2>1. owner \in Owner
    BY DEF Known, State
  <2>2. IsFiniteSet(ids)
    BY FiniteAssumption, FS_Subset DEF RecordIds
  <2>3. Cardinality(ids) \in Nat
    BY <2>2, FS_CardinalityType
  <2>4. \A i \in ids : f[i] \in Nat /\ g[i] \in Nat /\ f[i] <= g[i]
    <3> SUFFICES ASSUME NEW i \in ids
                 PROVE  f[i] \in Nat /\ g[i] \in Nat /\ f[i] <= g[i]
      OBVIOUS
    <3>1. owner.snapshot.records[i] \in Record
      BY <2>1 DEF Owner, Snapshot, RecordIds
    <3>2. owner.snapshot.records[i].revision \in 0 .. MaxU64
      BY <3>1 DEF Record, U64
    <3>3. f[i] = 1 + owner.snapshot.records[i].revision /\ g[i] = 1 + MaxU64
      BY DEF RecordSize, Width
    <3>4. QED
      BY <3>2, <3>3, MaxU64Assumption
  <2> HIDE DEF ids, f, g
  <2>5. SumFunctionOnSet(f, ids) <= SumFunctionOnSet(g, ids)
    BY <2>2, <2>4, SumBounded
  <2>6. SumFunctionOnSet(f, ids) \in Nat
    BY <2>2, <2>4, SumNat
  <2>7. SumFunctionOnSet(g, ids) = Cardinality(ids) * (1 + MaxU64)
    <3>1. 1 + MaxU64 \in Nat
      BY MaxU64Assumption
    <3>2. SumFunctionOnSet([i \in ids |-> 1 + MaxU64], ids) =
            Cardinality(ids) * (1 + MaxU64)
      BY <2>2, <3>1, SumConstant
    <3>3. g = [i \in ids |-> 1 + MaxU64]
      BY DEF g, Width
    <3>4. QED
      BY <3>2, <3>3
  <2>8. SumFunction(f) = SumFunctionOnSet(f, ids)
    BY DEF SumFunction, f
  <2>9. /\ owner.snapshot.incarnation \in 0 .. MaxU64
        /\ owner.snapshot.revision \in 0 .. MaxU64
    BY <2>1 DEF Owner, Snapshot, U64
  <2>10. \A x : Present(x) \in 0 .. 1
    BY DEF Present
  <2>11. OwnerSize(owner) =
           owner.snapshot.incarnation + owner.snapshot.revision
           + Present(owner.frozen_by) + Present(owner.credential_hash)
           + Present(owner.recovery) + SumFunction(f)
    BY DEF OwnerSize, Width, f, ids
  <2>12. ReservedOwnerSize(owner) =
           2 * MaxU64 + 3 + Cardinality(ids) * (1 + MaxU64)
    BY DEF ReservedOwnerSize, Width, ids
  <2>13. Cardinality(ids) * (1 + MaxU64) \in Nat
    BY <2>3, MaxU64Assumption
  <2>14. /\ ReservedOwnerSize(owner) \in Nat
         /\ OwnerSize(owner) \in Nat
         /\ OwnerSize(owner) <= ReservedOwnerSize(owner)
    <3> DEFINE n == Cardinality(ids) * (1 + MaxU64)
               m == SumFunctionOnSet(f, ids)
    <3>1. n \in Nat /\ m \in Nat /\ m <= n
      BY <2>5, <2>6, <2>7, <2>13
    <3>2. /\ OwnerSize(owner) =
               owner.snapshot.incarnation + owner.snapshot.revision
               + Present(owner.frozen_by) + Present(owner.credential_hash)
               + Present(owner.recovery) + m
          /\ ReservedOwnerSize(owner) = 2 * MaxU64 + 3 + n
      BY <2>8, <2>11, <2>12
    <3>3. /\ Present(owner.frozen_by) \in 0 .. 1
          /\ Present(owner.credential_hash) \in 0 .. 1
          /\ Present(owner.recovery) \in 0 .. 1
      BY <2>10
    <3> HIDE DEF n, m
    <3>4. QED
      BY <2>9, <3>1, <3>2, <3>3, MaxU64Assumption
  <2>15. QED
    BY <2>1, <2>2, <2>3, <2>14 DEF ids
<1>3. QED
  BY <1>1, <1>2

\* A state is never larger than its largest form.
LEMMA SizeWithinReserve ==
  ASSUME NEW s \in State
  PROVE  /\ Size(s) \in Nat
         /\ ReservedSize(s) \in Nat
         /\ Size(s) <= ReservedSize(s)
         /\ Known(s) = {} => Size(s) = s.generation
<1> DEFINE f == [o \in Known(s) |-> OwnerSize(s.owners[o])]
           g == [o \in Known(s) |-> ReservedOwnerSize(s.owners[o])]
<1>1. SumFunctionOnSet(f, Known(s)) <= SumFunctionOnSet(g, Known(s))
  BY SizesAreNumbers, SumBounded
<1>2. /\ SumFunctionOnSet(f, Known(s)) \in Nat
      /\ SumFunctionOnSet(g, Known(s)) \in Nat
  BY SizesAreNumbers, SumNat
<1>3. /\ Size(s) = s.generation + SumFunctionOnSet(f, Known(s))
      /\ ReservedSize(s) = MaxU64 + SumFunctionOnSet(g, Known(s))
  BY DEF Size, ReservedSize, Width, SumFunction
<1>4. s.generation \in 0 .. MaxU64
  BY DEF State, U64
<1>5. Known(s) = {} => SumFunctionOnSet(f, Known(s)) = 0
  BY SumEmpty
<1> HIDE DEF f, g
<1>6. QED
  BY <1>1, <1>2, <1>3, <1>4, <1>5, MaxU64Assumption

\* The largest form depends only on which records there are.
LEMMA ReservedSame ==
  ASSUME NEW s \in State, NEW t \in State, Known(s) = Known(t),
         \A o \in Known(s) : RecordIds(s.owners[o].snapshot) =
                             RecordIds(t.owners[o].snapshot)
  PROVE  ReservedSize(s) = ReservedSize(t)
<1> DEFINE f == [o \in Known(s) |-> ReservedOwnerSize(s.owners[o])]
           g == [o \in Known(t) |-> ReservedOwnerSize(t.owners[o])]
<1>1. \A o \in Known(s) : f[o] \in Nat /\ f[o] = g[o]
  BY SizesAreNumbers DEF ReservedOwnerSize
<1>2. SumFunctionOnSet(f, Known(s)) = SumFunctionOnSet(g, Known(s))
  BY <1>1, SizesAreNumbers, SumSame
<1>3. QED
  BY <1>2 DEF ReservedSize, SumFunction

\* An owner that is taken out of a state and accepted again is back with
\* everything that counts for the size.
LEMMA AddedBack ==
  ASSUME NEW s \in State, NEW o \in Known(s)
  PROVE  LET t == Accepted(Without(s, o), o, s.owners[o].snapshot) IN
         /\ t \in State
         /\ ReservedSize(t) = ReservedSize(s)
<1> DEFINE base == Without(s, o)
           next == s.owners[o].snapshot
           t == Accepted(base, o, next)
<1>1. /\ o \in Owners /\ s.owners[o] \in Owner /\ s.owners[o] # None
      /\ next \in Snapshot
  BY DEF Known, State, Owner
<1>2. /\ base.generation = 0
      /\ base.owners = [s.owners EXCEPT ![o] = None]
      /\ base.owners[o] = None
  BY <1>1 DEF Without, State
<1> DEFINE entry == [snapshot |-> next, stale |-> FALSE, frozen_by |-> None,
                     credential_hash |-> None, recovery |-> None]
<1>3. t = [generation |-> 1, owners |-> [base.owners EXCEPT ![o] = entry]]
  BY <1>2 DEF Accepted
<1>4. entry \in Owner /\ entry.snapshot = next
  BY <1>1 DEF Owner
<1> HIDE DEF entry
<1>5. entry # None
  BY <1>4, NoneOwnerAssumption
<1>6. t = [generation |-> 1, owners |-> [s.owners EXCEPT ![o] = entry]]
  BY <1>1, <1>2, <1>3 DEF State
<1>7. 1 \in U64
  BY MaxU64Assumption DEF U64
<1> HIDE DEF t
<1>8. t \in State
  <2>1. [s.owners EXCEPT ![o] = entry] \in [Owners -> Owner \cup {None}]
    BY <1>1, <1>4 DEF State
  <2>2. QED
    BY <1>6, <1>7, <2>1 DEF State
<1>9. Known(t) = Known(s)
  BY <1>1, <1>5, <1>6 DEF Known, State
<1>10. \A p \in Known(t) : t.owners[p].snapshot = s.owners[p].snapshot
  BY <1>1, <1>4, <1>6 DEF Known, State
<1>11. ReservedSize(t) = ReservedSize(s)
  BY <1>8, <1>9, <1>10, ReservedSame
<1>12. QED
  BY <1>8, <1>11 DEF t, base, next

\* A node starts from every sound and valid state: each owner's snapshot is
\* accepted again where the owner is still missing.
LEMMA SoundLoads ==
  ASSUME NEW s \in State, Valid(s), Sound(s)
  PROVE  Loads(s)
<1>1. Size(s) <= ViewLimit
  <2>1. CASE Known(s) = {}
    BY <2>1, SizeWithinReserve, LimitAssumption DEF Sound
  <2>2. CASE Known(s) # {}
    <3> DEFINE a == Size(s)
               b == ReservedSize(s)
    <3>1. a <= b /\ b <= ViewLimit
      BY <2>2, SizeWithinReserve DEF Sound
    <3>2. a \in Int /\ b \in Int
      BY SizeWithinReserve
    <3> HIDE DEF a, b
    <3>3. a <= ViewLimit
      BY <3>1, <3>2, LimitAssumption
    <3>4. QED
      BY <3>3 DEF a
  <2>3. QED
    BY <2>1, <2>2
<1>2. ASSUME NEW o \in Known(s)
      PROVE  CanAccept(Without(s, o), o, s.owners[o].snapshot)
  <2> DEFINE base == Without(s, o)
             next == s.owners[o].snapshot
             t == Accepted(base, o, next)
  <2>1. o \in Owners /\ s.owners[o] \in Owner /\ s.owners[o] # None
    BY DEF Known, State
  <2>2. next \in Snapshot
    BY <2>1 DEF Owner
  <2>3. /\ base.generation = 0
        /\ base.owners = [s.owners EXCEPT ![o] = None]
        /\ base.owners[o] = None
    BY <2>1 DEF Without, State
  <2>5. SnapshotSound(o, next)
    BY DEF Sound
  <2>6. RecordsValid(base, o, next)
    <3> SUFFICES ASSUME NEW i \in RecordIds(next)
                 PROVE  /\ next.records[i].endpoint \in Canonical
                        /\ next.records[i].app \in Applications[o]
                        /\ next.records[i].revision # 0
                        /\ next.records[i].revision <= next.revision
                        /\ \A j \in RecordIds(next) :
                              next.records[j].endpoint = next.records[i].endpoint
                              => j = i
                        /\ ~ReservedByAnother(base, o, i, next.records[i].endpoint)
      BY DEF RecordsValid
    <3>1. i \in Ids /\ next.records[i] # None
      BY DEF RecordIds
    <3>2. RecordOf(s, o, i) = next.records[i]
      BY <2>1 DEF RecordOf
    <3>3. next.records[i].endpoint \in Canonical
      BY <2>1, <3>1, <3>2 DEF Valid
    <3>4. ASSUME NEW j \in RecordIds(next),
                 next.records[j].endpoint = next.records[i].endpoint
          PROVE  j = i
      <4>1. j \in Ids /\ RecordOf(s, o, j) = next.records[j]
            /\ next.records[j] # None
        BY <2>1 DEF RecordIds, RecordOf
      <4>2. QED
        BY <2>1, <3>1, <3>2, <3>4, <4>1 DEF Valid
    <3>5. ~ReservedByAnother(base, o, i, next.records[i].endpoint)
      <4> SUFFICES ASSUME NEW p \in Owners, NEW j \in Ids,
                          RecordOf(base, p, j) # None,
                          RecordOf(base, p, j).endpoint = next.records[i].endpoint
                   PROVE  <<p, j>> = <<o, i>>
        BY DEF ReservedByAnother
      <4>1. p # o /\ RecordOf(base, p, j) = RecordOf(s, p, j)
        BY <2>1, <2>3 DEF RecordOf, State
      <4>2. QED
        BY <2>1, <3>1, <3>2, <4>1 DEF Valid
    <3>6. QED
      BY <2>5, <3>3, <3>4, <3>5 DEF SnapshotSound
  <2>7. ReservedSize(t) = ReservedSize(s)
    BY AddedBack
  <2>9. ReservedSize(s) <= ViewLimit
    BY DEF Sound
  <2>10. base.generation < MaxU64
    BY <2>3, MaxU64Assumption
  <2>11. QED
    BY <2>3, <2>5, <2>6, <2>7, <2>9, <2>10 DEF CanAccept, SnapshotSound
<1>3. QED
  BY <1>1, <1>2 DEF Loads, Sound

\* What recover leaves behind when it has not run before: t is s with the
\* owner o moved to `next' and the recovery recorded.
MovedByRecovery(s, t, o, op, next, hash) ==
    /\ t.owners[o] \in Owner
    /\ t.owners[o].snapshot = next
    /\ t.owners[o].stale = TRUE
    /\ t.owners[o].credential_hash = hash
    /\ t.owners[o].recovery \in Recovery
    /\ t.owners[o].recovery.operation = op
    /\ \A p \in Owners \ {o} : t.owners[p] = s.owners[p]
    /\ SnapshotSound(o, next)
    /\ ReservedSize(t) <= ViewLimit

LEMMA RecoveredBecomes ==
  ASSUME NEW s \in State, NEW o \in Owners, NEW op \in Operations,
         NEW next \in Snapshot, NEW hash \in Credentials,
         CanRecover(s, o, op, next, hash), ~RecoveredBy(s.owners[o], op)
  PROVE  MovedByRecovery(s, Recovered(s, o, op, next, hash), o, op, next, hash)
<1> DEFINE t == Recovered(s, o, op, next, hash)
           base == Rebased(s, o, next.incarnation)
           accepted == Accepted(base, o, next)
           installed == [operation |-> op, digest |-> Digest(op, next, hash)]
<1>1. /\ s.owners[o] # None
      /\ next.incarnation > s.owners[o].snapshot.incarnation
      /\ CanAccept(base, o, next)
  BY DEF CanRecover
<1>2. next.incarnation \in U64
  BY DEF Snapshot
<1>3. base \in State
  BY <1>1, <1>2, RebasedKeeps
<1>4. /\ accepted \in State
      /\ accepted.owners[o] \in Owner
      /\ accepted.owners[o].snapshot = next
  BY <1>1, <1>3, AcceptedIsState DEF Accepted, State
<1>5. \A p \in Owners \ {o} : accepted.owners[p] = s.owners[p]
  <2>1. \A p \in Owners \ {o} : base.owners[p] = s.owners[p]
    BY DEF Rebased, State
  <2>2. \A p \in Owners \ {o} : accepted.owners[p] = base.owners[p]
    BY <1>3 DEF Accepted, State
  <2>3. QED
    BY <2>1, <2>2
<1>6. t = [generation |-> accepted.generation,
           owners |-> [accepted.owners EXCEPT ![o] =
             [@ EXCEPT !.stale = TRUE, !.credential_hash = hash,
                       !.recovery = installed]]]
  BY DEF Recovered
<1>7. ReservedSize(accepted) <= ViewLimit /\ SnapshotSound(o, next)
  BY <1>1 DEF CanAccept, RecordsValid, SnapshotSound
<1>8. installed \in Recovery
  BY DEF Recovery, Digest
<1>9. t \in State
  BY RecoveredKeeps
<1> HIDE DEF accepted, base, installed, t
<1>10. t.owners[o] = [accepted.owners[o] EXCEPT !.stale = TRUE,
                                                !.credential_hash = hash,
                                                !.recovery = installed]
  BY <1>4, <1>6 DEF State
<1>11. /\ t.owners[o] \in Owner
       /\ t.owners[o].stale = TRUE
       /\ t.owners[o].credential_hash = hash
       /\ t.owners[o].recovery = installed
       /\ t.owners[o].snapshot = next
  BY <1>4, <1>8, <1>10 DEF Owner
<1>12. \A p \in Owners \ {o} : t.owners[p] = accepted.owners[p]
  BY <1>4, <1>6 DEF State
<1>13. ReservedSize(t) = ReservedSize(accepted)
  <2>1. t.owners[o] # None /\ accepted.owners[o] # None
    BY <1>4, <1>11, NoneOwnerAssumption
  <2>2. Known(t) = Known(accepted)
    BY <1>12, <2>1 DEF Known
  <2>3. \A p \in Known(t) : RecordIds(t.owners[p].snapshot) =
                             RecordIds(accepted.owners[p].snapshot)
    BY <1>4, <1>11, <1>12 DEF Known
  <2>4. QED
    BY <1>4, <1>9, <2>2, <2>3, ReservedSame
<1>14. QED
  BY <1>5, <1>7, <1>8, <1>11, <1>12, <1>13 DEF t, installed, MovedByRecovery

\* The default state of a new node is sound.
LEMMA EmptyStateSound == Sound(EmptyState)
  BY DEF EmptyState, Sound, Known, ValidateMetadata

\* What publish commits: a new owner starts in its first incarnation, a known
\* one keeps its incarnation and what recovery has installed.
LEMMA AcceptedSound ==
  ASSUME NEW s \in State, NEW o \in Owners, NEW next \in Snapshot,
         CanCommit(s, o, next), Sound(s)
  PROVE  Sound(Accepted(s, o, next))
<1> DEFINE t == Accepted(s, o, next)
<1>1. CanAccept(s, o, next) /\ (s.owners[o] = None => next.incarnation = 1)
  BY DEF CanCommit
<1>2. t.owners[o] \in Owner /\ t.owners[o] # None
  BY <1>1, AcceptedIsState, NoneOwnerAssumption
<1>3. /\ t.owners[o].snapshot = next
      /\ \A p \in Owners \ {o} : t.owners[p] = s.owners[p]
  BY DEF Accepted, State
<1>4. SnapshotSound(o, next) /\ ReservedSize(t) <= ViewLimit
  BY <1>1 DEF CanAccept, RecordsValid, SnapshotSound
<1>5. ASSUME next.incarnation > 1
      PROVE  /\ t.owners[o].credential_hash # None
             /\ t.owners[o].recovery # None
  <2>1. s.owners[o] # None /\ next.incarnation = s.owners[o].snapshot.incarnation
    BY <1>1, <1>5 DEF CanAccept, Continues
  <2>2. /\ s.owners[o].credential_hash # None
        /\ s.owners[o].recovery # None
    BY <1>5, <2>1 DEF Sound, ValidateMetadata, Known
  <2>3. /\ t.owners[o].credential_hash = s.owners[o].credential_hash
        /\ t.owners[o].recovery = s.owners[o].recovery
    BY <2>1 DEF Accepted, State
  <2>4. QED
    BY <2>2, <2>3
<1> HIDE DEF t
<1>6. o \in Known(t) /\ \A p \in Known(t) \ {o} :
                          p \in Known(s) /\ t.owners[p] = s.owners[p]
  BY <1>2, <1>3 DEF Known
<1>7. \A p \in Known(t) : SnapshotSound(p, t.owners[p].snapshot)
  BY <1>3, <1>4, <1>6 DEF Sound
<1>8. ValidateMetadata(t)
  BY <1>3, <1>5, <1>6 DEF Sound, ValidateMetadata
<1>9. QED
  BY <1>4, <1>6, <1>7, <1>8 DEF Sound, t

\* freeze touches neither snapshots nor what recovery has installed.
LEMMA FrozenSound ==
  ASSUME NEW s \in State, NEW o \in Owners, NEW op \in Operations,
         CanFreeze(s, o, op), Sound(s)
  PROVE  Sound(Frozen(s, o, op))
<1> DEFINE t == Frozen(s, o, op)
<1>1. CASE FreezeIsRepeat(s.owners[o], op)
  BY <1>1 DEF Frozen
<1>2. CASE ~FreezeIsRepeat(s.owners[o], op)
  <2>1. t \in State /\ SameSnapshots(s, t) /\ s.owners[o] # None
    BY FrozenKeeps DEF CanFreeze
  <2>2. Known(t) = Known(s) /\ o \in Known(s)
    BY <2>1 DEF SameSnapshots, Known
  <2>3. \A p \in Known(t) : t.owners[p].snapshot = s.owners[p].snapshot
    BY <2>1, <2>2 DEF SameSnapshots, Known
  <2>4. ReservedSize(t) = ReservedSize(s)
    BY <2>1, <2>2, <2>3, ReservedSame
  <2>5. \A p \in Known(t) :
           /\ t.owners[p].credential_hash = s.owners[p].credential_hash
           /\ t.owners[p].recovery = s.owners[p].recovery
    <3>1. s.owners[o] \in Owner
      BY <2>1 DEF State
    <3>2. t.owners[o] = [s.owners[o] EXCEPT !.frozen_by = op, !.stale = TRUE]
      BY <1>2 DEF Frozen, State
    <3>3. \A p \in Owners \ {o} : t.owners[p] = s.owners[p]
      BY <1>2 DEF Frozen, State
    <3>4. QED
      BY <3>1, <3>2, <3>3 DEF Known, Owner
  <2> HIDE DEF t
  <2>6. Sound(t)
    BY <2>2, <2>3, <2>4, <2>5 DEF Sound, ValidateMetadata
  <2>7. QED
    BY <2>6 DEF t
<1>3. QED
  BY <1>1, <1>2

\* recover installs a credential and its own trace with the incarnation.
LEMMA RecoveredSound ==
  ASSUME NEW s \in State, NEW o \in Owners, NEW op \in Operations,
         NEW next \in Snapshot, NEW hash \in Credentials,
         CanRecover(s, o, op, next, hash), Sound(s)
  PROVE  Sound(Recovered(s, o, op, next, hash))
<1> DEFINE t == Recovered(s, o, op, next, hash)
<1>1. CASE RecoveredBy(s.owners[o], op)
  BY <1>1 DEF Recovered
<1>2. CASE ~RecoveredBy(s.owners[o], op)
  <2>0. MovedByRecovery(s, t, o, op, next, hash)
    BY <1>2, RecoveredBecomes
  <2>1. /\ t.owners[o] \in Owner
        /\ t.owners[o].snapshot = next
        /\ t.owners[o].credential_hash = hash
        /\ t.owners[o].recovery \in Recovery
        /\ \A p \in Owners \ {o} : t.owners[p] = s.owners[p]
        /\ SnapshotSound(o, next)
        /\ ReservedSize(t) <= ViewLimit
    BY <2>0 DEF MovedByRecovery
  <2> HIDE DEF t
  <2>2. /\ t.owners[o] # None
        /\ t.owners[o].credential_hash # None
        /\ t.owners[o].recovery # None
    BY <2>1, NoneOwnerAssumption, NoneAssumption
  <2>3. o \in Known(t) /\ \A p \in Known(t) \ {o} :
                            p \in Known(s) /\ t.owners[p] = s.owners[p]
    BY <2>1, <2>2 DEF Known
  <2>4. \A p \in Known(t) : SnapshotSound(p, t.owners[p].snapshot)
    BY <2>1, <2>3 DEF Sound
  <2>5. ValidateMetadata(t)
    BY <2>2, <2>3 DEF Sound, ValidateMetadata
  <2>6. QED
    BY <2>1, <2>3, <2>4, <2>5 DEF Sound, t
<1>3. QED
  BY <1>1, <1>2

\* A restart marks owners stale and changes nothing else.
LEMMA AfterRestartSound ==
  ASSUME NEW s \in State, Sound(s)
  PROVE  Sound(AfterRestart(s))
<1> DEFINE t == AfterRestart(s)
<1>1. t \in State /\ SameSnapshots(s, t) /\ t.generation = s.generation
  BY AfterRestartKeeps DEF AfterRestart
<1>2. Known(t) = Known(s)
  BY <1>1 DEF SameSnapshots, Known
<1>3. \A p \in Known(t) : t.owners[p].snapshot = s.owners[p].snapshot
  BY <1>1, <1>2 DEF SameSnapshots, Known
<1>4. ReservedSize(t) = ReservedSize(s)
  BY <1>1, <1>2, <1>3, ReservedSame
<1>5. \A p \in Known(t) :
         /\ t.owners[p].credential_hash = s.owners[p].credential_hash
         /\ t.owners[p].recovery = s.owners[p].recovery
  <2> SUFFICES ASSUME NEW p \in Known(t)
               PROVE  /\ t.owners[p].credential_hash = s.owners[p].credential_hash
                      /\ t.owners[p].recovery = s.owners[p].recovery
    OBVIOUS
  <2>1. p \in Owners /\ s.owners[p] # None /\ s.owners[p] \in Owner
    BY <1>2 DEF Known, State
  <2>2. t.owners[p] = [s.owners[p] EXCEPT !.stale = TRUE]
    BY <2>1 DEF AfterRestart
  <2>3. QED
    BY <2>1, <2>2 DEF Owner
<1> HIDE DEF t
<1>6. Sound(t)
  BY <1>1, <1>2, <1>3, <1>4, <1>5 DEF Sound, ValidateMetadata
<1>7. QED
  BY <1>6 DEF t
=============================================================================
