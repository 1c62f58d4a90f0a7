---------------------------- MODULE RoutingState ----------------------------
(***************************************************************************)
(* The route state of one routing node and the pure functions over it, as  *)
(* written in routing/src/lib.rs (impl State).  A Rust function that       *)
(* returns Result<State, String> is a pair of operators here: a predicate  *)
(* that holds exactly when the function returns Ok, and the state it then  *)
(* returns.                                                                *)
(*                                                                         *)
(* Data is abstract: owners, instance ids, endpoints, operation names and  *)
(* credential hashes are members of constant sets, a digest is the triple  *)
(* it is computed from, and the serialized size of a state is the number   *)
(* of its variable parts plus the printed width of its numbers.  The       *)
(* wall-clock field reconciled_ms is only reported and is left out; its    *)
(* share of the size is part of the owner's fixed cost.                    *)
(***************************************************************************)
EXTENDS Integers, FiniteSets, Functions

CONSTANTS
    Owners,        \* the owners of the configuration file
    Ids,           \* instance identifiers
    Apps,          \* applications
    Applications,  \* Applications[o]: the applications owner o may publish
    Endpoints,     \* socket addresses as they are written in a record
    Canonical,     \* the endpoints that pass the address checks of accept
    Socket,        \* Socket[e]: the socket that endpoint e really reaches
    Operations,    \* names of recovery operations
    Credentials,   \* hashes of publishing credentials
    InitialCredential,  \* InitialCredential[o]: hash of o's configured token
    RecordLimit,   \* records one owner may ever have (RECORD_LIMIT)
    ViewLimit,     \* serialized size of a complete view (VIEW_LIMIT)
    MaxU64,        \* the largest u64
    None           \* Option::None, and a missing key of a BTreeMap

ASSUME MaxU64Assumption == MaxU64 \in Nat \ {0}

ASSUME LimitAssumption == RecordLimit \in Nat /\ ViewLimit \in Nat

\* The configuration file lists the owners, and an identifier is a string of
\* bounded length.
ASSUME FiniteAssumption == IsFiniteSet(Owners) /\ IsFiniteSet(Ids)

ASSUME ApplicationsAssumption == Applications \in [Owners -> SUBSET Apps]

ASSUME InitialCredentialAssumption ==
    InitialCredential \in [Owners -> Credentials]

\* Two accepted spellings never reach the same socket: a scoped or an
\* IPv4-mapped IPv6 address is an alias and is not canonical.
ASSUME CanonicalAssumption ==
    /\ Canonical \subseteq Endpoints
    /\ \A e, f \in Canonical : Socket[e] = Socket[f] => e = f

U64 == 0 .. MaxU64

Record ==
    [app : Apps, endpoint : Endpoints, revision : U64, deleted : BOOLEAN]

\* None is no record, so a map from ids can say that an id is absent.
ASSUME NoneAssumption ==
    /\ None \notin Record
    /\ None \notin Operations
    /\ None \notin Credentials

Snapshot ==
    [incarnation : U64, revision : U64, records : [Ids -> Record \cup {None}]]

Recovery ==
    [operation : Operations, digest : Operations \X Snapshot \X Credentials]

Owner ==
    [snapshot : Snapshot,
     stale : BOOLEAN,
     frozen_by : Operations \cup {None},
     credential_hash : Credentials \cup {None},
     recovery : Recovery \cup {None}]

State == [generation : U64, owners : [Owners -> Owner \cup {None}]]

ASSUME NoneOwnerAssumption ==
    /\ None \notin Owner
    /\ None \notin Recovery
    /\ None \notin State

\* State::default(), and what load makes of a missing state file.
EmptyState == [generation |-> 0, owners |-> [o \in Owners |-> None]]

(***************************************************************************)
(* Parts of a state.                                                       *)
(***************************************************************************)
Known(s) == {o \in Owners : s.owners[o] # None}

RecordIds(snapshot) == {i \in Ids : snapshot.records[i] # None}

\* The record of a known owner, or None.
RecordOf(s, o, i) ==
    IF s.owners[o] = None THEN None ELSE s.owners[o].snapshot.records[i]

\* reservations: every endpoint that some record, deleted or not, has had.
ReservedByAnother(s, o, i, endpoint) ==
    \E p \in Owners, j \in Ids :
        /\ <<p, j>> # <<o, i>>
        /\ RecordOf(s, p, j) # None
        /\ RecordOf(s, p, j).endpoint = endpoint

(***************************************************************************)
(* Size of the serialized state.  Width stands for the number of digits:   *)
(* it never shrinks as the number grows.                                   *)
(***************************************************************************)
Width(n) == n

Present(x) == IF x = None THEN 0 ELSE 1

RecordSize(r) == 1 + Width(r.revision)

OwnerSize(owner) ==
    Width(owner.snapshot.incarnation) + Width(owner.snapshot.revision)
    + Present(owner.frozen_by) + Present(owner.credential_hash)
    + Present(owner.recovery)
    + SumFunction([i \in RecordIds(owner.snapshot) |->
                     RecordSize(owner.snapshot.records[i])])

Size(s) ==
    Width(s.generation)
    + SumFunction([o \in Known(s) |-> OwnerSize(s.owners[o])])

\* The largest size the state can grow to by deletions, revisions and
\* recovery alone: every number at its widest, every fence present.
ReservedOwnerSize(owner) ==
    2 * Width(MaxU64) + 3
    + Cardinality(RecordIds(owner.snapshot)) * (1 + Width(MaxU64))

\* Mutant of ReservedSize: the state is measured as it is now.
CurrentSize(s) == Size(s)

ReservedSize(s) ==
    Width(MaxU64)
    + SumFunction([o \in Known(s) |-> ReservedOwnerSize(s.owners[o])])

(***************************************************************************)
(* State::accept: admit the complete snapshot `next' of owner o.           *)
(***************************************************************************)

\* A record of the owner's accepted history and what replaces it.
RecordAdmissible(old, new) ==
    /\ new # None
    /\ new.app = old.app
    /\ new.endpoint = old.endpoint
    /\ new.revision >= old.revision
    /\ old.deleted => new.deleted
    /\ new.revision = old.revision => new = old

\* Mutant of Continues: the owner's fence is not looked at.
ContinuesUnfenced(previous, next) ==
    /\ next.incarnation = previous.snapshot.incarnation
    /\ next.revision >= previous.snapshot.revision
    /\ next.revision = previous.snapshot.revision => next = previous.snapshot
    /\ \A i \in RecordIds(previous.snapshot) :
          RecordAdmissible(previous.snapshot.records[i], next.records[i])

\* Mutant of Continues: only the snapshot's own numbers are compared.
ContinuesByNumber(previous, next) ==
    /\ previous.frozen_by = None
    /\ next.incarnation = previous.snapshot.incarnation
    /\ next.revision >= previous.snapshot.revision

\* The snapshot continues the history accepted from this owner before.
Continues(previous, next) ==
    /\ previous.frozen_by = None
    /\ next.incarnation = previous.snapshot.incarnation
    /\ next.revision >= previous.snapshot.revision
    /\ next.revision = previous.snapshot.revision => next = previous.snapshot
    /\ \A i \in RecordIds(previous.snapshot) :
          RecordAdmissible(previous.snapshot.records[i], next.records[i])

\* Mutant of RecordsValid: spellings of one socket are not told apart.
RecordsValidBySpelling(s, o, next) ==
    \A i \in RecordIds(next) :
        LET r == next.records[i] IN
        /\ r.app \in Applications[o]
        /\ r.revision # 0
        /\ r.revision <= next.revision
        /\ \A j \in RecordIds(next) :
              next.records[j].endpoint = r.endpoint => j = i
        /\ ~ReservedByAnother(s, o, i, r.endpoint)

\* Every record of the snapshot is valid and holds its endpoint alone.
RecordsValid(s, o, next) ==
    \A i \in RecordIds(next) :
        LET r == next.records[i] IN
        /\ r.endpoint \in Canonical
        /\ r.app \in Applications[o]
        /\ r.revision # 0
        /\ r.revision <= next.revision
        /\ \A j \in RecordIds(next) :
              next.records[j].endpoint = r.endpoint => j = i
        /\ ~ReservedByAnother(s, o, i, r.endpoint)

\* Mutant of Accepted: what recovery installed is forgotten.
AcceptedForgetful(s, o, next) ==
    [generation |-> s.generation + 1,
     owners |-> [s.owners EXCEPT ![o] =
        [snapshot |-> next, stale |-> FALSE, frozen_by |-> None,
         credential_hash |-> None, recovery |-> None]]]

Accepted(s, o, next) ==
    LET previous == s.owners[o] IN
    [generation |-> s.generation + 1,
     owners |-> [s.owners EXCEPT ![o] =
        [snapshot |-> next,
         stale |-> FALSE,
         frozen_by |-> None,
         credential_hash |->
            IF previous = None THEN None ELSE previous.credential_hash,
         recovery |-> IF previous = None THEN None ELSE previous.recovery]]]

\* Mutant of CanAccept: the generation may overflow.
CanAcceptUnchecked(s, o, next) ==
    /\ next.incarnation # 0
    /\ next.revision # 0
    /\ Cardinality(RecordIds(next)) <= RecordLimit
    /\ s.owners[o] # None => Continues(s.owners[o], next)
    /\ RecordsValid(s, o, next)
    /\ ReservedSize(Accepted(s, o, next)) <= ViewLimit

CanAccept(s, o, next) ==
    /\ next.incarnation # 0
    /\ next.revision # 0
    /\ Cardinality(RecordIds(next)) <= RecordLimit
    /\ s.owners[o] # None => Continues(s.owners[o], next)
    /\ RecordsValid(s, o, next)
    /\ s.generation < MaxU64
    /\ ReservedSize(Accepted(s, o, next)) <= ViewLimit

(***************************************************************************)
(* What the publish handler of main.rs adds to accept.                     *)
(***************************************************************************)

\* The hash a publisher of o has to present: the one recovery installed, or
\* the one of the configuration file.
Credential(s, o) ==
    IF s.owners[o] # None /\ s.owners[o].credential_hash # None
    THEN s.owners[o].credential_hash
    ELSE InitialCredential[o]

\* An owner the node does not know starts with its first incarnation.
CanCommit(s, o, next) ==
    /\ s.owners[o] = None => next.incarnation = 1
    /\ CanAccept(s, o, next)

(***************************************************************************)
(* State::freeze and State::recover: the administrative fence.             *)
(***************************************************************************)
RecoveredBy(owner, op) ==
    owner.recovery # None /\ owner.recovery.operation = op

\* The operation has already frozen or recovered the owner: nothing to do.
FreezeIsRepeat(owner, op) == RecoveredBy(owner, op) \/ owner.frozen_by = op

CanFreeze(s, o, op) ==
    /\ s.owners[o] # None
    /\ \/ FreezeIsRepeat(s.owners[o], op)
       \/ s.owners[o].frozen_by = None /\ s.generation < MaxU64

Frozen(s, o, op) ==
    IF FreezeIsRepeat(s.owners[o], op)
    THEN s
    ELSE [generation |-> s.generation + 1,
          owners |-> [s.owners EXCEPT ![o] =
            [@ EXCEPT !.frozen_by = op, !.stale = TRUE]]]

Digest(op, next, hash) == <<op, next, hash>>

\* `base' of recover: the owner moved to the new incarnation, fence lifted.
Rebased(s, o, incarnation) ==
    [generation |-> s.generation,
     owners |-> [s.owners EXCEPT ![o] =
        [@ EXCEPT !.snapshot.incarnation = incarnation, !.frozen_by = None]]]

CanRecover(s, o, op, next, hash) ==
    LET previous == s.owners[o] IN
    /\ previous # None
    /\ IF RecoveredBy(previous, op)
       THEN previous.recovery.digest = Digest(op, next, hash)
       ELSE /\ previous.frozen_by = op
            /\ next.incarnation > previous.snapshot.incarnation
            /\ CanAccept(Rebased(s, o, next.incarnation), o, next)

Recovered(s, o, op, next, hash) ==
    IF RecoveredBy(s.owners[o], op)
    THEN s
    ELSE LET accepted == Accepted(Rebased(s, o, next.incarnation), o, next) IN
         [generation |-> accepted.generation,
          owners |-> [accepted.owners EXCEPT ![o] =
            [@ EXCEPT !.stale = TRUE,
                      !.credential_hash = hash,
                      !.recovery = [operation |-> op,
                                    digest |-> Digest(op, next, hash)]]]]

(***************************************************************************)
(* Restart: storage::load, after_restart, validate_metadata and the        *)
(* rebuild of main, which accepts every owner's snapshot from the empty    *)
(* state and refuses to start when one is rejected.  The rebuild's partial *)
(* states differ from the loaded one only in the owners not yet added, so  *)
(* accepting owner o from the state without o is the strongest of them.    *)
(***************************************************************************)
\* Mutant of AfterRestart: the flags stay as they were saved.
AsSaved(s) == s

AfterRestart(s) ==
    [generation |-> s.generation,
     owners |-> [o \in Owners |->
        IF s.owners[o] = None
        THEN None
        ELSE [s.owners[o] EXCEPT !.stale = TRUE]]]

ValidateMetadata(s) ==
    \A o \in Known(s) :
        s.owners[o].snapshot.incarnation > 1 =>
            /\ s.owners[o].credential_hash # None
            /\ s.owners[o].recovery # None

Without(s, o) == [generation |-> 0, owners |-> [s.owners EXCEPT ![o] = None]]

Loads(s) ==
    /\ Size(s) <= ViewLimit
    /\ ValidateMetadata(s)
    /\ \A o \in Known(s) : CanAccept(Without(s, o), o, s.owners[o].snapshot)

(***************************************************************************)
(* What the state means to its readers.                                    *)
(***************************************************************************)

\* t keeps everything s says: no owner, record or tombstone of s is gone,
\* no instance has moved to another endpoint or application.
RecordExtends(old, new) ==
    /\ new # None
    /\ new.app = old.app
    /\ new.endpoint = old.endpoint
    /\ new.revision >= old.revision
    /\ old.deleted => new.deleted

OwnerExtends(old, new) ==
    /\ new # None
    /\ new.snapshot.incarnation >= old.snapshot.incarnation
    /\ new.snapshot.revision >= old.snapshot.revision
    /\ \A i \in Ids : old.snapshot.records[i] # None =>
          RecordExtends(old.snapshot.records[i], new.snapshot.records[i])

Extends(s, t) ==
    \A o \in Owners : s.owners[o] # None => OwnerExtends(s.owners[o], t.owners[o])

\* No socket was ever given to two instances, of one owner or of two.
Exclusive(s) ==
    \A o, p \in Owners, i, j \in Ids :
        /\ RecordOf(s, o, i) # None
        /\ RecordOf(s, p, j) # None
        /\ Socket[RecordOf(s, o, i).endpoint] = Socket[RecordOf(s, p, j).endpoint]
        => o = p /\ i = j

\* Endpoints are canonical and no two records of the state share one.
Valid(s) ==
    \A o, p \in Owners, i, j \in Ids :
        RecordOf(s, o, i) # None =>
            /\ RecordOf(s, o, i).endpoint \in Canonical
            /\ RecordOf(s, p, j) # None
               /\ RecordOf(s, o, i).endpoint = RecordOf(s, p, j).endpoint
               => o = p /\ i = j
=============================================================================
