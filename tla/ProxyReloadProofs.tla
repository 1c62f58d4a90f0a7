------------------------- MODULE ProxyReloadProofs --------------------------
(***************************************************************************)
(* Proofs for every set of applications, ports and configurations: which   *)
(* Admission objects live through a reload, what becomes of their permits  *)
(* and of the accept tasks, and which backends a connection reaches, for   *)
(* every list of targets and all that the network may answer.              *)
(***************************************************************************)
EXTENDS ProxyReload, SumProofs

(***************************************************************************)
(* The inductive invariant.                                                *)
(***************************************************************************)

\* The active view or a session refers to the object.
Held(a, k) == view.admission[a] = k \/ sessions[a][k] > 0

Preparing == validation # None /\ validation.candidate # None

CountersKnown ==
    /\ free \in [Apps -> [Objects -> Nat]]
    /\ sessions \in [Apps -> [Objects -> Nat]]
    /\ hangup => generation < MaxReloads

\* A view has an object for each application that it serves.
ViewsComplete ==
    /\ \A a \in Served(view.ports) : view.admission[a] # None
    /\ Preparing =>
          \A a \in Served(validation.candidate.ports) :
              validation.candidate.admission[a] # None

\* An application has one living object at most, the one that the weak
\* references of the loop name, and those that a finished validation will put
\* in their place.
ReferencesKnown ==
    /\ \A a \in Apps, k \in Objects : Held(a, k) => admissions[a] = k
    /\ validation # None =>
          /\ validation.step = "ready" <=> validation.candidate # None
          /\ validation.candidate = None => validation.admissions = admissions
          /\ validation.step = "read" => validation.config \in Configs \cup {Invalid}
    /\ Preparing =>
          \A a \in Apps, k \in Objects :
              Alive(a, k) => validation.admissions[a] = k

ReloadInv ==
    /\ ReloadTypeOK
    /\ CountersKnown
    /\ ViewsComplete
    /\ ReferencesKnown
    /\ OneAcceptPerPort
    /\ PermitsReturn

-----------------------------------------------------------------------------
(***************************************************************************)
(* Sums of counters.                                                       *)
(***************************************************************************)

LEMMA SumIsNat ==
  ASSUME NEW count \in [Apps -> [Objects -> Nat]]
  PROVE  /\ \A a \in Apps : SumFunction(count[a]) \in Nat
         /\ Total(count) \in Nat
<1>1. ASSUME NEW a \in Apps
      PROVE  SumFunction(count[a]) \in Nat
  <2>1. DOMAIN count[a] = Objects /\ \A k \in Objects : count[a][k] \in Nat
    OBVIOUS
  <2>2. QED
    BY <2>1, SumNat, ObjectsAssumption DEF SumFunction
<1> DEFINE sums == [a \in Apps |-> SumFunction(count[a])]
<1>2. DOMAIN sums = Apps /\ \A a \in Apps : sums[a] \in Nat
  BY <1>1
<1>3. Total(count) = SumFunctionOnSet(sums, Apps)
  BY <1>2 DEF Total, SumFunction
<1> HIDE DEF sums
<1>4. QED
  BY <1>1, <1>2, <1>3, SumNat, ObjectsAssumption

\* Changing one counter changes the total by as much.
LEMMA TotalChange ==
  ASSUME NEW count \in [Apps -> [Objects -> Nat]],
         NEW a \in Apps, NEW k \in Objects, NEW n \in Nat
  PROVE  Total([count EXCEPT ![a][k] = n]) = Total(count) - count[a][k] + n
<1> DEFINE new == [count EXCEPT ![a][k] = n]
           sums == [b \in Apps |-> SumFunction(count[b])]
           newSums == [b \in Apps |-> SumFunction(new[b])]
<1>1. /\ new \in [Apps -> [Objects -> Nat]]
      /\ new[a][k] = n
      /\ \A j \in Objects \ {k} : count[a][j] = new[a][j]
      /\ \A b \in Apps \ {a} : new[b] = count[b]
  OBVIOUS
<1> HIDE DEF new
<1>2. /\ \A b \in Apps : sums[b] \in Nat /\ newSums[b] \in Nat
      /\ \A b \in Apps \ {a} : sums[b] = newSums[b]
  BY <1>1, SumIsNat
<1>3. newSums[a] = sums[a] - count[a][k] + n
  <2>1. /\ DOMAIN count[a] = Objects /\ DOMAIN new[a] = Objects
        /\ \A j \in Objects : count[a][j] \in Nat /\ new[a][j] \in Nat
    BY <1>1
  <2>2. SumFunctionOnSet(new[a], Objects) =
          SumFunctionOnSet(count[a], Objects) - count[a][k] + new[a][k]
    BY <1>1, <2>1, SumChange, ObjectsAssumption
  <2>3. QED
    BY <1>1, <2>1, <2>2 DEF SumFunction
<1>4. /\ Total(count) = SumFunctionOnSet(sums, Apps)
      /\ Total(new) = SumFunctionOnSet(newSums, Apps)
  BY DEF Total, SumFunction
<1> HIDE DEF sums, newSums
<1>5. SumFunctionOnSet(newSums, Apps) =
        SumFunctionOnSet(sums, Apps) - sums[a] + newSums[a]
  BY <1>2, SumChange, ObjectsAssumption
<1>6. Total(new) = Total(count) - count[a][k] + n
  <2>1. Total(count) \in Nat /\ count[a][k] \in Nat
    BY SumIsNat
  <2>2. sums[a] \in Nat
    BY <1>2
  <2>3. QED
    BY <1>3, <1>4, <1>5, <2>1, <2>2
<1>7. QED
  BY <1>6 DEF new

\* A sum of zeros.
LEMMA SumOfZeros ==
  ASSUME NEW S, IsFiniteSet(S), NEW f, \A x \in S : f[x] = 0
  PROVE  SumFunctionOnSet(f, S) = 0
<1>1. SumFunctionOnSet([x \in S |-> 0], S) = Cardinality(S) * 0
  BY SumConstant
<1>2. Cardinality(S) \in Nat
  BY FS_CardinalityType
<1>3. SumFunctionOnSet(f, S) = SumFunctionOnSet([x \in S |-> 0], S)
  BY SumSame
<1>4. QED
  BY <1>1, <1>2, <1>3

LEMMA TotalOfNone == Total([a \in Apps |-> [k \in Objects |-> 0]]) = 0
<1> DEFINE zeros == [k \in Objects |-> 0]
<1>1. SumFunction(zeros) = 0
  BY SumOfZeros, ObjectsAssumption DEF SumFunction
<1>2. Total([a \in Apps |-> zeros]) = SumFunctionOnSet([a \in Apps |-> 0], Apps)
  BY <1>1 DEF Total, SumFunction
<1>3. QED
  BY <1>2, SumOfZeros, ObjectsAssumption
-----------------------------------------------------------------------------
(***************************************************************************)
(* Living objects.                                                         *)
(***************************************************************************)

\* What the entries of the state are.
LEMMA ReloadEntries ==
  ASSUME ReloadInv
  PROVE  /\ validation # None => validation \in Validation
         /\ Preparing => validation.candidate \in View
         /\ \A a \in Apps, k \in Objects :
               /\ free[a][k] \in Nat /\ free[a][k] <= Limit[a]
               /\ sessions[a][k] \in Nat
               /\ k # None
         /\ \A a \in Apps : Limit[a] \in Nat
<1>1. validation # None => validation \in Validation
  BY DEF ReloadInv, ReloadTypeOK
<1>2. Preparing => validation.candidate \in View
  BY <1>1 DEF Preparing, Validation
<1>3. ASSUME NEW a \in Apps
      PROVE  Limit[a] \in Nat /\ free[a] \in [Objects -> 0 .. Limit[a]]
             /\ sessions[a] \in [Objects -> Nat]
  BY ReloadAssumption DEF ReloadInv, ReloadTypeOK
<1>4. QED
  BY <1>1, <1>2, <1>3, ReloadAssumption

\* An object is alive if it is held, or is in the view that is prepared.
LEMMA AliveIsHeld ==
  \A a, k : Alive(a, k) <=>
    Held(a, k) \/ (Preparing /\ validation.candidate.admission[a] = k)
  BY DEF Alive, Held, Preparing

\* So as long as none is prepared, the loop knows the objects that live.
LEMMA AliveIsKnown ==
  ASSUME ReloadInv, NEW a \in Apps, NEW k \in Objects, Alive(a, k)
  PROVE  /\ validation # None => validation.admissions[a] = k
         /\ ~Preparing => admissions[a] = k
<1>1. CASE Preparing
  BY <1>1 DEF ReloadInv, ReferencesKnown, Preparing
<1>2. CASE ~Preparing
  <2>1. Held(a, k)
    BY <1>2, AliveIsHeld
  <2>2. admissions[a] = k
    BY <2>1 DEF ReloadInv, ReferencesKnown
  <2>3. validation # None => validation.candidate = None
    BY <1>2 DEF Preparing
  <2>4. validation # None => validation.admissions = admissions
    BY <2>3 DEF ReloadInv, ReferencesKnown
  <2>5. QED
    BY <1>2, <2>2, <2>4
<1>3. QED
  BY <1>1, <1>2

\* Only the object that the weak reference names can have sessions, so that
\* the sessions of the application are the ones it has.
LEMMA LimitsInv == ReloadInv => LimitsHold
<1> SUFFICES ASSUME ReloadInv
             PROVE  LimitsHold
  OBVIOUS
<1>1. sessions \in [Apps -> [Objects -> Nat]]
  BY DEF ReloadInv, CountersKnown
<1>2. ASSUME NEW a \in Apps
      PROVE  SumFunction(sessions[a]) <= Limit[a]
  <2> DEFINE f == sessions[a]
  <2>1. DOMAIN f = Objects /\ \A k \in Objects : f[k] \in Nat
    BY <1>1
  <2>2. SumFunction(f) = SumFunctionOnSet(f, Objects)
    BY <2>1 DEF SumFunction
  <2>3. \A k \in Objects : f[k] # 0 => admissions[a] = k
    <3> SUFFICES ASSUME NEW k \in Objects, f[k] # 0
                 PROVE  admissions[a] = k
      OBVIOUS
    <3>1. Held(a, k)
      BY <2>1 DEF Held
    <3>2. QED
      BY <3>1 DEF ReloadInv, ReferencesKnown
  <2>4. Limit[a] \in Nat
    BY ReloadEntries
  <2>5. CASE admissions[a] \notin Objects
    <3>1. \A k \in Objects : f[k] = 0
      BY <2>3, <2>5
    <3> HIDE DEF f
    <3>2. SumFunctionOnSet(f, Objects) = 0
      BY <3>1, SumOfZeros, ObjectsAssumption
    <3>3. QED
      BY <2>2, <2>4, <3>2 DEF f
  <2>6. CASE admissions[a] \in Objects
    <3> DEFINE k == admissions[a]
    <3>1. \A j \in Objects \ {k} : f[j] = 0
      BY <2>3
    <3>2. f[k] <= Limit[a]
      <4>1. f[k] \in Nat
        BY <2>1, <2>6
      <4>2. CASE f[k] = 0
        BY <2>4, <4>2
      <4>3. CASE f[k] # 0
        <5>1. Alive(a, k)
          BY <4>1, <4>3 DEF Alive
        <5>2. free[a][k] + f[k] = Limit[a]
          BY <2>6, <5>1 DEF ReloadInv, PermitsReturn
        <5>3. free[a][k] \in Nat
          BY <2>6, ReloadEntries
        <5>4. QED
          BY <2>4, <4>1, <5>2, <5>3
      <4>4. QED
        BY <4>2, <4>3
    <3> HIDE DEF f, k
    <3>3. k \in Objects
      BY <2>6 DEF k
    <3>4. SumFunctionOnSet(f, Objects) = f[k] + SumFunctionOnSet(f, Objects \ {k})
      BY <2>1, <3>3, SumRemove, ObjectsAssumption
    <3>5. SumFunctionOnSet(f, Objects \ {k}) = 0
      BY <3>1, SumOfZeros, ObjectsAssumption, FS_RemoveElement
    <3>6. f[k] \in Nat
      BY <2>1, <3>3
    <3>7. QED
      BY <2>2, <3>2, <3>4, <3>5, <3>6 DEF f
  <2>7. QED
    BY <2>5, <2>6
<1>3. Total(sessions) <= GlobalLimit
  <2>1. Total(sessions) \in Nat
    BY <1>1, SumIsNat
  <2>2. globalFree + Total(sessions) = GlobalLimit /\ globalFree \in 0 .. GlobalLimit
    BY DEF ReloadInv, PermitsReturn, ReloadTypeOK
  <2>3. QED
    BY <2>1, <2>2, ReloadAssumption
<1>4. QED
  BY <1>2, <1>3 DEF LimitsHold

-----------------------------------------------------------------------------
(***************************************************************************)
(* The first view.                                                         *)
(***************************************************************************)

LEMMA ReloadInitInv == ReloadInit => ReloadInv
<1> SUFFICES ASSUME ReloadInit
             PROVE  ReloadInv
  OBVIOUS
<1> DEFINE object == CHOOSE k \in Objects : TRUE
<1>1. object \in Objects
  BY ObjectsAssumption
<1> HIDE DEF object
<1>2. /\ file \in Configs /\ file \in [Ports -> Apps \cup {None}]
      /\ phase = "running" /\ hangup = FALSE /\ generation = 0 /\ pending = None
      /\ validation = None
      /\ listeners = Bound(file) /\ accepts = AcceptOn(listeners)
      /\ globalFree = GlobalLimit
      /\ view = [ports |-> file, admission |-> admissions]
  BY ReloadAssumption DEF ReloadInit
<1>3. admissions = [a \in Apps |-> IF a \in Served(file) THEN object ELSE None]
  BY DEF object, ReloadInit
<1>4. /\ \A a \in Apps, k \in Objects : free[a][k] = Limit[a] /\ sessions[a][k] = 0
      /\ \A a \in Apps : Limit[a] \in Nat
      /\ free = [a \in Apps |-> [k \in Objects |-> Limit[a]]]
      /\ sessions = [a \in Apps |-> [k \in Objects |-> 0]]
  BY ReloadAssumption DEF ReloadInit
<1>5. ReloadTypeOK
  <2>1. admissions \in Reference /\ view \in View
    BY <1>1, <1>2, <1>3 DEF Reference, View
  <2>2. listeners \subseteq Ports /\ accepts \in [Ports -> {"waiting", "accepted", "failed", None}]
    BY <1>2 DEF Bound, AcceptOn
  <2>3. /\ \A a \in Apps : free[a] \in [Objects -> 0 .. Limit[a]]
        /\ \A a \in Apps : sessions[a] \in [Objects -> Nat]
    BY <1>4
  <2>4. generation \in 0 .. MaxReloads /\ globalFree \in 0 .. GlobalLimit
    BY <1>2, ReloadAssumption
  <2>5. QED
    BY <1>2, <2>1, <2>2, <2>3, <2>4 DEF ReloadTypeOK
<1>6. CountersKnown
  BY <1>2, <1>4 DEF CountersKnown
<1>7. ViewsComplete
  <2>1. \A a \in Served(file) : a \in Apps \/ a = None
    BY <1>2 DEF Served, Bound
  <2>2. \A a \in Served(file) : a # None
    BY <1>2 DEF Served, Bound
  <2>3. \A a \in Served(file) : view.admission[a] = object
    BY <1>2, <1>3, <2>1, <2>2
  <2>4. QED
    BY <1>1, <1>2, <2>3, ReloadAssumption DEF ViewsComplete, Preparing
<1>8. ReferencesKnown
  <2>1. \A a \in Apps, k \in Objects : Held(a, k) => admissions[a] = k
    BY <1>2, <1>4 DEF Held
  <2>2. QED
    BY <1>2, <2>1 DEF ReferencesKnown, Preparing
<1>9. OneAcceptPerPort
  BY <1>2, ReloadAssumption DEF OneAcceptPerPort, Bound, AcceptOn
<1>10. PermitsReturn
  <2>1. \A a \in Apps, k \in Objects : free[a][k] + sessions[a][k] = Limit[a]
    BY <1>4
  <2>2. Total(sessions) = 0
    BY <1>4, TotalOfNone
  <2>3. QED
    BY <1>2, <2>1, <2>2, ReloadAssumption DEF PermitsReturn
<1>11. QED
  BY <1>5, <1>6, <1>7, <1>8, <1>9, <1>10 DEF ReloadInv
-----------------------------------------------------------------------------
(***************************************************************************)
(* Reloads.                                                                *)
(***************************************************************************)

\* Steps that leave the objects alone change nothing that is said of them.
LEMMA PermitsSame ==
  ASSUME ReloadInv, UNCHANGED <<free, globalFree, sessions>>,
         \A a \in Apps, k \in Objects : Alive(a, k)' => Alive(a, k)
  PROVE  PermitsReturn'
  BY DEF ReloadInv, PermitsReturn

LEMMA RequestInv ==
  ASSUME ReloadInv, NEW contents \in Configs \cup {Invalid}, RequestReload(contents)
  PROVE  ReloadInv'
<1> USE DEF ReloadInv, RequestReload
<1>1. ReloadTypeOK'
  BY DEF ReloadTypeOK
<1>2. CountersKnown'
  BY DEF CountersKnown
<1>3. ViewsComplete'
  BY DEF ViewsComplete, Preparing
<1>4. ReferencesKnown'
  BY DEF ReferencesKnown, Preparing, Held, Alive
<1>5. OneAcceptPerPort'
  BY DEF OneAcceptPerPort
<1>6. PermitsReturn'
  BY PermitsSame DEF Alive
<1>7. QED
  BY <1>1, <1>2, <1>3, <1>4, <1>5, <1>6

\* A validation that begins has no view yet.
LEMMA ValidationBegun ==
  ASSUME NEW number \in 1 .. MaxReloads, NEW references \in Reference
  PROVE  /\ ValidateReload(number, references) \in Validation
         /\ ValidateReload(number, references).step = "open"
         /\ ValidateReload(number, references).candidate = None
         /\ ValidateReload(number, references).admissions = references
  BY DEF ValidateReload, Validation

LEMMA ReceiveInv ==
  ASSUME ReloadInv, ReceiveReload
  PROVE  ReloadInv'
<1>1. /\ generation + 1 \in 1 .. MaxReloads
      /\ generation' = generation + 1 /\ generation' \in 0 .. MaxReloads
  BY ReloadAssumption
  DEF ReloadInv, ReloadTypeOK, CountersKnown, ReceiveReload
<1>2. /\ hangup' = FALSE
      /\ UNCHANGED <<phase, file, view, listeners, admissions, accepts, free,
                     globalFree, sessions>>
  BY DEF ReceiveReload
<1>3. /\ pending' \in 1 .. MaxReloads \cup {None}
      /\ \/ UNCHANGED validation
         \/ validation = None /\ validation' = ValidateReload(generation + 1, admissions)
  BY <1>1 DEF ReceiveReload, ReloadInv, ReloadTypeOK
<1>4. admissions \in Reference
  BY DEF ReloadInv, ReloadTypeOK
<1>5. \/ UNCHANGED validation
      \/ /\ validation' \in Validation /\ validation'.step = "open"
         /\ validation'.candidate = None /\ validation'.admissions = admissions
  BY <1>1, <1>3, <1>4, ValidationBegun
<1>6. \A a \in Apps, k \in Objects :
        (Held(a, k)' <=> Held(a, k)) /\ (Alive(a, k)' => Alive(a, k))
  BY <1>2, <1>5 DEF Held, Alive
<1>7. ReloadTypeOK'
  BY <1>1, <1>2, <1>3, <1>5 DEF ReloadInv, ReloadTypeOK
<1>8. CountersKnown'
  BY <1>2 DEF ReloadInv, CountersKnown
<1>9. ViewsComplete'
  <2>1. CASE UNCHANGED validation
    BY <1>2, <2>1 DEF ReloadInv, ViewsComplete, Preparing
  <2>2. CASE validation'.candidate = None
    BY <1>2, <2>2 DEF ReloadInv, ViewsComplete, Preparing
  <2>3. QED
    BY <1>5, <2>1, <2>2
<1>10. ReferencesKnown'
  <2>1. CASE UNCHANGED validation
    BY <1>2, <1>6, <2>1 DEF ReloadInv, ReferencesKnown, Preparing
  <2>2. CASE /\ validation'.step = "open"
             /\ validation'.candidate = None /\ validation'.admissions = admissions
    BY <1>2, <1>6, <2>2 DEF ReloadInv, ReferencesKnown, Preparing
  <2>3. QED
    BY <1>5, <2>1, <2>2
<1>11. OneAcceptPerPort'
  BY <1>2 DEF ReloadInv, OneAcceptPerPort
<1>12. PermitsReturn'
  BY <1>2, <1>6, PermitsSame
<1>13. QED
  BY <1>7, <1>8, <1>9, <1>10, <1>11, <1>12 DEF ReloadInv

LEMMA ReadInv ==
  ASSUME ReloadInv, ReadConfig
  PROVE  ReloadInv'
<1>1. /\ validation \in Validation /\ validation # None /\ validation.step = "open"
      /\ validation.candidate = None /\ file \in Configs \cup {Invalid}
  <2>1. validation # None /\ validation.step = "open"
    BY DEF ReadConfig, ValidationAt
  <2>2. validation.candidate = None
    BY <2>1 DEF ReloadInv, ReferencesKnown
  <2>3. QED
    BY <2>1, <2>2, ReloadEntries DEF ReloadInv, ReloadTypeOK
<1>2. /\ validation' = [validation EXCEPT !.step = "read", !.config = file]
      /\ UNCHANGED <<phase, file, hangup, generation, pending, view, listeners,
                     admissions, accepts, free, globalFree, sessions>>
  BY DEF ReadConfig
<1>3. /\ validation' \in Validation /\ validation'.step = "read"
      /\ validation'.candidate = None /\ validation'.config = file
      /\ validation'.admissions = validation.admissions
  BY <1>1, <1>2 DEF Validation
<1>4. \A a \in Apps, k \in Objects :
        (Held(a, k)' <=> Held(a, k)) /\ (Alive(a, k)' => Alive(a, k))
  BY <1>2, <1>3 DEF Held, Alive
<1>5. ReloadTypeOK'
  BY <1>2, <1>3 DEF ReloadInv, ReloadTypeOK
<1>6. CountersKnown'
  BY <1>2 DEF ReloadInv, CountersKnown
<1>7. ViewsComplete'
  BY <1>2, <1>3 DEF ReloadInv, ViewsComplete, Preparing
<1>8. ReferencesKnown'
  <2>1. validation.admissions = admissions
    BY <1>1 DEF ReloadInv, ReferencesKnown
  <2>2. QED
    BY <1>1, <1>2, <1>3, <1>4, <2>1 DEF ReloadInv, ReferencesKnown, Preparing
<1>9. OneAcceptPerPort'
  BY <1>2 DEF ReloadInv, OneAcceptPerPort
<1>10. PermitsReturn'
  BY <1>2, <1>4, PermitsSame
<1>11. QED
  BY <1>5, <1>6, <1>7, <1>8, <1>9, <1>10 DEF ReloadInv

LEMMA FailsInv ==
  ASSUME ReloadInv, ValidationFails
  PROVE  ReloadInv'
<1>1. /\ validation \in Validation /\ validation # None
      /\ validation.candidate = None /\ validation.admissions = admissions
  <2>1. validation # None /\ validation.step # "ready"
    BY DEF ValidationFails, ValidationAt
  <2>2. validation.candidate = None
    BY <2>1 DEF ReloadInv, ReferencesKnown
  <2>3. validation.admissions = admissions
    BY <2>1, <2>2 DEF ReloadInv, ReferencesKnown
  <2>4. QED
    BY <2>1, <2>2, <2>3, ReloadEntries
<1>2. /\ validation' = [validation EXCEPT !.step = "failed"]
      /\ UNCHANGED <<phase, file, hangup, generation, pending, view, listeners,
                     admissions, accepts, free, globalFree, sessions>>
  BY DEF ValidationFails
<1>3. /\ validation' \in Validation /\ validation'.step = "failed"
      /\ validation'.candidate = None
      /\ validation'.admissions = validation.admissions
  BY <1>1, <1>2 DEF Validation
<1>4. \A a \in Apps, k \in Objects :
        (Held(a, k)' <=> Held(a, k)) /\ (Alive(a, k)' => Alive(a, k))
  BY <1>2, <1>3 DEF Held, Alive
<1>5. ReloadTypeOK'
  BY <1>2, <1>3 DEF ReloadInv, ReloadTypeOK
<1>6. CountersKnown'
  BY <1>2 DEF ReloadInv, CountersKnown
<1>7. ViewsComplete'
  BY <1>2, <1>3 DEF ReloadInv, ViewsComplete, Preparing
<1>8. ReferencesKnown'
  BY <1>1, <1>2, <1>3, <1>4 DEF ReloadInv, ReferencesKnown, Preparing
<1>9. OneAcceptPerPort'
  BY <1>2 DEF ReloadInv, OneAcceptPerPort
<1>10. PermitsReturn'
  BY <1>2, <1>4, PermitsSame
<1>11. QED
  BY <1>5, <1>6, <1>7, <1>8, <1>9, <1>10 DEF ReloadInv
-----------------------------------------------------------------------------
(***************************************************************************)
(* prepare and activate_view.                                              *)
(***************************************************************************)

\* If no object of the application lives there is a number for a new one, and
\* it has no sessions.
LEMMA FreshIsNew ==
  ASSUME ReloadInv, ~Preparing, NEW a \in Apps
  PROVE  Fresh(a) \in Objects /\ ~Alive(a, Fresh(a)) /\ admissions[a] # Fresh(a)
<1>1. PICK k \in Objects : k # admissions[a]
  BY ObjectsAssumption
<1>2. ~Alive(a, k)
  BY <1>1, AliveIsKnown
<1>3. \E j \in Objects : ~Alive(a, j) /\ admissions[a] # j
  BY <1>1, <1>2
<1>4. QED
  BY <1>3 DEF Fresh

LEMMA PrepareInv ==
  ASSUME ReloadInv, Prepare
  PROVE  ReloadInv'
<1> DEFINE config == validation.config
           references == Retained(validation.admissions)
           made == {a \in Served(config) : references[a] = None}
           candidate == MakeView(config, references)
           known == References(config, references)
<1>1. /\ validation # None /\ validation.step = "read" /\ config # Invalid
      /\ validation' = [validation EXCEPT !.step = "ready", !.candidate = candidate,
                                          !.admissions = known]
      /\ free' = [a \in Apps |->
                    IF a \in made THEN [free[a] EXCEPT ![Fresh(a)] = Limit[a]]
                    ELSE free[a]]
      /\ UNCHANGED <<phase, file, hangup, generation, pending, view, listeners,
                     admissions, accepts, globalFree, sessions>>
  BY DEF Prepare, ValidationAt
<1>2. /\ validation \in Validation /\ validation.candidate = None
      /\ validation.admissions = admissions
      /\ config \in Configs
  <2>1. validation.candidate = None
    BY <1>1 DEF ReloadInv, ReferencesKnown
  <2>2. validation.admissions = admissions
    BY <1>1, <2>1 DEF ReloadInv, ReferencesKnown
  <2>3. config \in Configs
    BY <1>1 DEF ReloadInv, ReferencesKnown
  <2>4. QED
    BY <1>1, <2>1, <2>2, <2>3, ReloadEntries
<1>3. ~Preparing
  BY <1>2 DEF Preparing
<1>4. \A a \in Apps :
        references[a] = IF admissions[a] # None /\ Held(a, admissions[a])
                        THEN admissions[a] ELSE None
  BY <1>2, <1>3, AliveIsHeld DEF Retained
<1>5. ASSUME NEW a \in Apps, NEW k \in Objects, Held(a, k)
      PROVE  references[a] = k
  <2>1. admissions[a] = k
    BY <1>5 DEF ReloadInv, ReferencesKnown
  <2>2. k # None
    BY ReloadEntries
  <2>3. QED
    BY <1>4, <1>5, <2>1, <2>2
<1>6. \A a \in Apps : Fresh(a) \in Objects /\ ~Held(a, Fresh(a)) /\ Fresh(a) # None
  BY <1>3, FreshIsNew, AliveIsHeld, ReloadEntries
<1>7. references \in Reference
  <2>1. admissions \in Reference
    BY DEF ReloadInv, ReloadTypeOK
  <2>2. references \in [Apps -> Objects \cup {None}]
    BY <1>2, <2>1 DEF Retained, Reference
  <2>3. QED
    BY <2>2 DEF Reference
<1>8. config \in [Ports -> Apps \cup {None}] /\ Served(config) \subseteq Apps
  <2>1. config \in [Ports -> Apps \cup {None}]
    BY <1>2, ReloadAssumption
  <2>2. QED
    BY <2>1 DEF Served, Bound
<1> HIDE DEF config, references
<1>9. \A a \in Apps :
        /\ candidate.admission[a] =
              IF a \notin Served(config) THEN None
              ELSE IF references[a] # None THEN references[a] ELSE Fresh(a)
        /\ known[a] = IF a \in Served(config) THEN candidate.admission[a]
                      ELSE references[a]
  BY DEF MakeView, Admitted, References
<1>10. /\ candidate \in View /\ candidate.ports = config
       /\ known \in Reference
  <2>1. candidate.admission \in [Apps -> Objects \cup {None}]
    <3>1. candidate.admission = Admitted(config, references)
      BY DEF MakeView
    <3>2. \A a \in Apps : Admitted(config, references)[a] \in Objects \cup {None}
      BY <1>6, <1>7, <1>9, <3>1 DEF Reference
    <3>3. Admitted(config, references) =
            [a \in Apps |-> Admitted(config, references)[a]]
      BY DEF Admitted
    <3>4. QED
      BY <3>1, <3>2, <3>3
  <2>2. known \in [Apps -> Objects \cup {None}]
    BY <1>7, <1>9, <2>1 DEF References, Reference, MakeView
  <2>3. QED
    BY <1>8, <2>1, <2>2 DEF MakeView, View, Reference
<1> HIDE DEF candidate, known
<1>11. candidate # None
  BY <1>10, NoneTaskAssumption
<1>12. /\ validation' \in Validation /\ validation' # None
       /\ validation'.step = "ready" /\ validation'.candidate = candidate
       /\ validation'.admissions = known
  <2>1. validation' \in Validation
    BY <1>1, <1>2, <1>10 DEF Validation
  <2>2. validation' # None
    BY <2>1, NoneTaskAssumption
  <2>3. QED
    BY <1>1, <1>2, <2>1, <2>2 DEF Validation
<1>13. \A a \in Apps, k \in Objects : Held(a, k)' <=> Held(a, k)
  BY <1>1 DEF Held
<1>14. \A a \in Apps, k \in Objects :
         Alive(a, k)' <=> Held(a, k) \/ candidate.admission[a] = k
  BY <1>1, <1>11, <1>12 DEF Alive, Held
\* What the prepared view has is what lived before, or is new.
<1>15. ASSUME NEW a \in Apps, NEW k \in Objects,
              candidate.admission[a] = k, ~Held(a, k)
       PROVE  a \in made /\ k = Fresh(a)
  <2>1. k # None
    BY ReloadEntries
  <2>2. a \in Served(config)
    BY <1>9, <1>15, <2>1
  <2>3. references[a] # None => Held(a, references[a])
    BY <1>4
  <2>4. references[a] = None
    BY <1>9, <1>15, <2>2, <2>3
  <2>5. QED
    BY <1>9, <1>15, <2>2, <2>4
<1>16. \A a \in Apps, k \in Objects : Held(a, k) => a \notin made
  BY <1>5, ReloadEntries
<1> HIDE DEF made
<1>17. ReloadTypeOK'
  <2>1. ASSUME NEW a \in Apps
        PROVE  free'[a] \in [Objects -> 0 .. Limit[a]]
    <3>1. free[a] \in [Objects -> 0 .. Limit[a]]
      BY DEF ReloadInv, ReloadTypeOK
    <3>2. Limit[a] \in 0 .. Limit[a]
      BY ReloadEntries
    <3>3. QED
      BY <1>1, <1>6, <3>1, <3>2
  <2>2. QED
    BY <1>1, <1>12, <2>1 DEF ReloadInv, ReloadTypeOK
<1>18. CountersKnown'
  <2>1. \A a \in Apps : free'[a] \in [Objects -> Nat]
    <3> SUFFICES ASSUME NEW a \in Apps
                 PROVE  free'[a] \in [Objects -> Nat]
      OBVIOUS
    <3>1. free[a] \in [Objects -> Nat]
      BY DEF ReloadInv, CountersKnown
    <3>2. Limit[a] \in Nat
      BY ReloadEntries
    <3>3. QED
      BY <1>1, <3>1, <3>2
  <2>2. free' = [a \in Apps |-> free'[a]]
    BY <1>1
  <2>3. free' \in [Apps -> [Objects -> Nat]]
    BY <2>1, <2>2
  <2>4. QED
    BY <1>1, <2>3 DEF ReloadInv, CountersKnown
<1>19. ViewsComplete'
  <2>1. \A a \in Served(view.ports)' : view.admission'[a] # None
    BY <1>1 DEF ReloadInv, ViewsComplete, Served, Bound
  <2>2. \A a \in Served(config) : candidate.admission[a] # None
    BY <1>6, <1>8, <1>9
  <2>3. \A a \in Served(validation'.candidate.ports) :
           validation'.candidate.admission[a] # None
    BY <1>10, <1>12, <2>2
  <2>4. QED
    BY <1>1, <2>3 DEF ReloadInv, ViewsComplete, Served, Bound
<1>20. ReferencesKnown'
  <2>1. ASSUME NEW a \in Apps, NEW k \in Objects, Alive(a, k)'
        PROVE  known[a] = k
    <3>1. k # None
      BY ReloadEntries
    <3>2. CASE Held(a, k)
      BY <1>5, <1>9, <3>1, <3>2
    <3>3. CASE candidate.admission[a] = k
      BY <1>9, <3>1, <3>3
    <3>4. QED
      BY <1>14, <2>1, <3>2, <3>3
  <2>2. \A a \in Apps, k \in Objects : Held(a, k)' => admissions'[a] = k
    BY <1>1, <1>13 DEF ReloadInv, ReferencesKnown
  <2>3. QED
    BY <1>11, <1>12, <2>1, <2>2 DEF ReferencesKnown, Preparing
<1>21. OneAcceptPerPort'
  BY <1>1 DEF ReloadInv, OneAcceptPerPort
<1>22. PermitsReturn'
  <2>1. ASSUME NEW a \in Apps, NEW k \in Objects, Alive(a, k)'
        PROVE  free'[a][k] + sessions'[a][k] = Limit[a]
    <3>1. CASE Held(a, k)
      <4>1. free'[a] = free[a]
        BY <1>1, <1>16, <3>1
      <4>2. Alive(a, k)
        BY <3>1, AliveIsHeld
      <4>3. QED
        BY <1>1, <4>1, <4>2 DEF ReloadInv, PermitsReturn
    <3>2. CASE ~Held(a, k)
      <4>1. a \in made /\ k = Fresh(a)
        BY <1>14, <1>15, <2>1, <3>2
      <4>2. free[a] \in [Objects -> Nat]
        BY DEF ReloadInv, CountersKnown
      <4>3. free'[a][k] = Limit[a]
        BY <1>1, <4>1, <4>2
      <4>4. sessions[a][k] = 0
        BY <3>2, ReloadEntries DEF Held
      <4>5. QED
        BY <1>1, <4>3, <4>4, ReloadEntries
    <3>3. QED
      BY <3>1, <3>2
  <2>2. QED
    BY <1>1, <2>1 DEF ReloadInv, PermitsReturn
<1>23. QED
  BY <1>17, <1>18, <1>19, <1>20, <1>21, <1>22 DEF ReloadInv

LEMMA FinishInv ==
  ASSUME ReloadInv, FinishValidation
  PROVE  ReloadInv'
<1>1. /\ validation \in Validation /\ validation # None
      /\ phase = "running"
      /\ pending' = None
      /\ validation' = IF pending = None THEN None
                       ELSE ValidateReload(pending, admissions')
      /\ UNCHANGED <<phase, file, hangup, generation, free, globalFree, sessions>>
  <2>1. validation # None
    BY DEF FinishValidation, ValidationAt
  <2>2. QED
    BY <2>1, ReloadEntries DEF FinishValidation, ValidationAt
\* A view that was complete, whose objects lived and are all known.
<1>2. /\ view' \in View /\ admissions' \in Reference
      /\ listeners' \subseteq Ports
      /\ accepts' \in [Ports -> {"waiting", "accepted", "failed", None}]
      /\ \A a \in Served(view'.ports) : view'.admission[a] # None
      /\ \A a \in Apps, k \in Objects : Held(a, k)' => Alive(a, k)
      /\ \A a \in Apps, k \in Objects : Held(a, k)' => admissions'[a] = k
      /\ \A p \in Ports :
            /\ accepts'[p] # None <=> p \in listeners'
            /\ p \in listeners' <=> view'.ports[p] # None
  <2>1. CASE UNCHANGED <<view, listeners, admissions, accepts>>
    <3>1. \A a \in Apps, k \in Objects : Held(a, k)' <=> Held(a, k)
      BY <1>1, <2>1 DEF Held
    <3>2. \A a \in Apps, k \in Objects : Held(a, k) => Alive(a, k)
      BY AliveIsHeld
    <3>3. \A a \in Apps, k \in Objects : Held(a, k) => admissions[a] = k
      BY DEF ReloadInv, ReferencesKnown
    <3>4. \A a \in Served(view.ports) : view.admission[a] # None
      BY DEF ReloadInv, ViewsComplete
    <3>5. \A p \in Ports :
            /\ accepts[p] # None <=> p \in listeners
            /\ p \in listeners <=> view.ports[p] # None
      BY <1>1 DEF ReloadInv, OneAcceptPerPort
    <3>6. /\ view \in View /\ admissions \in Reference /\ listeners \subseteq Ports
          /\ accepts \in [Ports -> {"waiting", "accepted", "failed", None}]
      BY DEF ReloadInv, ReloadTypeOK
    <3>7. QED
      BY <2>1, <3>1, <3>2, <3>3, <3>4, <3>5, <3>6
  <2>2. CASE validation.step = "ready" /\ ActivateView(validation.candidate)
    <3> DEFINE candidate == validation.candidate
    <3>1. Preparing
      BY <1>1, <2>2 DEF ReloadInv, ReferencesKnown, Preparing
    <3>2. /\ candidate \in View
          /\ candidate.ports \in [Ports -> Apps \cup {None}]
      BY <3>1, ReloadEntries DEF View
    <3>3. /\ view' = candidate
          /\ listeners' = Bound(candidate.ports)
          /\ admissions' = validation.admissions
          /\ accepts' = AcceptOn(Bound(candidate.ports))
      BY <2>2 DEF ActivateView
    <3>4. \A a \in Apps, k \in Objects : Held(a, k)' => Alive(a, k)
      BY <1>1, <3>1, <3>3 DEF Held, Alive, Preparing
    <3>5. \A a \in Apps, k \in Objects : Alive(a, k) => validation.admissions[a] = k
      BY <3>1 DEF ReloadInv, ReferencesKnown
    <3>6. \A a \in Served(candidate.ports) : candidate.admission[a] # None
      BY <3>1 DEF ReloadInv, ViewsComplete
    <3>7. validation.admissions \in Reference
      BY <1>1 DEF Validation
    <3> HIDE DEF candidate
    <3>8. /\ Bound(candidate.ports) \subseteq Ports
          /\ AcceptOn(Bound(candidate.ports)) \in
                [Ports -> {"waiting", "accepted", "failed", None}]
          /\ \A p \in Ports :
                /\ p \in Bound(candidate.ports) <=> candidate.ports[p] # None
                /\ AcceptOn(Bound(candidate.ports))[p] # None
                      <=> p \in Bound(candidate.ports)
      BY ReloadAssumption DEF Bound, AcceptOn
    <3>9. QED
      BY <3>2, <3>3, <3>4, <3>5, <3>6, <3>7, <3>8
  <2>3. QED
    BY <2>1, <2>2 DEF FinishValidation
<1>3. \/ validation' = None
      \/ /\ validation' \in Validation /\ validation'.step = "open"
         /\ validation'.candidate = None /\ validation'.admissions = admissions'
  <2>1. pending # None => pending \in 1 .. MaxReloads
    BY DEF ReloadInv, ReloadTypeOK
  <2>2. QED
    BY <1>1, <1>2, <2>1, ValidationBegun
<1>4. ~Preparing'
  BY <1>3 DEF Preparing
<1>5. \A a \in Apps, k \in Objects : Alive(a, k)' => Alive(a, k)
  <2>1. \A a \in Apps, k \in Objects : Alive(a, k)' => Held(a, k)'
    BY <1>4 DEF Alive, Held, Preparing
  <2>2. QED
    BY <1>2, <2>1
<1>6. ReloadTypeOK'
  BY <1>1, <1>2, <1>3 DEF ReloadInv, ReloadTypeOK
<1>7. CountersKnown'
  BY <1>1 DEF ReloadInv, CountersKnown
<1>8. ViewsComplete'
  <2>1. \A a \in Served(view.ports)' : (view.admission[a])' # None
    BY <1>2 DEF Served, Bound
  <2>2. QED
    BY <1>4, <2>1 DEF ViewsComplete
<1>9. ReferencesKnown'
  BY <1>2, <1>3, <1>4 DEF ReferencesKnown, Preparing
<1>10. OneAcceptPerPort'
  BY <1>2 DEF OneAcceptPerPort
<1>11. PermitsReturn'
  BY <1>1, <1>5, PermitsSame
<1>12. QED
  BY <1>6, <1>7, <1>8, <1>9, <1>10, <1>11 DEF ReloadInv
-----------------------------------------------------------------------------
(***************************************************************************)
(* Connections and sessions.                                               *)
(***************************************************************************)

\* An accept task waits, is done or is replaced, on the same port.
LEMMA AcceptInv ==
  ASSUME ReloadInv, NEW p \in Ports, phase = "running", accepts[p] # None,
         NEW to \in {"waiting", "accepted", "failed"},
         accepts' = [accepts EXCEPT ![p] = to],
         UNCHANGED <<phase, reloadVars, view, listeners, admissions, free,
                     globalFree, sessions>>
  PROVE  ReloadInv'
<1>1. UNCHANGED <<file, hangup, generation, pending, validation>>
  BY DEF reloadVars
<1>2. \A a, k : (Held(a, k)' <=> Held(a, k)) /\ (Alive(a, k)' <=> Alive(a, k))
  BY <1>1 DEF Held, Alive
<1>3. ReloadTypeOK'
  BY <1>1 DEF ReloadInv, ReloadTypeOK
<1>4. CountersKnown'
  BY <1>1 DEF ReloadInv, CountersKnown
<1>5. ViewsComplete'
  BY <1>1 DEF ReloadInv, ViewsComplete, Preparing
<1>6. ReferencesKnown'
  BY <1>1, <1>2 DEF ReloadInv, ReferencesKnown, Preparing
<1>7. OneAcceptPerPort'
  <2>1. accepts \in [Ports -> {"waiting", "accepted", "failed", None}] /\ to # None
    BY ReloadAssumption DEF ReloadInv, ReloadTypeOK
  <2>2. \A q \in Ports : accepts'[q] # None <=> accepts[q] # None
    BY <2>1
  <2>3. QED
    BY <2>2 DEF ReloadInv, OneAcceptPerPort
<1>8. PermitsReturn'
  BY <1>2, PermitsSame
<1>9. QED
  BY <1>3, <1>4, <1>5, <1>6, <1>7, <1>8 DEF ReloadInv

LEMMA AcceptStepsInv ==
  ASSUME ReloadInv, NEW p \in Ports,
         AcceptEnds(p) \/ Overloaded(p) \/ AcceptFailed(p)
  PROVE  ReloadInv'
<1>1. /\ phase = "running" /\ accepts[p] \in {"waiting", "accepted", "failed"}
      /\ UNCHANGED <<phase, reloadVars, view, listeners, admissions, free,
                     globalFree, sessions>>
  BY DEF AcceptEnds, Overloaded, AcceptFailed
<1>2. accepts[p] # None
  BY <1>1, ReloadAssumption
<1>3. \E to \in {"waiting", "accepted", "failed"} :
        accepts' = [accepts EXCEPT ![p] = to]
  BY DEF AcceptEnds, Overloaded, AcceptFailed, Respawn
<1>4. QED
  BY <1>1, <1>2, <1>3, AcceptInv

\* A session and its permits: what one has more, the other has less.
LEMMA SessionInv ==
  ASSUME ReloadInv, NEW a \in Apps, NEW k \in Objects, Alive(a, k), Held(a, k),
         NEW left \in Nat, NEW count \in Nat,
         left + count = free[a][k] + sessions[a][k],
         free' = [free EXCEPT ![a][k] = left],
         sessions' = [sessions EXCEPT ![a][k] = count],
         globalFree' = globalFree + left - free[a][k],
         globalFree' \in Nat,
         UNCHANGED <<phase, file, hangup, generation, pending, validation, view,
                     listeners, admissions>>,
         accepts' \in [Ports -> {"waiting", "accepted", "failed", None}],
         \A p \in Ports : accepts'[p] # None <=> accepts[p] # None
  PROVE  ReloadInv'
<1>1. /\ free \in [Apps -> [Objects -> Nat]]
      /\ sessions \in [Apps -> [Objects -> Nat]]
      /\ free[a][k] \in Nat /\ sessions[a][k] \in Nat /\ Limit[a] \in Nat
  BY ReloadEntries DEF ReloadInv, CountersKnown
<1>2. free[a][k] + sessions[a][k] = Limit[a]
  BY DEF ReloadInv, PermitsReturn
<1>3. left \in 0 .. Limit[a] /\ left + count = Limit[a]
  BY <1>1, <1>2
<1>4. /\ free' \in [Apps -> [Objects -> Nat]]
      /\ sessions' \in [Apps -> [Objects -> Nat]]
      /\ free'[a][k] = left /\ sessions'[a][k] = count
      /\ \A b \in Apps, j \in Objects : b # a \/ j # k =>
            free'[b][j] = free[b][j] /\ sessions'[b][j] = sessions[b][j]
  BY <1>1
<1>5. \A b \in Apps, j \in Objects : Held(b, j)' => Held(b, j)
  BY <1>4 DEF Held
<1>6. \A b \in Apps, j \in Objects : Alive(b, j)' => Alive(b, j)
  BY <1>4 DEF Alive
<1>7. /\ Total(sessions) \in Nat /\ Total(sessions') \in Nat
      /\ Total(sessions') = Total(sessions) - sessions[a][k] + count
  <2> DEFINE new == [sessions EXCEPT ![a][k] = count]
  <2>1. Total(new) = Total(sessions) - sessions[a][k] + count
    BY <1>1, TotalChange
  <2>2. sessions' = new
    OBVIOUS
  <2> HIDE DEF new
  <2>3. Total(sessions') = Total(new)
    BY <2>2
  <2>4. QED
    BY <1>1, <1>4, <2>1, <2>3, SumIsNat
<1>8. /\ globalFree + Total(sessions) = GlobalLimit
      /\ globalFree \in Nat /\ GlobalLimit \in Nat
  BY ReloadAssumption DEF ReloadInv, PermitsReturn, ReloadTypeOK
<1>9. globalFree' + Total(sessions') = GlobalLimit
  BY <1>1, <1>2, <1>3, <1>7, <1>8
<1>10. ReloadTypeOK'
  <2>1. globalFree' \in 0 .. GlobalLimit
    BY <1>7, <1>8, <1>9
  <2>2. ASSUME NEW b \in Apps
        PROVE  free'[b] \in [Objects -> 0 .. Limit[b]]
    <3>1. free[b] \in [Objects -> 0 .. Limit[b]]
      BY DEF ReloadInv, ReloadTypeOK
    <3>2. free'[b] = IF b = a THEN [free[b] EXCEPT ![k] = left] ELSE free[b]
      BY <1>1
    <3>3. QED
      BY <1>3, <3>1, <3>2
  <2>3. \A b \in Apps : sessions'[b] \in [Objects -> Nat]
    BY <1>4
  <2>4. QED
    BY <2>1, <2>2, <2>3 DEF ReloadInv, ReloadTypeOK
<1>11. CountersKnown'
  BY <1>4 DEF ReloadInv, CountersKnown
<1>12. ViewsComplete'
  BY DEF ReloadInv, ViewsComplete, Preparing
<1>13. ReferencesKnown'
  BY <1>5, <1>6 DEF ReloadInv, ReferencesKnown, Preparing
<1>14. OneAcceptPerPort'
  BY DEF ReloadInv, OneAcceptPerPort
<1>15. PermitsReturn'
  <2>1. ASSUME NEW b \in Apps, NEW j \in Objects, Alive(b, j)'
        PROVE  free'[b][j] + sessions'[b][j] = Limit[b]
    <3>1. CASE b = a /\ j = k
      BY <1>3, <1>4, <3>1
    <3>2. CASE b # a \/ j # k
      <4>1. Alive(b, j)
        BY <1>6, <2>1
      <4>2. QED
        BY <1>4, <3>2, <4>1 DEF ReloadInv, PermitsReturn
    <3>3. QED
      BY <3>1, <3>2
  <2>2. QED
    BY <1>9, <2>1 DEF PermitsReturn
<1>16. QED
  BY <1>10, <1>11, <1>12, <1>13, <1>14, <1>15 DEF ReloadInv

LEMMA SessionEndsInv ==
  ASSUME ReloadInv, NEW a \in Apps, NEW k \in Objects, SessionEnds(a, k)
  PROVE  ReloadInv'
<1>1. /\ sessions[a][k] \in Nat /\ free[a][k] \in Nat
      /\ sessions[a][k] > 0 /\ globalFree \in Nat
  BY ReloadEntries, ReloadAssumption DEF SessionEnds, ReloadInv, ReloadTypeOK
<1> DEFINE left == free[a][k] + 1
           count == sessions[a][k] - 1
<1>2. /\ free' = [free EXCEPT ![a][k] = left]
      /\ sessions' = [sessions EXCEPT ![a][k] = count]
      /\ globalFree' = globalFree + 1
  BY DEF SessionEnds
<1>3. /\ UNCHANGED <<phase, file, hangup, generation, pending, validation, view,
                     listeners, admissions>>
      /\ accepts' \in [Ports -> {"waiting", "accepted", "failed", None}]
      /\ \A p \in Ports : accepts'[p] # None <=> accepts[p] # None
  BY DEF SessionEnds, reloadVars, ReloadInv, ReloadTypeOK
<1>4. /\ left \in Nat /\ count \in Nat
      /\ left + count = free[a][k] + sessions[a][k]
      /\ globalFree' = globalFree + left - free[a][k] /\ globalFree' \in Nat
  BY <1>1, <1>2
<1>5. Alive(a, k) /\ Held(a, k)
  BY <1>1 DEF Alive, Held
<1> HIDE DEF left, count
<1>6. QED
  BY <1>2, <1>3, <1>4, <1>5, SessionInv

LEMMA DispatchInv ==
  ASSUME ReloadInv, NEW p \in Ports, Dispatch(p)
  PROVE  ReloadInv'
<1> DEFINE a == view.ports[p]
           k == view.admission[a]
<1>1. phase = "running" /\ accepts[p] = "accepted"
  BY DEF Dispatch
<1>2. a \in Apps
  <2>1. view.ports[p] # None
    BY <1>1, ReloadAssumption DEF ReloadInv, OneAcceptPerPort
  <2>2. QED
    BY <2>1 DEF ReloadInv, ReloadTypeOK, View
<1>3. k \in Objects
  <2>1. a \in Served(view.ports)
    BY <1>2, ReloadAssumption DEF Served, Bound
  <2>2. k # None
    BY <2>1 DEF ReloadInv, ViewsComplete
  <2>3. view.admission \in [Apps -> Objects \cup {None}]
    BY DEF ReloadInv, ReloadTypeOK, View, Reference
  <2>4. QED
    BY <1>2, <2>2, <2>3
<1>4. Alive(a, k) /\ Held(a, k)
  BY DEF Alive, Held
<1>5. /\ sessions[a][k] \in Nat /\ free[a][k] \in Nat /\ globalFree \in Nat
  BY <1>2, <1>3, ReloadEntries, ReloadAssumption DEF ReloadInv, ReloadTypeOK
<1>6. /\ free[a][k] > 0 /\ globalFree > 0
      /\ free' = [free EXCEPT ![a][k] = free[a][k] - 1]
      /\ sessions' = [sessions EXCEPT ![a][k] = sessions[a][k] + 1]
      /\ globalFree' = globalFree - 1
      /\ accepts' = [accepts EXCEPT ![p] = "waiting"]
      /\ UNCHANGED <<phase, file, hangup, generation, pending, validation, view,
                     listeners, admissions>>
  BY DEF Dispatch, Respawn, reloadVars
<1>7. /\ accepts' \in [Ports -> {"waiting", "accepted", "failed", None}]
      /\ \A q \in Ports : accepts'[q] # None <=> accepts[q] # None
  <2>1. accepts \in [Ports -> {"waiting", "accepted", "failed", None}]
    BY DEF ReloadInv, ReloadTypeOK
  <2>2. QED
    BY <1>1, <1>6, <2>1, ReloadAssumption
<1> DEFINE left == free[a][k] - 1
           count == sessions[a][k] + 1
<1>8. /\ left \in Nat /\ count \in Nat
      /\ left + count = free[a][k] + sessions[a][k]
      /\ globalFree' = globalFree + left - free[a][k] /\ globalFree' \in Nat
  BY <1>5, <1>6
<1>9. /\ free' = [free EXCEPT ![a][k] = left]
      /\ sessions' = [sessions EXCEPT ![a][k] = count]
  BY <1>6
<1>10. UNCHANGED <<phase, file, hangup, generation, pending, validation, view,
                   listeners, admissions>>
  BY <1>6
<1> HIDE DEF a, k, left, count
<1>11. QED
  BY <1>2, <1>3, <1>4, <1>7, <1>8, <1>9, <1>10, SessionInv

-----------------------------------------------------------------------------
(***************************************************************************)
(* The drain.                                                              *)
(***************************************************************************)

LEMMA TerminateInv ==
  ASSUME ReloadInv, Terminate
  PROVE  ReloadInv'
<1>1. /\ phase' = "draining" /\ validation' = None
      /\ accepts' = AcceptOn({}) /\ listeners' = {}
      /\ UNCHANGED <<file, hangup, generation, pending, view, admissions, free,
                     globalFree, sessions>>
  BY DEF Terminate
<1>2. \A a \in Apps, k \in Objects :
        (Held(a, k)' <=> Held(a, k)) /\ (Alive(a, k)' => Alive(a, k))
  BY <1>1 DEF Held, Alive
<1>3. ReloadTypeOK'
  <2>1. AcceptOn({}) \in [Ports -> {"waiting", "accepted", "failed", None}]
    BY DEF AcceptOn
  <2>2. QED
    BY <1>1, <2>1 DEF ReloadInv, ReloadTypeOK
<1>4. CountersKnown'
  BY <1>1 DEF ReloadInv, CountersKnown
<1>5. ViewsComplete'
  BY <1>1 DEF ReloadInv, ViewsComplete, Preparing
<1>6. ReferencesKnown'
  BY <1>1, <1>2 DEF ReloadInv, ReferencesKnown, Preparing
<1>7. OneAcceptPerPort'
  BY <1>1 DEF OneAcceptPerPort
<1>8. PermitsReturn'
  BY <1>1, <1>2, PermitsSame
<1>9. QED
  BY <1>3, <1>4, <1>5, <1>6, <1>7, <1>8 DEF ReloadInv

LEMMA DrainedInv ==
  ASSUME ReloadInv, Drained
  PROVE  ReloadInv'
<1>1. /\ phase' = "stopped"
      /\ UNCHANGED <<file, hangup, generation, pending, validation, view,
                     listeners, admissions, accepts, free, globalFree, sessions>>
  BY DEF Drained, reloadVars
<1>2. \A a, k : (Held(a, k)' <=> Held(a, k)) /\ (Alive(a, k)' <=> Alive(a, k))
  BY <1>1 DEF Held, Alive
<1>3. ReloadTypeOK'
  BY <1>1 DEF ReloadInv, ReloadTypeOK
<1>4. CountersKnown' /\ ViewsComplete' /\ OneAcceptPerPort'
  BY <1>1 DEF ReloadInv, CountersKnown, ViewsComplete, Preparing, OneAcceptPerPort
<1>5. ReferencesKnown'
  BY <1>1, <1>2 DEF ReloadInv, ReferencesKnown, Preparing
<1>6. PermitsReturn'
  BY <1>1, <1>2, PermitsSame
<1>7. QED
  BY <1>3, <1>4, <1>5, <1>6 DEF ReloadInv

\* The sessions that are aborted give back what they hold.
LEMMA DrainExpiresInv ==
  ASSUME ReloadInv, DrainExpires
  PROVE  ReloadInv'
<1>1. /\ phase' = "stopped"
      /\ sessions' = [a \in Apps |-> [k \in Objects |-> 0]]
      /\ free' = [a \in Apps |-> [k \in Objects |-> free[a][k] + sessions[a][k]]]
      /\ globalFree' = globalFree + Total(sessions)
      /\ UNCHANGED <<file, hangup, generation, pending, validation, view,
                     listeners, admissions, accepts>>
  BY DEF DrainExpires, reloadVars
<1>2. \A a \in Apps, k \in Objects :
        /\ free'[a][k] = free[a][k] + sessions[a][k] /\ free'[a][k] \in Nat
        /\ sessions'[a][k] = 0
  BY <1>1, ReloadEntries
<1>3. ASSUME NEW a \in Apps, NEW k \in Objects
      PROVE  free'[a][k] <= Limit[a]
  <2>1. CASE sessions[a][k] = 0
    BY <1>2, <2>1, ReloadEntries
  <2>2. CASE sessions[a][k] # 0
    <3>1. Alive(a, k)
      BY <2>2, ReloadEntries DEF Alive
    <3>2. free[a][k] + sessions[a][k] = Limit[a]
      BY <3>1 DEF ReloadInv, PermitsReturn
    <3>3. QED
      BY <1>2, <3>2, ReloadEntries
  <2>3. QED
    BY <2>1, <2>2
<1>4. \A a \in Apps, k \in Objects :
        (Held(a, k)' => Held(a, k)) /\ (Alive(a, k)' => Alive(a, k))
  BY <1>1, <1>2 DEF Held, Alive
<1>5. globalFree + Total(sessions) = GlobalLimit /\ Total(sessions') = 0
  BY <1>1, TotalOfNone DEF ReloadInv, PermitsReturn
<1>6. ReloadTypeOK'
  <2>1. /\ \A a \in Apps : free'[a] \in [Objects -> 0 .. Limit[a]]
        /\ \A a \in Apps : sessions'[a] \in [Objects -> Nat]
    <3> SUFFICES ASSUME NEW a \in Apps
                 PROVE  /\ free'[a] \in [Objects -> 0 .. Limit[a]]
                        /\ sessions'[a] \in [Objects -> Nat]
      OBVIOUS
    <3>1. /\ free'[a] = [k \in Objects |-> free'[a][k]]
          /\ sessions'[a] = [k \in Objects |-> 0]
      BY <1>1
    <3>2. \A k \in Objects : free'[a][k] \in 0 .. Limit[a]
      BY <1>2, <1>3, ReloadEntries
    <3>3. QED
      BY <3>1, <3>2
  <2>2. globalFree' \in 0 .. GlobalLimit
    BY <1>1, <1>5, ReloadAssumption
  <2>3. QED
    BY <1>1, <2>1, <2>2 DEF ReloadInv, ReloadTypeOK
<1>7. CountersKnown'
  <2>1. /\ free' \in [Apps -> [Objects -> Nat]]
        /\ sessions' \in [Apps -> [Objects -> Nat]]
    BY <1>1, <1>2
  <2>2. QED
    BY <1>1, <2>1 DEF ReloadInv, CountersKnown
<1>8. ViewsComplete'
  BY <1>1 DEF ReloadInv, ViewsComplete, Preparing
<1>9. ReferencesKnown'
  BY <1>1, <1>4 DEF ReloadInv, ReferencesKnown, Preparing
<1>10. OneAcceptPerPort'
  BY <1>1 DEF OneAcceptPerPort
<1>11. PermitsReturn'
  <2>1. ASSUME NEW a \in Apps, NEW k \in Objects, Alive(a, k)'
        PROVE  free'[a][k] + sessions'[a][k] = Limit[a]
    <3>1. free[a][k] + sessions[a][k] = Limit[a]
      BY <1>4, <2>1 DEF ReloadInv, PermitsReturn
    <3>2. QED
      BY <1>2, <3>1
  <2>2. globalFree' + Total(sessions') = GlobalLimit
    BY <1>1, <1>5, ReloadAssumption
  <2>3. QED
    BY <2>1, <2>2 DEF PermitsReturn
<1>12. QED
  BY <1>6, <1>7, <1>8, <1>9, <1>10, <1>11 DEF ReloadInv

-----------------------------------------------------------------------------
(***************************************************************************)
(* What holds in every behaviour.                                          *)
(***************************************************************************)

LEMMA ReloadStutters ==
  ASSUME ReloadInv, UNCHANGED vars
  PROVE  ReloadInv'
<1> USE DEF vars
<1>1. \A a, k : (Held(a, k)' <=> Held(a, k)) /\ (Alive(a, k)' <=> Alive(a, k))
  BY DEF Held, Alive
<1>2. ReloadTypeOK' /\ CountersKnown'
  BY DEF ReloadInv, ReloadTypeOK, CountersKnown
<1>3. ViewsComplete' /\ OneAcceptPerPort'
  BY DEF ReloadInv, ViewsComplete, Preparing, OneAcceptPerPort
<1>4. ReferencesKnown'
  BY <1>1 DEF ReloadInv, ReferencesKnown, Preparing
<1>5. PermitsReturn'
  BY <1>1, PermitsSame
<1>6. QED
  BY <1>2, <1>3, <1>4, <1>5 DEF ReloadInv

\* The inductive invariant: an application has one living Admission object at
\* most, the one that the weak references name, through every overlap of
\* reloads, validations, sessions and the drain.
THEOREM ReloadInvHolds == ReloadSpec => []ReloadInv
<1>1. ReloadInit => ReloadInv
  BY ReloadInitInv
<1>2. ReloadInv /\ [ReloadNext]_vars => ReloadInv'
  <2> SUFFICES ASSUME ReloadInv, [ReloadNext]_vars
               PROVE  ReloadInv'
    OBVIOUS
  <2>1. CASE \E contents \in Configs \cup {Invalid} : RequestReload(contents)
    BY <2>1, RequestInv
  <2>2. CASE ReceiveReload
    BY <2>2, ReceiveInv
  <2>3. CASE ReadConfig
    BY <2>3, ReadInv
  <2>4. CASE Prepare
    BY <2>4, PrepareInv
  <2>5. CASE ValidationFails
    BY <2>5, FailsInv
  <2>6. CASE FinishValidation
    BY <2>6, FinishInv
  <2>7. CASE \E p \in Ports : AcceptEnds(p) \/ Overloaded(p) \/ AcceptFailed(p)
    BY <2>7, AcceptStepsInv
  <2>8. CASE \E p \in Ports : Dispatch(p)
    BY <2>8, DispatchInv
  <2>9. CASE \E a \in Apps, k \in Objects : SessionEnds(a, k)
    BY <2>9, SessionEndsInv
  <2>10. CASE Terminate
    BY <2>10, TerminateInv
  <2>11. CASE Drain
    BY <2>11, DrainedInv, DrainExpiresInv DEF Drain
  <2>12. CASE UNCHANGED vars
    BY <2>12, ReloadStutters
  <2>13. QED
    BY <2>1, <2>2, <2>3, <2>4, <2>5, <2>6, <2>7, <2>8, <2>9, <2>10, <2>11, <2>12
    DEF ReloadNext, ReloadStep
<1>3. QED
  BY <1>1, <1>2, PTL DEF ReloadSpec

\* The variables of the select loop keep their types: the numbers of permits
\* stay within the limits, and a prepared view is one.
THEOREM ReloadTypeCorrect == ReloadSpec => []ReloadTypeOK
<1>1. ReloadInv => ReloadTypeOK
  BY DEF ReloadInv
<1>2. QED
  BY <1>1, ReloadInvHolds, PTL

\* An application's sessions never exceed its limit, whatever view they were
\* dispatched under, and all sessions never exceed the ceiling.
THEOREM LimitsAlways == ReloadSpec => []LimitsHold
  BY LimitsInv, ReloadInvHolds, PTL

\* No permit is lost: what a living object does not have free its sessions
\* hold, when a reload takes it over as well as when one is refused.
THEOREM PermitsAlwaysReturn == ReloadSpec => []PermitsReturn
<1>1. ReloadInv => PermitsReturn
  BY DEF ReloadInv
<1>2. QED
  BY <1>1, ReloadInvHolds, PTL

\* There is one accept task on each port of the active view and on no other.
THEOREM AcceptsStand == ReloadSpec => []OneAcceptPerPort
<1>1. ReloadInv => OneAcceptPerPort
  BY DEF ReloadInv
<1>2. QED
  BY <1>1, ReloadInvHolds, PTL

-----------------------------------------------------------------------------
(***************************************************************************)
(* Connections to the backends.                                            *)
(***************************************************************************)

\* What comes of an attempt.
Outcome == [stream : BOOLEAN, at : Nat]

\* f goes through the items, as InTurn does.
Runs(f, try, items, now, until) ==
    /\ f[0] = [stream |-> FALSE, at |-> now]
    /\ \A k \in 1 .. Len(items) :
          f[k] = IF k > 1 /\ (f[k - 1].stream \/ f[k - 1].at >= until)
                 THEN f[k - 1]
                 ELSE try[items[k]][f[k - 1].at]

\* Attempts on items that take place at any time.
Attempts(try, items) ==
    \A k \in 1 .. Len(items), at \in Nat : try[items[k]][at] \in Outcome

\* The recursion of InTurn goes through the items.
LEMMA InTurnRuns ==
  ASSUME NEW try, NEW items, Len(items) \in Nat,
         Attempts(try, items), NEW now \in Nat, NEW until \in Nat
  PROVE  \E f \in [0 .. Len(items) -> Outcome] :
            /\ Runs(f, try, items, now, until)
            /\ InTurn(try, items, now, until) = f[Len(items)]
<1> DEFINE n == Len(items)
           start == [stream |-> FALSE, at |-> now]
           Next(k, before) ==
               IF k > 1 /\ (before.stream \/ before.at >= until)
               THEN before
               ELSE try[items[k]][before.at]
           step == [k \in 1 .. n |-> [before \in Outcome |-> Next(k, before)]]
           Solved(g) == g = [k \in 0 .. n |-> IF k = 0 THEN start ELSE Next(k, g[k - 1])]
           turn == CHOOSE g : Solved(g)
<1>1. n \in Nat /\ start \in Outcome
  BY DEF Outcome
<1>2. \A k \in 1 .. n, before \in Outcome : Next(k, before) \in Outcome
  BY DEF Attempts, Outcome
<1>3. InTurn(try, items, now, until) = turn[n]
  BY DEF InTurn
<1> HIDE DEF Next
<1>4. step \in [1 .. n -> [Outcome -> Outcome]]
  BY <1>2
<1>5. \A k \in 1 .. n, before \in Outcome : step[k][before] = Next(k, before)
  OBVIOUS
<1> HIDE DEF step, n, start
<1>6. PICK f \in [0 .. n -> Outcome] : Computed(f, n, start, step)
  BY <1>1, <1>4, StepsExist
<1>7. Solved(f)
  <2>1. ASSUME NEW k \in 0 .. n
        PROVE  f[k] = IF k = 0 THEN start ELSE Next(k, f[k - 1])
    <3>1. CASE k = 0
      BY <1>6, <3>1 DEF Computed
    <3>2. CASE k # 0
      <4>1. k \in 1 .. n /\ k - 1 \in 0 .. n
        BY <1>1, <3>2
      <4>2. f[k - 1] \in Outcome
        BY <4>1
      <4>3. QED
        BY <1>5, <1>6, <3>2, <4>1, <4>2 DEF Computed
    <3>3. QED
      BY <3>1, <3>2
  <2>2. QED
    BY <2>1
<1>8. Solved(turn)
  BY <1>7
<1> HIDE DEF turn
<1>9. turn[0] = start /\ \A k \in 1 .. n : turn[k] = Next(k, turn[k - 1])
  <2>1. \A k \in 0 .. n : turn[k] = IF k = 0 THEN start ELSE Next(k, turn[k - 1])
    BY <1>8
  <2>2. 0 \in 0 .. n /\ \A k \in 1 .. n : k \in 0 .. n /\ k # 0
    BY <1>1
  <2>3. QED
    BY <2>1, <2>2
<1> DEFINE T == {k \in 0 .. n : turn[k] \in Outcome}
<1>10. \A k \in 0 .. n : k \in T
  <2>1. 0 \in T
    BY <1>1, <1>9
  <2>2. ASSUME NEW k \in 0 .. n - 1, k \in T
        PROVE  k + 1 \in T
    <3>1. k + 1 \in 1 .. n /\ k + 1 \in 0 .. n /\ (k + 1) - 1 = k
      BY <1>1
    <3>2. turn[k + 1] = Next(k + 1, turn[k])
      BY <1>9, <3>1
    <3>3. QED
      BY <1>2, <2>2, <3>1, <3>2
  <2>3. \A k \in 0 .. n - 1 : k \in T => k + 1 \in T
    BY <2>2
  <2> HIDE DEF T
  <2>4. QED
    BY <1>1, <2>1, <2>3, UpTo
<1>11. turn \in [0 .. n -> Outcome]
  <2>1. \A k \in 0 .. n : turn[k] \in Outcome
    BY <1>10
  <2>2. QED
    BY <1>8, <2>1
<1>12. Runs(turn, try, items, now, until)
  BY <1>9 DEF Runs, Next, n, start
<1>13. QED
  BY <1>3, <1>11, <1>12 DEF n

\* Once there is a stream, nothing else is tried.
LEMMA StreamStays ==
  ASSUME NEW try, NEW items, Len(items) \in Nat, NEW now, NEW until, NEW f,
         Runs(f, try, items, now, until), NEW k \in 1 .. Len(items), f[k].stream
  PROVE  f[Len(items)].stream
<1> DEFINE n == Len(items)
           T == {j \in 0 .. n - k : f[k + j].stream}
<1>1. 0 \in T
  OBVIOUS
<1>2. ASSUME NEW j \in 0 .. (n - k) - 1, j \in T
      PROVE  j + 1 \in T
  <2>1. k + (j + 1) \in 1 .. n /\ k + (j + 1) > 1 /\ (k + (j + 1)) - 1 = k + j
    OBVIOUS
  <2>2. f[k + (j + 1)] = f[k + j]
    BY <1>2, <2>1 DEF Runs
  <2>3. QED
    BY <1>2, <2>2
<1>3. n - k \in Nat /\ n - k \in 0 .. n - k /\ k + (n - k) = n
  OBVIOUS
<1> HIDE DEF n
<1>4. \A j \in 0 .. n - k : j \in T
  <2>1. \A j \in 0 .. (n - k) - 1 : j \in T => j + 1 \in T
    BY <1>2
  <2> HIDE DEF T
  <2>2. QED
    BY <1>1, <1>3, <2>1, UpTo
<1>5. QED
  BY <1>3, <1>4 DEF n

\* Attempts that end by a time.
EndBy(try, items, until) ==
    \A k \in 1 .. Len(items), at \in Nat :
        at <= until => try[items[k]][at].at <= until

\* Some item gives a stream in time.
Streams(try, items, until) ==
    \E k \in 1 .. Len(items), at \in Nat :
        at <= until /\ try[items[k]][at].stream

\* Nothing takes longer than there is time, and a stream is one of an item's.
LEMMA RunBounds ==
  ASSUME NEW try, NEW items, Len(items) \in Nat,
         Attempts(try, items), NEW now \in Nat,
         NEW until \in Nat, now <= until, EndBy(try, items, until),
         NEW f \in [0 .. Len(items) -> Outcome], Runs(f, try, items, now, until)
  PROVE  \A k \in 0 .. Len(items) :
            /\ f[k].at <= until
            /\ f[k].stream => Streams(try, items, until)
<1> DEFINE n == Len(items)
           T == {k \in 0 .. n :
                    f[k].at <= until /\ (f[k].stream => Streams(try, items, until))}
<1>1. n \in Nat
  OBVIOUS
<1>2. 0 \in T
  <2>1. f[0] = [stream |-> FALSE, at |-> now]
    BY DEF Runs
  <2>2. QED
    BY <1>1, <2>1
<1>3. ASSUME NEW k \in 0 .. n - 1, k \in T
      PROVE  k + 1 \in T
  <2>1. k + 1 \in 1 .. n /\ k + 1 \in 0 .. n /\ (k + 1) - 1 = k
    BY <1>1
  <2>2. f[k] \in Outcome /\ f[k].at \in Nat /\ f[k].at <= until
    BY <1>3 DEF Outcome
  <2>3. \/ f[k + 1] = f[k]
        \/ f[k + 1] = try[items[k + 1]][f[k].at]
    BY <2>1 DEF Runs
  <2>4. try[items[k + 1]][f[k].at].at <= until
    BY <2>1, <2>2 DEF EndBy
  <2>5. try[items[k + 1]][f[k].at].stream => Streams(try, items, until)
    BY <2>1, <2>2 DEF Streams
  <2>6. QED
    BY <1>3, <2>1, <2>3, <2>4, <2>5
<1>4. \A k \in 0 .. n : k \in T
  <2>1. \A k \in 0 .. n - 1 : k \in T => k + 1 \in T
    BY <1>3
  <2> HIDE DEF T, n
  <2>2. QED
    BY <1>1, <1>2, <2>1, UpTo
<1>5. QED
  BY <1>4

\* The same of InTurn.
LEMMA InTurnBounds ==
  ASSUME NEW try, NEW items, Len(items) \in Nat,
         Attempts(try, items), NEW now \in Nat,
         NEW until \in Nat
  PROVE  /\ InTurn(try, items, now, until) \in Outcome
         /\ now <= until /\ EndBy(try, items, until) =>
               /\ InTurn(try, items, now, until).at <= until
               /\ InTurn(try, items, now, until).stream => Streams(try, items, until)
<1>1. PICK f \in [0 .. Len(items) -> Outcome] :
         /\ Runs(f, try, items, now, until)
         /\ InTurn(try, items, now, until) = f[Len(items)]
  BY InTurnRuns
<1>2. Len(items) \in 0 .. Len(items)
  OBVIOUS
<1>3. QED
  BY <1>1, <1>2, RunBounds

-----------------------------------------------------------------------------
\* An answer is awaited no longer than until the deadline.
LEMMA AwaitEnds ==
  ASSUME NEW peer \in Peer, NEW now \in Nat, NEW until \in Nat
  PROVE  /\ Await(peer, now, until) \in Outcome
         /\ Await(peer, now, until).at <= until
         /\ Await(peer, now, until).stream => peer.answer = "accepts"
<1>1. peer.after \in Nat
  BY DEF Peer
<1>2. CASE peer.answer # "silent" /\ now + peer.after <= until
  <2> DEFINE accepted == peer.answer = "accepts"
  <2>1. accepted \in BOOLEAN
    OBVIOUS
  <2>2. accepted => peer.answer = "accepts"
    OBVIOUS
  <2>3. Await(peer, now, until) = [stream |-> accepted, at |-> now + peer.after]
    BY <1>2 DEF Await
  <2> HIDE DEF accepted
  <2>4. QED
    BY <1>1, <1>2, <2>1, <2>2, <2>3 DEF Outcome
<1>3. CASE ~(peer.answer # "silent" /\ now + peer.after <= until)
  BY <1>3 DEF Await, Outcome
<1>4. QED
  BY <1>2, <1>3

\* The addresses that are tried are the first ones of the name.
LEMMA TriedAddresses ==
  ASSUME NEW addresses \in Seq(Peer)
  PROVE  /\ Tried(addresses) \in Seq(Peer)
         /\ Len(Tried(addresses)) \in 0 .. Len(addresses)
         /\ \A k \in 1 .. Len(Tried(addresses)) :
               /\ k \in DOMAIN addresses
               /\ Tried(addresses)[k] = addresses[k]
               /\ addresses[k] \in Range(addresses)
               /\ addresses[k] \in Peer
  BY ConnectAssumption DEF Tried, Earlier, Range

\* The attempts on the addresses of a target.
AddressAttempts(target, until) ==
    [address \in Range(target.addresses) |->
        [at \in Nat |-> Await(address, at, until)]]

\* Each of them waits for one of the first addresses.
LEMMA AddressAttemptsAre ==
  ASSUME NEW target \in Target, NEW until \in Nat
  PROVE  \A k \in 1 .. Len(Tried(target.addresses)), at \in Nat :
            AddressAttempts(target, until)[Tried(target.addresses)[k]][at] =
              Await(target.addresses[k], at, until)
  BY TriedAddresses DEF AddressAttempts, Target

\* A target is given up by its deadline, and a stream is one that an address
\* of it accepted.
LEMMA TargetEnds ==
  ASSUME NEW target \in Target, NEW now \in Nat, NEW until \in Nat
  PROVE  /\ ConnectTarget(target, now, until) \in Outcome
         /\ now <= until =>
               /\ ConnectTarget(target, now, until).at <= until
               /\ ConnectTarget(target, now, until).stream => CouldAccept(target)
<1> DEFINE found == Await(target.lookup, now, until)
           items == Tried(target.addresses)
           try == AddressAttempts(target, until)
<1>1. target.lookup \in Peer /\ target.addresses \in Seq(Peer)
  BY DEF Target
<1>2. found \in Outcome /\ found.at <= until /\ found.at \in Nat
  BY <1>1, AwaitEnds DEF Outcome
<1>3. /\ Len(items) \in Nat
      /\ \A k \in 1 .. Len(items) :
            k \in DOMAIN target.addresses /\ target.addresses[k] \in Peer
  BY <1>1, TriedAddresses
<1>4. Attempts(try, items) /\ EndBy(try, items, until)
  BY <1>3, AddressAttemptsAre, AwaitEnds DEF Attempts, EndBy
<1>5. Streams(try, items, until) => CouldAccept(target)
  <2> SUFFICES ASSUME NEW k \in 1 .. Len(items), NEW at \in Nat,
                      try[items[k]][at].stream
               PROVE  CouldAccept(target)
    BY DEF Streams
  <2>1. try[items[k]][at] = Await(target.addresses[k], at, until)
    BY AddressAttemptsAre
  <2>2. target.addresses[k].answer = "accepts"
    BY <1>3, <2>1, AwaitEnds
  <2>3. QED
    BY <1>3, <2>2 DEF CouldAccept
<1>6. ConnectTarget(target, now, until) =
         IF found.stream THEN InTurn(try, items, found.at, until) ELSE found
  BY DEF ConnectTarget, AddressAttempts
<1> HIDE DEF found, items, try
<1>7. QED
  BY <1>2, <1>3, <1>4, <1>5, <1>6, InTurnBounds

\* The types of a target's parts.
LEMMA TargetKnown ==
  ASSUME NEW target \in Target
  PROVE  /\ Len(target.addresses) \in Nat
         /\ target.lookup \in Peer
         /\ target.lookup.after \in Nat
         /\ \A j \in 1 .. Len(target.addresses) :
               target.addresses[j] \in Peer /\ target.addresses[j].after \in Nat
<1>1. target.addresses \in Seq(Peer) /\ target.lookup \in Peer
  BY DEF Target
<1>2. \A peer \in Peer : peer.after \in Nat
  BY DEF Peer
<1>3. \A j \in 1 .. Len(target.addresses) : target.addresses[j] \in Peer
  BY <1>1
<1>4. QED
  BY <1>1, <1>2, <1>3

\* An address adds its time to what the ones before it took.
LEMMA DurationGrows ==
  ASSUME NEW target \in Target
  PROVE  /\ Duration(target, 0) = target.lookup.after
         /\ \A k \in 0 .. Len(target.addresses) : Duration(target, k) \in Nat
         /\ \A k \in 1 .. Len(target.addresses) :
               Duration(target, k) =
                 Duration(target, k - 1) + target.addresses[k].after
<1> DEFINE n == Len(target.addresses)
           Times(k) == [j \in 1 .. k |-> target.addresses[j].after]
<1>1. /\ n \in Nat
      /\ target.lookup.after \in Nat
      /\ \A j \in 1 .. n : target.addresses[j].after \in Nat
  BY TargetKnown
<1>2. \A k \in 0 .. n : IsFiniteSet(1 .. k)
  BY <1>1, FS_Interval
<1>3. \A k \in 0 .. n, j \in 1 .. n :
         j \in 1 .. k => Times(k)[j] = target.addresses[j].after
  OBVIOUS
<1>4. \A k \in 0 .. n : Duration(target, k) =
         target.lookup.after + SumFunctionOnSet(Times(k), 1 .. k)
  BY DEF Duration
<1> HIDE DEF Times, n
<1>5. \A k \in 0 .. n : SumFunctionOnSet(Times(k), 1 .. k) \in Nat
  <2> TAKE k \in 0 .. n
  <2>1. \A j \in 1 .. k : j \in 1 .. n /\ Times(k)[j] \in Nat
    BY <1>1, <1>3
  <2>2. QED
    BY <1>2, <2>1, SumNat
<1>6. SumFunctionOnSet(Times(0), 1 .. 0) = 0
  <2>1. 1 .. 0 = {}
    OBVIOUS
  <2>2. QED
    BY <2>1, SumEmpty
<1>7. ASSUME NEW k \in 1 .. n
      PROVE  SumFunctionOnSet(Times(k), 1 .. k) =
               target.addresses[k].after + SumFunctionOnSet(Times(k - 1), 1 .. k - 1)
  <2>1. k - 1 \in 0 .. n /\ k \in 0 .. n /\ (1 .. k) \ {k} = 1 .. k - 1
        /\ k \in 1 .. k
    BY <1>1
  <2>2. \A j \in 1 .. k : j \in 1 .. n /\ Times(k)[j] \in Nat
    BY <1>1, <1>3, <2>1
  <2>3. SumFunctionOnSet(Times(k), 1 .. k) =
          Times(k)[k] + SumFunctionOnSet(Times(k), 1 .. k - 1)
    BY <1>2, <2>1, <2>2, SumRemove
  <2>4. \A j \in 1 .. k - 1 : Times(k)[j] \in Nat /\ Times(k)[j] = Times(k - 1)[j]
    BY <1>1, <1>3, <2>1, <2>2
  <2>5. SumFunctionOnSet(Times(k), 1 .. k - 1) =
          SumFunctionOnSet(Times(k - 1), 1 .. k - 1)
    BY <1>2, <2>1, <2>4, SumSame
  <2>6. Times(k)[k] = target.addresses[k].after
    BY <1>3, <2>1
  <2>7. QED
    BY <2>3, <2>5, <2>6
<1>8. ASSUME NEW k \in 1 .. n
      PROVE  Duration(target, k) =
               Duration(target, k - 1) + target.addresses[k].after
  <2>1. k - 1 \in 0 .. n /\ k \in 0 .. n
    BY <1>1
  <2>2. QED
    BY <1>1, <1>4, <1>5, <1>7, <2>1
<1>9. 0 \in 0 .. n
  BY <1>1
<1>10. QED
  BY <1>1, <1>4, <1>5, <1>6, <1>8, <1>9 DEF n

\* More addresses do not take less time.
LEMMA DurationOrdered ==
  ASSUME NEW target \in Target, NEW k \in 0 .. Len(target.addresses)
  PROVE  \A j \in 0 .. k : Duration(target, j) <= Duration(target, k)
<1> DEFINE T == {i \in 0 .. k : \A j \in 0 .. i : Duration(target, j) <= Duration(target, i)}
<1>1. Len(target.addresses) \in Nat /\ \A j \in 1 .. k : target.addresses[j].after \in Nat
  BY TargetKnown
<1>2. /\ \A j \in 0 .. k : Duration(target, j) \in Nat
      /\ \A j \in 1 .. k : Duration(target, j) =
            Duration(target, j - 1) + target.addresses[j].after
  BY <1>1, DurationGrows
<1>3. 0 \in T
  BY <1>1, <1>2
<1>4. ASSUME NEW i \in 0 .. k - 1, i \in T
      PROVE  i + 1 \in T
  <2>1. i + 1 \in 1 .. k /\ i + 1 \in 0 .. k /\ (i + 1) - 1 = i /\ i \in 0 .. k
    BY <1>1
  <2>2. /\ Duration(target, i + 1) = Duration(target, i) + target.addresses[i + 1].after
        /\ target.addresses[i + 1].after \in Nat
        /\ Duration(target, i) \in Nat
    BY <1>1, <1>2, <2>1
  <2>3. ASSUME NEW j \in 0 .. i + 1
        PROVE  Duration(target, j) <= Duration(target, i + 1)
    <3>1. CASE j = i + 1
      BY <2>2, <3>1
    <3>2. CASE j # i + 1
      <4>1. j \in 0 .. i /\ j \in 0 .. k
        BY <1>1, <3>2
      <4>2. Duration(target, j) <= Duration(target, i) /\ Duration(target, j) \in Nat
        BY <1>2, <1>4, <4>1
      <4>3. QED
        BY <2>2, <4>2
    <3>3. QED
      BY <3>1, <3>2
  <2>4. QED
    BY <2>1, <2>3
<1>5. \A i \in 0 .. k : i \in T
  <2>1. \A i \in 0 .. k - 1 : i \in T => i + 1 \in T
    BY <1>4
  <2>2. k \in Nat
    BY <1>1
  <2> HIDE DEF T
  <2>3. QED
    BY <1>3, <2>1, <2>2, UpTo
<1>6. k \in 0 .. k
  BY <1>1
<1>7. QED
  BY <1>5, <1>6

\* A target that would accept in its own time does so, if it gets that time.
LEMMA HealthyConnects ==
  ASSUME NEW target \in Target, NEW now \in Nat, NEW until \in Nat,
         NEW allowed \in Int, now + allowed <= until, Healthy(target, allowed)
  PROVE  ConnectTarget(target, now, until).stream
<1> DEFINE items == Tried(target.addresses)
           try == AddressAttempts(target, until)
           found == Await(target.lookup, now, until)
<1>1. PICK k \in 1 .. Len(items) :
         /\ target.addresses[k].answer = "accepts"
         /\ \A j \in 1 .. k - 1 : target.addresses[j].answer = "refuses"
         /\ Duration(target, k) < allowed
  <2>1. target.addresses \in Seq(Peer)
    BY DEF Target
  <2>2. DOMAIN items = 1 .. Len(items)
    BY <2>1, TriedAddresses
  <2>3. QED
    BY <2>2 DEF Healthy
<1>2. /\ Len(items) \in 0 .. Len(target.addresses)
      /\ Len(target.addresses) \in Nat
      /\ target.lookup.after \in Nat
      /\ \A j \in 1 .. Len(items) :
            target.addresses[j] \in Peer /\ target.addresses[j].after \in Nat
  <2>1. target.addresses \in Seq(Peer)
    BY DEF Target
  <2>2. QED
    BY <2>1, TriedAddresses, TargetKnown
<1>3. k \in 0 .. Len(target.addresses) /\ k \in Nat /\ k > 0
  BY <1>2
<1>4. /\ Duration(target, 0) = target.lookup.after
      /\ \A j \in 0 .. k : Duration(target, j) \in Nat
      /\ \A j \in 1 .. k : Duration(target, j) =
            Duration(target, j - 1) + target.addresses[j].after
  BY <1>2, <1>3, DurationGrows
<1>5. \A j \in 0 .. k : now + Duration(target, j) < until
  <2>1. \A j \in 0 .. k : Duration(target, j) <= Duration(target, k)
    BY <1>3, DurationOrdered
  <2>2. k \in 0 .. k
    BY <1>3
  <2>3. QED
    BY <1>1, <1>4, <2>1, <2>2
<1>6. found = [stream |-> TRUE, at |-> now + Duration(target, 0)]
  <2>1. target.lookup.answer = "accepts"
    BY DEF Healthy
  <2>2. 0 \in 0 .. k
    BY <1>3
  <2>3. now + target.lookup.after <= until
    BY <1>2, <1>4, <1>5, <2>2
  <2>4. QED
    BY <1>4, <2>1, <2>3 DEF Await
<1>7. ConnectTarget(target, now, until) =
         InTurn(try, items, now + Duration(target, 0), until)
  BY <1>6 DEF ConnectTarget, AddressAttempts
<1>8. now + Duration(target, 0) \in Nat
  BY <1>3, <1>4
<1>9. \A j \in 1 .. Len(items), at \in Nat :
         try[items[j]][at] = Await(target.addresses[j], at, until)
  BY AddressAttemptsAre
<1>10. Attempts(try, items)
  <2>1. ASSUME NEW j \in 1 .. Len(items), NEW at \in Nat
        PROVE  try[items[j]][at] \in Outcome
    <3>1. target.addresses[j] \in Peer
      BY <1>2
    <3>2. Await(target.addresses[j], at, until) \in Outcome
      BY <3>1, AwaitEnds
    <3>3. QED
      BY <1>9, <3>2
  <2>2. QED
    BY <2>1 DEF Attempts
<1> DEFINE begin == now + Duration(target, 0)
<1> HIDE DEF items, try, found
<1>11. PICK f \in [0 .. Len(items) -> Outcome] :
          /\ Runs(f, try, items, begin, until)
          /\ InTurn(try, items, begin, until) = f[Len(items)]
  <2> HIDE DEF begin
  <2>1. begin \in Nat /\ Len(items) \in Nat
    BY <1>2, <1>8 DEF begin
  <2>2. QED
    BY <1>10, <2>1, InTurnRuns
\* An address that is reached before the deadline is tried.
<1>12. ASSUME NEW j \in 1 .. k,
              f[j - 1] = [stream |-> FALSE, at |-> now + Duration(target, j - 1)]
       PROVE  f[j] = [stream |-> target.addresses[j].answer = "accepts",
                      at |-> now + Duration(target, j)]
  <2>1. j \in 1 .. Len(items) /\ j - 1 \in 0 .. k /\ j \in 0 .. k
    BY <1>1, <1>2, <1>3
  <2> DEFINE at == now + Duration(target, j - 1)
  <2>2. at \in Nat /\ at < until
    <3>1. Duration(target, j - 1) \in Nat
      BY <1>4, <2>1
    <3>2. now + Duration(target, j - 1) < until
      BY <1>5, <2>1
    <3>3. QED
      BY <3>1, <3>2
  <2>3. ~f[j - 1].stream /\ f[j - 1].at = at
    BY <1>12
  <2> HIDE DEF at
  <2>4. f[j] = try[items[j]][at]
    <3>1. f[j] = IF j > 1 /\ (f[j - 1].stream \/ f[j - 1].at >= until)
                 THEN f[j - 1]
                 ELSE try[items[j]][f[j - 1].at]
      BY <1>11, <2>1 DEF Runs
    <3>2. ~(at >= until)
      BY <2>2
    <3>3. QED
      BY <2>3, <3>1, <3>2
  <2>5. target.addresses[j].answer # "silent"
    <3>1. CASE j = k
      BY <1>1, <3>1
    <3>2. CASE j # k
      BY <1>1, <1>3, <3>2
    <3>3. QED
      BY <3>1, <3>2
  <2>6. at + target.addresses[j].after = now + Duration(target, j)
    <3>1. /\ Duration(target, j) = Duration(target, j - 1) + target.addresses[j].after
          /\ Duration(target, j - 1) \in Nat
          /\ target.addresses[j].after \in Nat
      BY <1>2, <1>4, <2>1
    <3>2. QED
      BY <3>1 DEF at
  <2>7. at + target.addresses[j].after <= until
    <3>1. Duration(target, j) \in Nat
      BY <1>4, <2>1
    <3>2. now + Duration(target, j) < until
      BY <1>5, <2>1
    <3>3. QED
      BY <2>6, <3>1, <3>2
  <2>8. f[j] = [stream |-> target.addresses[j].answer = "accepts",
                at |-> at + target.addresses[j].after]
    BY <1>9, <2>1, <2>2, <2>4, <2>5, <2>7 DEF Await
  <2>9. QED
    BY <2>6, <2>8
<1> DEFINE T == {j \in 0 .. k - 1 :
                    f[j] = [stream |-> FALSE, at |-> now + Duration(target, j)]}
<1>13. \A j \in 0 .. k - 1 : j \in T
  <2>1. 0 \in T
    BY <1>3, <1>11 DEF Runs
  <2>2. ASSUME NEW j \in 0 .. (k - 1) - 1, j \in T
        PROVE  j + 1 \in T
    <3>1. j + 1 \in 1 .. k /\ (j + 1) - 1 = j /\ j + 1 \in 0 .. k - 1
          /\ j + 1 \in 1 .. k - 1
      BY <1>3
    <3>2. f[j] = [stream |-> FALSE, at |-> now + Duration(target, j)]
      BY <2>2
    <3>3. f[j + 1] = [stream |-> target.addresses[j + 1].answer = "accepts",
                      at |-> now + Duration(target, j + 1)]
      BY <1>12, <3>1, <3>2
    <3>4. (target.addresses[j + 1].answer = "accepts") = FALSE
      BY <1>1, <3>1
    <3>5. QED
      BY <3>1, <3>3, <3>4
  <2>3. k - 1 \in Nat /\ \A j \in 0 .. (k - 1) - 1 : j \in T => j + 1 \in T
    BY <1>3, <2>2
  <2> HIDE DEF T
  <2>4. QED
    BY <2>1, <2>3, UpTo
<1>14. f[k].stream
  <2>1. k - 1 \in T /\ k \in 1 .. k
    BY <1>3, <1>13
  <2>2. f[k] = [stream |-> target.addresses[k].answer = "accepts",
                at |-> now + Duration(target, k)]
    BY <1>12, <2>1
  <2>3. (target.addresses[k].answer = "accepts") = TRUE
    BY <1>1
  <2>4. f[k] = [stream |-> TRUE, at |-> now + Duration(target, k)]
    BY <2>2, <2>3
  <2>5. QED
    BY <2>4
<1>15. f[Len(items)].stream
  BY <1>1, <1>2, <1>11, <1>14, StreamStays
<1>16. QED
  BY <1>7, <1>11, <1>15

\* Every connection tries the targets of its application, each in its turn.
LEMMA RotatedTargets ==
  ASSUME NEW targets \in Seq(Target) \ {<<>>}, NEW next \in Nat
  PROVE  /\ Rotated(targets, next) \in Seq(Target)
         /\ Len(Rotated(targets, next)) = Len(targets)
         /\ Len(targets) \in Nat \ {0}
         /\ DOMAIN Rotated(targets, next) = 1 .. Len(targets)
         /\ \A p \in 1 .. Len(targets) :
               /\ Rotated(targets, next)[p] \in Target
               /\ Rotated(targets, next)[p] \in Range(targets)
<1> DEFINE n == Len(targets)
<1>1. n \in Nat \ {0} /\ DOMAIN targets = 1 .. n
  OBVIOUS
<1>2. \A m \in Nat : m % n \in 0 .. n - 1
  BY <1>1
<1>3. ASSUME NEW p \in 1 .. n
      PROVE  /\ Rotated(targets, next)[p] = targets[((next + p - 1) % n) + 1]
             /\ ((next + p - 1) % n) + 1 \in 1 .. n
  <2> DEFINE m == next + p - 1
  <2>1. m \in Nat
    OBVIOUS
  <2>2. Rotated(targets, next)[p] = targets[(m % n) + 1]
    BY <1>1 DEF Rotated
  <2> HIDE DEF m, n
  <2>3. m % n \in 0 .. n - 1
    BY <1>2, <2>1
  <2>4. (m % n) + 1 \in 1 .. n
    BY <1>1, <2>3
  <2>5. QED
    BY <2>2, <2>4 DEF m
<1>4. ASSUME NEW p \in 1 .. n
      PROVE  /\ Rotated(targets, next)[p] = targets[((next + p - 1) % n) + 1]
             /\ Rotated(targets, next)[p] \in Target
             /\ Rotated(targets, next)[p] \in Range(targets)
  <2> DEFINE i == ((next + p - 1) % n) + 1
  <2>1. i \in DOMAIN targets /\ Rotated(targets, next)[p] = targets[i]
    BY <1>1, <1>3
  <2> HIDE DEF i
  <2>2. targets[i] \in Target /\ targets[i] \in Range(targets)
    BY <2>1 DEF Range
  <2>3. QED
    BY <1>3, <2>1, <2>2
<1>5. Rotated(targets, next) \in [1 .. n -> Target]
  BY <1>1, <1>4 DEF Rotated
<1>6. QED
  BY <1>1, <1>4, <1>5

\* The attempts on the targets of an application.
TargetAttempts(targets) ==
    [target \in Range(targets) |->
        [at \in Nat |-> ConnectTarget(target, at, Until(at))]]

\* The deadline of a target is neither past nor later than that of all.
LEMMA UntilBounds ==
  ASSUME NEW now \in Nat
  PROVE  /\ Until(now) \in Nat
         /\ Until(now) <= connect_ms
         /\ Until(now) <= now + target_ms
         /\ now <= connect_ms => now <= Until(now)
         /\ \A t \in Int : t <= connect_ms /\ t <= now + target_ms => t <= Until(now)
  BY ConnectAssumption DEF Until, Earlier

\* What is known of the attempts on the targets.
LEMMA TargetAttemptsEnd ==
  ASSUME NEW targets \in Seq(Target) \ {<<>>}, NEW next \in Nat
  PROVE  LET order == Rotated(targets, next) IN
         /\ \A p \in 1 .. Len(order), at \in Nat :
               TargetAttempts(targets)[order[p]][at] = ConnectTarget(order[p], at, Until(at))
         /\ Attempts(TargetAttempts(targets), order)
         /\ EndBy(TargetAttempts(targets), order, connect_ms)
         /\ Streams(TargetAttempts(targets), order, connect_ms) =>
               \E p \in DOMAIN order : CouldAccept(order[p])
<1> DEFINE order == Rotated(targets, next)
           try == TargetAttempts(targets)
<1>1. /\ Len(order) \in Nat
      /\ DOMAIN order = 1 .. Len(order)
      /\ \A p \in 1 .. Len(order) : order[p] \in Target /\ order[p] \in Range(targets)
  BY RotatedTargets
<1> HIDE DEF order
<1>2. \A p \in 1 .. Len(order), at \in Nat :
         try[order[p]][at] = ConnectTarget(order[p], at, Until(at))
  BY <1>1 DEF TargetAttempts
<1> HIDE DEF try
<1>3. ASSUME NEW p \in 1 .. Len(order), NEW at \in Nat
      PROVE  /\ try[order[p]][at] \in Outcome
             /\ at <= connect_ms => try[order[p]][at].at <= connect_ms
             /\ at <= connect_ms /\ try[order[p]][at].stream => CouldAccept(order[p])
  <2>1. Until(at) \in Nat /\ Until(at) <= connect_ms
        /\ (at <= connect_ms => at <= Until(at))
    BY UntilBounds
  <2>2. try[order[p]][at] = ConnectTarget(order[p], at, Until(at))
    BY <1>2
  <2>3. /\ ConnectTarget(order[p], at, Until(at)) \in Outcome
        /\ at <= Until(at) =>
              /\ ConnectTarget(order[p], at, Until(at)).at <= Until(at)
              /\ ConnectTarget(order[p], at, Until(at)).stream => CouldAccept(order[p])
    BY <1>1, <2>1, TargetEnds
  <2>4. ConnectTarget(order[p], at, Until(at)).at \in Nat
    BY <2>3 DEF Outcome
  <2>5. QED
    BY <2>1, <2>2, <2>3, <2>4, ConnectAssumption
<1>4. Attempts(try, order) /\ EndBy(try, order, connect_ms)
  BY <1>3 DEF Attempts, EndBy
<1>5. Streams(try, order, connect_ms) => \E p \in DOMAIN order : CouldAccept(order[p])
  BY <1>1, <1>3 DEF Streams
<1>6. QED
  BY <1>2, <1>4, <1>5 DEF order, try

\* A target's turn comes by the time that those before it may take.
LEMMA TurnComes ==
  ASSUME NEW targets \in Seq(Target) \ {<<>>}, NEW next \in Nat,
         NEW f \in [0 .. Len(Rotated(targets, next)) -> Outcome],
         Runs(f, TargetAttempts(targets), Rotated(targets, next), 0, connect_ms)
  PROVE  \A k \in 0 .. Len(Rotated(targets, next)) :
            f[k].stream \/ f[k].at <= k * target_ms
<1> DEFINE order == Rotated(targets, next)
           n == Len(order)
           try == TargetAttempts(targets)
           T == {k \in 0 .. n : f[k].stream \/ f[k].at <= k * target_ms}
<1>1. n \in Nat /\ target_ms \in Nat /\ connect_ms \in Nat
  BY RotatedTargets, ConnectAssumption
<1>2. \A p \in 1 .. n : order[p] \in Target
  BY RotatedTargets
<1>3. \A p \in 1 .. n, at \in Nat :
         try[order[p]][at] = ConnectTarget(order[p], at, Until(at))
  BY TargetAttemptsEnd
<1>4. 0 \in T
  <2>1. f[0] = [stream |-> FALSE, at |-> 0]
    BY DEF Runs
  <2>2. f[0].at <= 0 * target_ms /\ 0 \in 0 .. n
    BY <1>1, <2>1
  <2>3. QED
    BY <2>2
<1>5. ASSUME NEW k \in 0 .. n - 1, k \in T
      PROVE  k + 1 \in T
  <2>1. k + 1 \in 1 .. n /\ k + 1 \in 0 .. n /\ (k + 1) - 1 = k /\ k \in 0 .. n
    BY <1>1
  <2>2. f[k] \in Outcome /\ f[k].at \in Nat
    BY <2>1 DEF Outcome
  <2>3. k * target_ms \in Nat /\ (k + 1) * target_ms = k * target_ms + target_ms
    BY <1>1, <2>1
  <2>4. CASE f[k + 1] = f[k]
    BY <1>1, <1>5, <2>1, <2>2, <2>3, <2>4
  <2>5. CASE f[k + 1] # f[k]
    <3>1. f[k + 1] = try[order[k + 1]][f[k].at]
      BY <2>1, <2>5 DEF Runs
    <3>2. ~f[k].stream \/ k = 0
      BY <2>1, <2>5 DEF Runs
    <3>3. f[k].at <= k * target_ms
      <4>1. CASE k = 0
        <5>1. f[0] = [stream |-> FALSE, at |-> 0]
          BY DEF Runs
        <5>2. QED
          BY <1>1, <4>1, <5>1
      <4>2. CASE k # 0
        BY <1>5, <3>2, <4>2
      <4>3. QED
        BY <4>1, <4>2
    <3> DEFINE at == f[k].at
    <3>4. at \in Nat /\ at <= k * target_ms
      BY <2>2, <3>3
    <3> HIDE DEF at
    <3>5. f[k + 1] = ConnectTarget(order[k + 1], at, Until(at))
      BY <1>3, <2>1, <3>1, <3>4 DEF at
    <3>6. CASE ~ (at <= Until(at))
      <4>1. f[k].at > connect_ms
        <5>1. at > connect_ms
          BY <1>1, <3>4, <3>6, UntilBounds
        <5>2. QED
          BY <5>1 DEF at
      <4>2. \A j \in 0 .. n : f[j].at <= connect_ms
        BY <1>1, TargetAttemptsEnd, RunBounds
      <4>3. QED
        BY <1>1, <2>1, <2>2, <4>1, <4>2
    <3>7. CASE at <= Until(at)
      <4>1. Until(at) \in Nat /\ Until(at) <= at + target_ms
        BY <3>4, UntilBounds
      <4>2. /\ f[k + 1] \in Outcome
            /\ f[k + 1].at <= Until(at)
        BY <1>2, <2>1, <3>4, <3>5, <3>7, <4>1, TargetEnds
      <4>3. f[k + 1].at \in Nat
        BY <4>2 DEF Outcome
      <4>4. QED
        BY <1>1, <2>1, <2>3, <3>4, <4>1, <4>2, <4>3
    <3>8. QED
      BY <3>6, <3>7
  <2>6. QED
    BY <2>4, <2>5
<1>6. \A k \in 0 .. n : k \in T
  <2>1. \A k \in 0 .. n - 1 : k \in T => k + 1 \in T
    BY <1>5
  <2> HIDE DEF T, n
  <2>2. QED
    BY <1>1, <1>4, <2>1, UpTo
<1>7. QED
  BY <1>6

\* What FallbackReaches says of one connection.
LEMMA ConnectReaches ==
  ASSUME NEW targets \in Seq(Target) \ {<<>>}, NEW next \in Nat
  PROVE  LET outcome == Connect(targets, next)
             order == Rotated(targets, next)
         IN
         /\ outcome.at <= connect_ms
         /\ outcome.stream => \E p \in DOMAIN order : CouldAccept(order[p])
         /\ (\E p \in DOMAIN order :
                 Healthy(order[p],
                         Earlier(target_ms, connect_ms - (p - 1) * target_ms)))
            => outcome.stream
<1> DEFINE order == Rotated(targets, next)
           n == Len(order)
           try == TargetAttempts(targets)
<1>1. /\ n \in Nat /\ target_ms \in Nat /\ connect_ms \in Nat
      /\ DOMAIN order = 1 .. n
      /\ \A p \in 1 .. n : order[p] \in Target
  BY RotatedTargets, ConnectAssumption
<1>2. /\ \A p \in 1 .. n, at \in Nat :
            try[order[p]][at] = ConnectTarget(order[p], at, Until(at))
      /\ Attempts(try, order)
      /\ EndBy(try, order, connect_ms)
      /\ Streams(try, order, connect_ms) =>
            \E p \in DOMAIN order : CouldAccept(order[p])
  BY TargetAttemptsEnd
<1>3. Connect(targets, next) = InTurn(try, order, 0, connect_ms)
  BY DEF Connect, TargetAttempts
<1>4. PICK f \in [0 .. n -> Outcome] :
         /\ Runs(f, try, order, 0, connect_ms)
         /\ InTurn(try, order, 0, connect_ms) = f[n]
  <2>1. Len(order) \in Nat /\ Attempts(try, order) /\ 0 \in Nat /\ connect_ms \in Nat
    BY <1>1, <1>2
  <2> HIDE DEF order, try
  <2>2. QED
    BY <2>1, InTurnRuns
<1>5. \A k \in 0 .. n :
         /\ f[k].at <= connect_ms
         /\ f[k].stream => Streams(try, order, connect_ms)
  BY <1>1, <1>2, <1>4, RunBounds
<1>6. ASSUME NEW p \in 1 .. n,
             Healthy(order[p], Earlier(target_ms, connect_ms - (p - 1) * target_ms))
      PROVE  f[n].stream
  <2> DEFINE allowed == Earlier(target_ms, connect_ms - (p - 1) * target_ms)
             at == f[p - 1].at
  <2>1. p - 1 \in 0 .. n /\ (p - 1) * target_ms \in Nat
    BY <1>1
  <2>2. f[p - 1].stream \/ at <= (p - 1) * target_ms
    BY <1>4, <2>1, TurnComes
  <2>3. at \in Nat
    BY <1>4, <2>1 DEF Outcome
  <2>4. /\ allowed \in Int
        /\ allowed <= target_ms
        /\ allowed <= connect_ms - (p - 1) * target_ms
    BY <1>1, <2>1 DEF Earlier
  <2>5. allowed > 0
    <3>1. PICK k \in DOMAIN Tried(order[p].addresses) : Duration(order[p], k) < allowed
      BY <1>6 DEF Healthy
    <3>2. order[p].addresses \in Seq(Peer)
      BY <1>1 DEF Target
    <3>3. k \in 0 .. Len(order[p].addresses)
      BY <3>2, TriedAddresses
    <3>4. Duration(order[p], k) \in Nat
      BY <1>1, <3>3, DurationGrows
    <3>5. QED
      BY <2>4, <3>1, <3>4
  <2> HIDE DEF allowed, at, try, order, n
  <2>6. CASE f[p - 1].stream
    <3>1. p - 1 # 0
      BY <1>4, <2>6 DEF Runs
    <3>2. p - 1 \in 1 .. n
      BY <1>1, <2>1, <3>1
    <3>3. QED
      BY <1>1, <1>4, <2>6, <3>2, StreamStays DEF n
  <2>7. CASE ~f[p - 1].stream
    <3>1. at <= (p - 1) * target_ms /\ at < connect_ms
      BY <1>1, <2>1, <2>2, <2>3, <2>4, <2>5, <2>7
    <3>2. at + allowed <= Until(at)
      <4>1. at + allowed <= connect_ms /\ at + allowed <= at + target_ms
            /\ at + allowed \in Int
        BY <1>1, <2>1, <2>3, <2>4, <3>1
      <4>2. QED
        BY <2>3, <4>1, UntilBounds
    <3>3. ConnectTarget(order[p], at, Until(at)).stream
      <4>1. Until(at) \in Nat
        BY <2>3, UntilBounds
      <4>2. Healthy(order[p], allowed)
        BY <1>6 DEF allowed, order, n
      <4>3. QED
        BY <1>1, <2>3, <2>4, <3>2, <4>1, <4>2, HealthyConnects
    <3>4. f[p] = try[order[p]][at]
      BY <1>1, <1>4, <2>3, <2>7, <3>1 DEF Runs, at, n
    <3>5. f[p].stream
      BY <1>2, <2>3, <3>3, <3>4
    <3>6. QED
      BY <1>1, <1>4, <3>5, StreamStays DEF n
  <2>8. QED
    BY <2>6, <2>7
<1>7. n \in 0 .. n
  BY <1>1
<1>8. QED
  BY <1>1, <1>2, <1>3, <1>4, <1>5, <1>6, <1>7

\* For every application, wherever its turn begins: connect is back by its
\* deadline, with a stream only if an address could have accepted, and with one
\* if a target would accept in the time that is left when those before it have
\* all taken theirs.
THEOREM FallbackAlwaysReaches == FallbackReaches
<1> SUFFICES ASSUME NEW targets \in TargetLists,
                    NEW next \in 0 .. 2 * Len(targets) - 1
             PROVE  LET outcome == Connect(targets, next)
                        order == Rotated(targets, next)
                    IN
                    /\ outcome.at <= connect_ms
                    /\ outcome.stream =>
                          \E p \in DOMAIN order : CouldAccept(order[p])
                    /\ (\E p \in DOMAIN order :
                            Healthy(order[p],
                                    Earlier(target_ms,
                                            connect_ms - (p - 1) * target_ms)))
                       => outcome.stream
  BY DEF FallbackReaches
<1>1. targets \in Seq(Target) \ {<<>>}
  BY ConnectAssumption
<1>2. next \in Nat
  OBVIOUS
<1>3. QED
  BY <1>1, <1>2, ConnectReaches

\* A session finds a backend that would accept in its own time.
THEOREM SessionsAlwaysConnect == ReloadSpec => []SessionsConnect
<1>1. SessionsConnect
  BY FallbackAlwaysReaches DEF SessionsConnect
<1>2. QED
  BY <1>1, PTL
=============================================================================
