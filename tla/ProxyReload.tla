---------------------------- MODULE ProxyReload -----------------------------
(***************************************************************************)
(* A proxy with a static configuration (proxy/src/main.rs): the select     *)
(* loop of run, its accept tasks, sessions and admission permits, reloads  *)
(* on SIGHUP, and the drain after SIGTERM.                                 *)
(*                                                                         *)
(* An application's Admission, with its semaphore, is an object that lives *)
(* as long as a view, a prepared view or a session refers to it; the loop  *)
(* itself keeps only weak references.  Here it is a pair of application    *)
(* and number, and a reload either finds the living object again or makes  *)
(* a new one.  A configuration is a map from ports to applications; its    *)
(* targets and the copying of bytes only decide how long a session lasts;  *)
(* how its task finds a backend is Connect.                                *)
(***************************************************************************)
EXTENDS Connect, FiniteSets

CONSTANTS
    Apps,         \* applications
    Ports,        \* ports
    Configs,      \* the configurations that parse accepts
    Invalid,      \* file contents that parse refuses
    None,         \* Option::None, a missing key, a dead weak reference
    Objects,      \* numbers for the Admission objects of one application
    Limit,        \* Limit[a]: the admission limit of application a
    GlobalLimit,  \* sessions of all applications
    MaxReloads,   \* bound: reloads requested
    ReloadFaults  \* the kinds of failure that may happen

ASSUME ReloadAssumption ==
    /\ Configs \subseteq [Ports -> Apps \cup {None}]
    /\ Invalid \notin Configs
    /\ None \notin Apps \cup Objects
    /\ None \notin {"waiting", "accepted", "failed"}
    /\ Limit \in [Apps -> Nat \ {0}]
    /\ GlobalLimit \in Nat
    /\ MaxReloads \in Nat
    /\ ReloadFaults \subseteq {"validation", "accept", "terminate"}

\* There are finitely many applications, and enough numbers that one is left
\* for a new object beside the one that a dead reference still names.
ASSUME ObjectsAssumption ==
    /\ IsFiniteSet(Apps)
    /\ IsFiniteSet(Objects)
    /\ \E j, k \in Objects : j # k

VARIABLES
    phase,       \* "running", "draining" or "stopped"
    file,        \* the contents of the configuration file
    hangup,      \* a SIGHUP waits to be received
    generation,  \* of the last reload requested
    pending,     \* the reload that waits for the running validation, or None
    validation,  \* the running validation task, or None
    view,        \* the active view: its ports and its Admission objects
    listeners,   \* the ports that are bound
    admissions,  \* weak references to Admission objects, by application
    accepts,     \* by port: the accept task, or None
    free,        \* free[a][k]: available permits of object k of application a
    globalFree,  \* available permits of the global semaphore
    sessions     \* sessions[a][k]: sessions that hold object k of application a

vars == <<phase, file, hangup, generation, pending, validation, view, listeners,
          admissions, accepts, free, globalFree, sessions>>

reloadVars == <<file, hangup, generation, pending, validation>>

Reference == [Apps -> Objects \cup {None}]

View == [ports : [Ports -> Apps \cup {None}], admission : Reference]

Validation ==
    [generation : 1 .. MaxReloads,
     step : {"open", "read", "ready", "failed"},
     config : Configs \cup {Invalid, None},
     candidate : View \cup {None},
     admissions : Reference]

\* None is no view and no task, and no number of a reload.
ASSUME NoneTaskAssumption == None \notin Nat \cup View \cup Validation

ReloadTypeOK ==
    /\ phase \in {"running", "draining", "stopped"}
    /\ file \in Configs \cup {Invalid}
    /\ hangup \in BOOLEAN
    /\ generation \in 0 .. MaxReloads
    /\ pending \in 1 .. MaxReloads \cup {None}
    /\ validation \in Validation \cup {None}
    /\ view \in View
    /\ listeners \subseteq Ports
    /\ admissions \in Reference
    /\ accepts \in [Ports -> {"waiting", "accepted", "failed", None}]
    /\ \A a \in Apps : free[a] \in [Objects -> 0 .. Limit[a]]
    /\ globalFree \in 0 .. GlobalLimit
    /\ \A a \in Apps : sessions[a] \in [Objects -> Nat]

Bound(config) == {p \in Ports : config[p] # None}

Served(config) == {config[p] : p \in Bound(config)}

AcceptOn(ports) == [p \in Ports |-> IF p \in ports THEN "waiting" ELSE None]

-----------------------------------------------------------------------------
(***************************************************************************)
(* prepare: the view of a configuration.                                   *)
(***************************************************************************)

\* Mutant of Alive: a session does not hold the Admission object itself.
AliveInView(a, k) ==
    \/ view.admission[a] = k
    \/ /\ validation # None
       /\ validation.candidate # None
       /\ validation.candidate.admission[a] = k

\* Some strong reference to the object exists.
Alive(a, k) ==
    \/ view.admission[a] = k
    \/ /\ validation # None
       /\ validation.candidate # None
       /\ validation.candidate.admission[a] = k
    \/ sessions[a][k] > 0

\* admissions.retain(strong_count > 0)
Retained(references) ==
    [a \in Apps |->
        IF references[a] # None /\ Alive(a, references[a])
        THEN references[a]
        ELSE None]

\* An object no reference leads to, strong or weak.
Fresh(a) == CHOOSE k \in Objects : ~Alive(a, k) /\ admissions[a] # k

\* The object of every application that the configuration serves.
Admitted(config, references) ==
    [a \in Apps |->
        CASE a \notin Served(config) -> None
          [] a \in Served(config) /\ references[a] # None -> references[a]
          [] OTHER -> Fresh(a)]

MakeView(config, references) ==
    [ports |-> config, admission |-> Admitted(config, references)]

References(config, references) ==
    [a \in Apps |-> IF a \in Served(config)
                    THEN Admitted(config, references)[a]
                    ELSE references[a]]

\* The first view, of the configuration the process starts with.
ReloadInit ==
    LET object == CHOOSE k \in Objects : TRUE IN
    /\ phase = "running"
    /\ file \in Configs
    /\ hangup = FALSE
    /\ generation = 0
    /\ pending = None
    /\ validation = None
    /\ admissions = [a \in Apps |-> IF a \in Served(file) THEN object ELSE None]
    /\ view = [ports |-> file, admission |-> admissions]
    /\ listeners = Bound(file)
    /\ accepts = AcceptOn(listeners)
    /\ free = [a \in Apps |-> [k \in Objects |-> Limit[a]]]
    /\ globalFree = GlobalLimit
    /\ sessions = [a \in Apps |-> [k \in Objects |-> 0]]

-----------------------------------------------------------------------------
(***************************************************************************)
(* Reloads.                                                                *)
(***************************************************************************)
ValidateReload(number, references) ==
    [generation |-> number, step |-> "open", config |-> None,
     candidate |-> None, admissions |-> references]

\* The operator writes a file and sends SIGHUP; signals coalesce.
RequestReload(contents) ==
    /\ phase = "running"
    /\ generation < MaxReloads
    /\ file' = contents
    /\ hangup' = TRUE
    /\ UNCHANGED <<phase, generation, pending, validation, view, listeners,
                   admissions, accepts, free, globalFree, sessions>>

\* Mutant of ReceiveReload: a request is dropped while a validation runs.
ReceiveReloadOnce ==
    /\ phase = "running"
    /\ hangup
    /\ hangup' = FALSE
    /\ generation' = generation + 1
    /\ IF validation = None
       THEN validation' = ValidateReload(generation + 1, admissions)
       ELSE UNCHANGED validation
    /\ UNCHANGED <<phase, file, pending, view, listeners, admissions, accepts,
                   free, globalFree, sessions>>

ReceiveReload ==
    /\ phase = "running"
    /\ hangup
    /\ hangup' = FALSE
    /\ generation' = generation + 1
    /\ IF validation = None
       THEN /\ validation' = ValidateReload(generation + 1, admissions)
            /\ UNCHANGED pending
       ELSE /\ pending' = generation + 1
            /\ UNCHANGED validation
    /\ UNCHANGED <<phase, file, view, listeners, admissions, accepts, free,
                   globalFree, sessions>>

ValidationAt(step) == phase = "running" /\ validation # None /\ validation.step = step

ReadConfig ==
    /\ ValidationAt("open")
    /\ validation' = [validation EXCEPT !.step = "read", !.config = file]
    /\ UNCHANGED <<phase, file, hangup, generation, pending, view, listeners,
                   admissions, accepts, free, globalFree, sessions>>

\* parse, and the view of what was parsed, with its new ports bound.  A new
\* object starts with all its permits.
Prepare ==
    LET config == validation.config
        references == Retained(validation.admissions)
        made == {a \in Served(config) : references[a] = None}
    IN
    /\ ValidationAt("read")
    /\ config # Invalid
    /\ validation' =
          [validation EXCEPT !.step = "ready",
                             !.candidate = MakeView(config, references),
                             !.admissions = References(config, references)]
    /\ free' = [a \in Apps |->
                  IF a \in made
                  THEN [free[a] EXCEPT ![Fresh(a)] = Limit[a]]
                  ELSE free[a]]
    /\ UNCHANGED <<phase, file, hangup, generation, pending, view, listeners,
                   admissions, accepts, globalFree, sessions>>

\* parse refuses the file, a port cannot be bound, or two seconds pass.
ValidationFails ==
    /\ \/ ValidationAt("read") /\ validation.config = Invalid
       \/ /\ "validation" \in ReloadFaults
          /\ ValidationAt("open") \/ ValidationAt("read")
    /\ validation' = [validation EXCEPT !.step = "failed"]
    /\ UNCHANGED <<phase, file, hangup, generation, pending, view, listeners,
                   admissions, accepts, free, globalFree, sessions>>

\* Mutant of ActivateView: accept tasks live through the change.
ActivateBeside(candidate) ==
    /\ view' = candidate
    /\ listeners' = Bound(candidate.ports)
    /\ admissions' = validation.admissions
    /\ accepts' = [p \in Ports |->
                     IF accepts[p] # None THEN accepts[p]
                     ELSE AcceptOn(Bound(candidate.ports))[p]]

\* Every accept task is aborted, and with it a connection it had accepted.
ActivateView(candidate) ==
    /\ view' = candidate
    /\ listeners' = Bound(candidate.ports)
    /\ admissions' = validation.admissions
    /\ accepts' = AcceptOn(Bound(candidate.ports))

Superseded == validation.generation # generation

\* Only the newest request's result counts; then the pending one is begun.
FinishValidation ==
    /\ ValidationAt("ready") \/ ValidationAt("failed")
    /\ IF ~Superseded /\ validation.step = "ready"
       THEN ActivateView(validation.candidate)
       ELSE UNCHANGED <<view, listeners, admissions, accepts>>
    /\ validation' = IF pending = None
                     THEN None
                     ELSE ValidateReload(pending, admissions')
    /\ pending' = None
    /\ UNCHANGED <<phase, file, hangup, generation, free, globalFree, sessions>>

-----------------------------------------------------------------------------
(***************************************************************************)
(* Connections.                                                            *)
(***************************************************************************)

\* An accept task ends, with a connection or with an error.
AcceptEnds(p) ==
    /\ phase = "running"
    /\ accepts[p] = "waiting"
    /\ \/ accepts' = [accepts EXCEPT ![p] = "accepted"]
       \/ "accept" \in ReloadFaults /\ accepts' = [accepts EXCEPT ![p] = "failed"]
    /\ UNCHANGED <<phase, reloadVars, view, listeners, admissions, free,
                   globalFree, sessions>>

Respawn(p) == accepts' = [accepts EXCEPT ![p] = "waiting"]

\* Both permits are there and the session begins.
Dispatch(p) ==
    LET a == view.ports[p]
        k == view.admission[a]
    IN
    /\ phase = "running"
    /\ accepts[p] = "accepted"
    /\ free[a][k] > 0
    /\ globalFree > 0
    /\ Respawn(p)
    /\ free' = [free EXCEPT ![a][k] = @ - 1]
    /\ globalFree' = globalFree - 1
    /\ sessions' = [sessions EXCEPT ![a][k] = @ + 1]
    /\ UNCHANGED <<phase, reloadVars, view, listeners, admissions>>

\* Mutant of Overloaded: global_overload keeps the application's permit.
OverloadedKeeps(p) ==
    LET a == view.ports[p]
        k == view.admission[a]
    IN
    /\ phase = "running"
    /\ accepts[p] = "accepted"
    /\ free[a][k] = 0 \/ globalFree = 0
    /\ Respawn(p)
    /\ free' = IF free[a][k] > 0 THEN [free EXCEPT ![a][k] = @ - 1] ELSE free
    /\ UNCHANGED <<phase, reloadVars, view, listeners, admissions, globalFree,
                   sessions>>

\* overload, or global_overload, where the application's permit is returned.
Overloaded(p) ==
    LET a == view.ports[p]
        k == view.admission[a]
    IN
    /\ phase = "running"
    /\ accepts[p] = "accepted"
    /\ free[a][k] = 0 \/ globalFree = 0
    /\ Respawn(p)
    /\ UNCHANGED <<phase, reloadVars, view, listeners, admissions, free,
                   globalFree, sessions>>

AcceptFailed(p) ==
    /\ phase = "running"
    /\ accepts[p] = "failed"
    /\ Respawn(p)
    /\ UNCHANGED <<phase, reloadVars, view, listeners, admissions, free,
                   globalFree, sessions>>

\* forward returns: its permits and its reference to the object are dropped.
SessionEnds(a, k) ==
    /\ sessions[a][k] > 0
    /\ sessions' = [sessions EXCEPT ![a][k] = @ - 1]
    /\ free' = [free EXCEPT ![a][k] = @ + 1]
    /\ globalFree' = globalFree + 1
    /\ UNCHANGED <<phase, reloadVars, view, listeners, admissions, accepts>>

-----------------------------------------------------------------------------
(***************************************************************************)
(* SIGTERM.  The select takes it before anything else that is ready.       *)
(***************************************************************************)
Terminate ==
    /\ "terminate" \in ReloadFaults
    /\ phase = "running"
    /\ phase' = "draining"
    /\ validation' = None
    /\ accepts' = AcceptOn({})
    /\ listeners' = {}
    /\ UNCHANGED <<file, hangup, generation, pending, view, admissions, free,
                   globalFree, sessions>>

Total(count) == SumFunction([a \in Apps |-> SumFunction(count[a])])

Drained ==
    /\ phase = "draining"
    /\ Total(sessions) = 0
    /\ phase' = "stopped"
    /\ UNCHANGED <<reloadVars, view, listeners, admissions, accepts, free,
                   globalFree, sessions>>

\* Mutant of DrainExpires: sessions are waited for without end.
DrainWaits == FALSE /\ UNCHANGED vars

\* The grace period is over: the sessions left are aborted.
DrainExpires ==
    /\ phase = "draining"
    /\ Total(sessions) > 0
    /\ phase' = "stopped"
    /\ sessions' = [a \in Apps |-> [k \in Objects |-> 0]]
    /\ free' = [a \in Apps |-> [k \in Objects |-> free[a][k] + sessions[a][k]]]
    /\ globalFree' = globalFree + Total(sessions)
    /\ UNCHANGED <<reloadVars, view, listeners, admissions, accepts>>

ReloadStep ==
    \/ ReceiveReload
    \/ ReadConfig
    \/ Prepare
    \/ ValidationFails
    \/ FinishValidation

Drain == Drained \/ DrainExpires

ReloadNext ==
    \/ \E contents \in Configs \cup {Invalid} : RequestReload(contents)
    \/ ReloadStep
    \/ \E p \in Ports :
          AcceptEnds(p) \/ Dispatch(p) \/ Overloaded(p) \/ AcceptFailed(p)
    \/ \E a \in Apps, k \in Objects : SessionEnds(a, k)
    \/ Terminate
    \/ Drain

ReloadSpec == ReloadInit /\ [][ReloadNext]_vars

\* Signals and validations come before accepted connections in the biased
\* select, a validation has two seconds, and so has the drain its grace.
FairReloadSpec ==
    /\ ReloadSpec
    /\ WF_vars(ReloadStep)
    /\ WF_vars(Drain)

-----------------------------------------------------------------------------
(***************************************************************************)
(* Properties.                                                             *)
(***************************************************************************)

\* The sessions of an application never exceed its limit, although old ones
\* live on under earlier configurations and the application may have been
\* removed and put back meanwhile; nor do all sessions exceed the ceiling.
LimitsHold ==
    /\ \A a \in Apps : SumFunction(sessions[a]) <= Limit[a]
    /\ Total(sessions) <= GlobalLimit

\* No permit is lost: an application refuses a connection only for sessions
\* that it really has, or that all applications together have.
PermitsReturn ==
    /\ \A a \in Apps, k \in Objects :
          Alive(a, k) => free[a][k] + sessions[a][k] = Limit[a]
    /\ globalFree + Total(sessions) = GlobalLimit

\* connect runs in the task of a session: whenever there is one, it finds a
\* backend that would accept, whatever the targets before it do, within the
\* deadline (FallbackReaches).
SessionsConnect ==
    (\E a \in Apps, k \in Objects : sessions[a][k] > 0) => FallbackReaches

\* A running proxy has one accept task on each port of the active view and
\* none on any other: listeners[&port] and view.ports[&port] never panic and
\* no port goes deaf, at whatever moment a reload takes effect.
OneAcceptPerPort ==
    phase = "running" =>
        \A p \in Ports :
            /\ accepts[p] # None <=> p \in listeners
            /\ p \in listeners <=> view.ports[p] # None

\* The last file that was announced by SIGHUP becomes the active view if it
\* is good, unless the validation of that very request runs out of time or
\* cannot bind a port; requests and validations of other files may overlap it
\* in every way.  And validations come to an end.
ReloadArrives ==
    /\ \A config \in Configs :
          (hangup /\ file = config) ~>
              \/ view.ports = config
              \/ file # config
              \/ phase # "running"
              \/ ValidationAt("failed") /\ ~Superseded
    /\ []<>(validation = None)

\* After SIGTERM the proxy stops, and every session has ended by then.
DrainEnds ==
    /\ phase = "draining" ~> phase = "stopped"
    /\ [](phase = "stopped" => Total(sessions) = 0 /\ globalFree = GlobalLimit)
=============================================================================
