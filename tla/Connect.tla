------------------------------- MODULE Connect --------------------------------
(***************************************************************************)
(* How the proxy finds a backend for a connection: connect, connect_target *)
(* and connect_address of proxy/src/main.rs as functions of what the       *)
(* network answers and when.  Time counts from the call of connect.        *)
(*                                                                         *)
(* A target that is a literal address is a name whose lookup takes no time *)
(* and finds that address.                                                 *)
(***************************************************************************)
EXTENDS Integers, Sequences, Functions

CONSTANTS
    target_ms,      \* the time for one target
    connect_ms,     \* the time for all
    AddressLimit,   \* addresses of a name that are tried (16)
    TargetLists     \* the targets of an application, with their answers

\* What becomes of a lookup or a connection attempt, and after how long.
Peer == [answer : {"accepts", "refuses", "silent"}, after : Nat]

Target == [lookup : Peer, addresses : Seq(Peer)]

\* An application has at least one target.
ASSUME ConnectAssumption ==
    /\ target_ms \in Nat \ {0}
    /\ connect_ms \in Nat \ {0}
    /\ AddressLimit \in Nat \ {0}
    /\ TargetLists \subseteq Seq(Target) \ {<<>>}

Accepts(after) == [answer |-> "accepts", after |-> after]
Refuses(after) == [answer |-> "refuses", after |-> after]
Silent == [answer |-> "silent", after |-> 0]

Earlier(s, t) == IF s <= t THEN s ELSE t

\* timeout_at: an answer at the deadline still counts.
Await(peer, now, until) ==
    IF peer.answer # "silent" /\ now + peer.after <= until
    THEN [stream |-> peer.answer = "accepts", at |-> now + peer.after]
    ELSE [stream |-> FALSE, at |-> until]

\* One after the other from the first on, until there is a stream or no time:
\* try[item][at] is what comes of an item that is tried at a time.
InTurn(try, items, now, until) ==
    LET after[k \in 0 .. Len(items)] ==
            IF k = 0
            THEN [stream |-> FALSE, at |-> now]
            ELSE IF k > 1 /\ (after[k - 1].stream \/ after[k - 1].at >= until)
            THEN after[k - 1]
            ELSE try[items[k]][after[k - 1].at]
    IN after[Len(items)]

Tried(addresses) == SubSeq(addresses, 1, Earlier(Len(addresses), AddressLimit))

ConnectTarget(target, now, until) ==
    LET found == Await(target.lookup, now, until) IN
    IF found.stream
    THEN InTurn([address \in Range(target.addresses) |->
                    [at \in Nat |-> Await(address, at, until)]],
                Tried(target.addresses), found.at, until)
    ELSE found

\* Each connection begins with the target after the last one's first.
Rotated(targets, next) ==
    [offset \in DOMAIN targets |->
        targets[((next + offset - 1) % Len(targets)) + 1]]

\* Mutant of Until: a target may take all the time there is.
UntilDeadline(now) == connect_ms

Until(now) == Earlier(connect_ms, now + target_ms)

Connect(targets, next) ==
    InTurn([target \in Range(targets) |->
                [at \in Nat |-> ConnectTarget(target, at, Until(at))]],
           Rotated(targets, next), 0, connect_ms)

-----------------------------------------------------------------------------
\* What a target takes when it is tried alone and nobody looks at the clock.
Duration(target, k) ==
    target.lookup.after
    + SumFunctionOnSet([j \in 1 .. k |-> target.addresses[j].after], 1 .. k)

Healthy(target, allowed) ==
    /\ target.lookup.answer = "accepts"
    /\ \E k \in DOMAIN Tried(target.addresses) :
          /\ target.addresses[k].answer = "accepts"
          /\ \A j \in 1 .. k - 1 : target.addresses[j].answer = "refuses"
          /\ Duration(target, k) < allowed

CouldAccept(target) ==
    \E k \in DOMAIN target.addresses : target.addresses[k].answer = "accepts"

\* A backend that would accept in its own time is found, whatever those before
\* it do, as long as the whole leaves each of them its full time; connect is
\* back by its deadline, and never with a stream nobody accepted.
FallbackReaches ==
    \A targets \in TargetLists : \A next \in 0 .. 2 * Len(targets) - 1 :
        LET outcome == Connect(targets, next)
            order == Rotated(targets, next)
        IN
        /\ outcome.at <= connect_ms
        /\ outcome.stream => \E p \in DOMAIN order : CouldAccept(order[p])
        /\ (\E p \in DOMAIN order :
                Healthy(order[p],
                        Earlier(target_ms, connect_ms - (p - 1) * target_ms)))
           => outcome.stream
=============================================================================
