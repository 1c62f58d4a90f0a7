---------------------------- MODULE MCProxyReload ---------------------------
(***************************************************************************)
(* Small instances of ProxyReload: two applications and two ports, and     *)
(* configurations that take an application away, bring it back, give it a  *)
(* second port and give a port to the other application.  The targets      *)
(* that its sessions connect to are addresses or names, each               *)
(* with every mix of fast, slow and missing answers.                       *)
(***************************************************************************)
EXTENDS ProxyReload

CONSTANTS echo, store, p1, p2

Config(first, second) == [p \in Ports |-> IF p = p1 THEN first ELSE second]

MCConfigs == {Config(echo, None), Config(echo, echo), Config(store, None)}

MCLimit == [x \in Apps |-> 2]

MCPeers == {Accepts(t) : t \in 0 .. 3} \cup {Refuses(0), Refuses(1), Silent}

MCAddress(peer) == [lookup |-> Accepts(0), addresses |-> <<peer>>]

\* Names with up to AddressLimit + 1 addresses that fail before the last one.
MCFound ==
    {<<>>}
    \cup {<<p>> : p \in MCPeers}
    \cup {<<p, q>> : p \in {Refuses(0), Refuses(1), Silent}, q \in MCPeers}
    \cup {<<Refuses(0), Refuses(0), Accepts(0)>>}

MCTargets ==
    {MCAddress(peer) : peer \in MCPeers}
    \cup {[lookup |-> Accepts(1), addresses |-> found] : found \in MCFound}
    \cup {[lookup |-> peer, addresses |-> <<Accepts(0)>>] : peer \in {Refuses(1), Silent}}

MCTargetLists ==
    {<<s>> : s \in MCTargets}
    \cup {<<s, t>> : s, t \in MCTargets}
    \cup {<<s, t, u>> : s \in {MCAddress(Silent), MCAddress(Refuses(1))}, t, u \in MCTargets}
=============================================================================
