--------------------------- MODULE ConnectionSlots ---------------------------
(***************************************************************************)
(* What the admission controller promises the rest of the daemon: a        *)
(* connection that holds an AdmissionGuard counts against three caps, and  *)
(* a guard is granted only where all three leave room.  Rate limits, bans  *)
(* and the clean-up of entries only make it refuse more.                   *)
(***************************************************************************)
EXTENDS Integers, FiniteSets

CONSTANTS
    Ips,            \* peer addresses
    Subnets,        \* keys of per_subnet
    subnet_key,     \* the /24 or /64 of an address, a function
    Conns,          \* connection slots, each holding at most one guard
    NoGuard,        \* a slot without a guard
    MaxGlobal,      \* max_unauth_connections_global
    MaxPerIp,       \* max_unauth_connections_per_ip
    MaxPerSubnet    \* max_unauth_connections_per_subnet

VARIABLE guard      \* guard[c]: the address c's AdmissionGuard was granted to

ASSUME SlotConstants ==
    /\ IsFiniteSet(Conns)
    /\ subnet_key \in [Ips -> Subnets]
    /\ NoGuard \notin Ips
    /\ {MaxGlobal, MaxPerIp, MaxPerSubnet} \subseteq Nat

\* The connections that hold a guard: all, those of an address, of a subnet.
Holders == {c \in Conns : guard[c] # NoGuard}
HoldersOf(ip) == {c \in Conns : guard[c] = ip}
HoldersIn(s) == {c \in Holders : subnet_key[guard[c]] = s}

\* The per-address check is skipped for an address without an entry, so a cap of 0
\* still admits one connection.
PerIpLimit == IF MaxPerIp = 0 THEN 1 ELSE MaxPerIp

-----------------------------------------------------------------------------
SlotsInit == guard = [c \in Conns |-> NoGuard]

Acquire(c, ip) ==
    /\ guard[c] = NoGuard
    /\ Cardinality(Holders) < MaxGlobal
    /\ Cardinality(HoldersOf(ip)) < PerIpLimit
    /\ Cardinality(HoldersIn(subnet_key[ip])) < MaxPerSubnet
    /\ guard' = [guard EXCEPT ![c] = ip]

Release(c) ==
    /\ guard[c] # NoGuard
    /\ guard' = [guard EXCEPT ![c] = NoGuard]

SlotsNext ==
    \/ \E c \in Conns, ip \in Ips : Acquire(c, ip)
    \/ \E c \in Conns : Release(c)

\* What the controller promises: guards are granted within the caps and given back.
SlotsSpec == SlotsInit /\ [][SlotsNext]_guard

-----------------------------------------------------------------------------
\* The live unauthenticated connections never exceed a cap (admission.rs:190-208).
CapsRespected ==
    /\ Cardinality(Holders) <= MaxGlobal
    /\ \A s \in Subnets : Cardinality(HoldersIn(s)) <= MaxPerSubnet
    /\ \A ip \in Ips : Cardinality(HoldersOf(ip)) <= PerIpLimit
=============================================================================
