------------------------------ MODULE Admission ------------------------------
(***************************************************************************)
(* The admission controller of src/admission.rs: caps on unauthenticated   *)
(* connections (global, per address, per subnet), a token bucket per       *)
(* address, and temporary bans after repeated authentication failures.     *)
(*                                                                         *)
(* The controller is one record behind one mutex, so the code's methods    *)
(* are operators from a state to a state and every action applies one of   *)
(* them whole.  The daemon runs them on a single-threaded runtime: the     *)
(* instants they are given never decrease.  The clock counts ticks, Minute *)
(* of them to 60 seconds; a token is Minute units, so that the refill of   *)
(* PerMinute tokens per minute is PerMinute units per tick.                *)
(***************************************************************************)
EXTENDS ConnectionSlots, Sequences

CONSTANTS
    NoPeer,         \* an address without an entry in per_peer
    PerMinute,      \* new_connections_per_minute_per_ip
    Burst,          \* new_connections_burst_per_ip
    BanThreshold,   \* auth_failure_ban_threshold
    BanWindow,      \* auth_failure_ban_window, in ticks
    BanDuration,    \* auth_failure_ban_duration, in ticks
    Minute,         \* ticks per minute, and PEER_SWEEP_INTERVAL
    MaxTime         \* bound on the clock

VARIABLES
    now,        \* the clock
    admission,  \* AdmissionState
    banned_at,  \* history: when the last ban of an address was issued, or Never
    failed_at   \* history: its failures since, those the window still covers

vars == <<now, admission, guard, banned_at, failed_at>>

Never == -1

-----------------------------------------------------------------------------
\* PeerState.  opened and granted are history: when the entry was created and
\* how many connections its bucket has let through.
PeerState ==
    [unauthenticated_connections : Nat,
     auth_failures : Seq(Nat),
     banned_until : Nat \cup {Never},
     tokens : Nat,
     last_refill : Nat,
     opened : Nat,
     granted : Nat]

ASSUME AdmissionConstants ==
    /\ NoPeer \notin PeerState
    /\ {PerMinute, Burst, BanThreshold, BanWindow, BanDuration, MaxTime} \subseteq Nat
    /\ Minute \in Nat \ {0}

PeerStateNew(t) ==
    [unauthenticated_connections |-> 0,
     auth_failures |-> <<>>,
     banned_until |-> Never,
     tokens |-> Burst * Minute,
     last_refill |-> t,
     opened |-> t,
     granted |-> 0]

IsBanned(peer, t) == peer.banned_until # Never /\ peer.banned_until > t

\* The index of the first value prune_before keeps.
FirstKept(values, oldest) ==
    CHOOSE i \in 1 .. Len(values) + 1 :
        /\ \A j \in 1 .. i - 1 : values[j] < oldest
        /\ i <= Len(values) => values[i] >= oldest

PruneBefore(values, oldest) ==
    SubSeq(values, FirstKept(values, oldest), Len(values))

RefreshTransientState(peer, t) ==
    [peer EXCEPT
        !.banned_until = IF @ # Never /\ @ <= t THEN Never ELSE @,
        !.auth_failures = PruneBefore(@, t - BanWindow)]

\* Mutants of CanBeRemoved: the live connections, or a ban, no longer keep it.
CanBeRemovedWhileConnected(peer) ==
    peer.banned_until = Never /\ peer.auth_failures = <<>>

CanBeRemovedWhileBanned(peer) ==
    peer.unauthenticated_connections = 0 /\ peer.auth_failures = <<>>

CanBeRemoved(peer) ==
    /\ peer.unauthenticated_connections = 0
    /\ peer.banned_until = Never
    /\ peer.auth_failures = <<>>

\* A sweep or a clean-up of one address: the entry refreshed, and then removed
\* when nothing in it matters any more.
Retained(peer, t) ==
    IF peer = NoPeer THEN NoPeer
    ELSE LET fresh == RefreshTransientState(peer, t)
         IN  IF CanBeRemoved(fresh) THEN NoPeer ELSE fresh

\* A mutant: the refill forgets to record its instant.
RefillAgain(peer, t) ==
    LET filled == peer.tokens + (t - peer.last_refill) * PerMinute
    IN  [peer EXCEPT !.tokens =
            IF filled <= Burst * Minute THEN filled ELSE Burst * Minute]

Refill(peer, t) ==
    LET filled == peer.tokens + (t - peer.last_refill) * PerMinute
    IN  [peer EXCEPT
            !.tokens = IF filled <= Burst * Minute THEN filled ELSE Burst * Minute,
            !.last_refill = t]

-----------------------------------------------------------------------------
\* AdmissionState.  In the code's maps an address without an entry is NoPeer here,
\* and a subnet without an entry has the default count 0.
AdmissionState ==
    [unauthenticated_connections : Nat,
     per_subnet : [Subnets -> Nat],
     per_peer : [Ips -> PeerState \cup {NoPeer}],
     last_peer_sweep : Nat]

AdmissionStateNew ==
    [unauthenticated_connections |-> 0,
     per_subnet |-> [s \in Subnets |-> 0],
     per_peer |-> [ip \in Ips |-> NoPeer],
     last_peer_sweep |-> 0]

MaybeCleanupPeers(st, t) ==
    IF t - st.last_peer_sweep < Minute THEN st
    ELSE [st EXCEPT !.per_peer = [ip \in Ips |-> Retained(st.per_peer[ip], t)],
                    !.last_peer_sweep = t]

CleanupPeer(st, ip, t) ==
    [st EXCEPT !.per_peer[ip] = Retained(@, t)]

\* What every call that concerns an address starts with.
Cleaned(st, ip, t) == CleanupPeer(MaybeCleanupPeers(st, t), ip, t)

\* entry(ip).or_insert_with(PeerState::new)
PeerEntry(st, ip, t) ==
    IF st.per_peer[ip] = NoPeer THEN PeerStateNew(t) ELSE st.per_peer[ip]

\* A mutant: the cap of a subnet is off by one and an address has none.
VerdictOneMore(st, ip, t) ==
    IF st.unauthenticated_connections >= MaxGlobal
    THEN "TooManyUnauthenticatedConnections"
    ELSE IF st.per_subnet[subnet_key[ip]] > MaxPerSubnet
         THEN "TooManyUnauthenticatedConnectionsForSubnet"
    ELSE IF Refill(PeerEntry(st, ip, t), t).tokens < Minute
         THEN "ConnectionRateLimited"
    ELSE "Admit"

\* The checks of try_acquire in the code's order.  "Admit" stands for Ok(()).
Verdict(st, ip, t) ==
    LET known == st.per_peer[ip] # NoPeer
    IN  IF known /\ IsBanned(st.per_peer[ip], t) THEN "TemporarilyBanned"
        ELSE IF st.unauthenticated_connections >= MaxGlobal
             THEN "TooManyUnauthenticatedConnections"
        ELSE IF known /\ st.per_peer[ip].unauthenticated_connections >= MaxPerIp
             THEN "TooManyUnauthenticatedConnectionsForIp"
        ELSE IF st.per_subnet[subnet_key[ip]] >= MaxPerSubnet
             THEN "TooManyUnauthenticatedConnectionsForSubnet"
        ELSE IF Refill(PeerEntry(st, ip, t), t).tokens < Minute
             THEN "ConnectionRateLimited"
        ELSE "Admit"

\* The state try_acquire leaves: only the bucket's verdict touches the entry.
Admitted(st, ip, t) ==
    LET peer == Refill(PeerEntry(st, ip, t), t)
        more == [peer EXCEPT !.tokens = @ - Minute,
                             !.granted = @ + 1,
                             !.unauthenticated_connections = @ + 1]
    IN  [st EXCEPT !.unauthenticated_connections = @ + 1,
                   !.per_subnet[subnet_key[ip]] = @ + 1,
                   !.per_peer[ip] = more]

Refused(st, ip, t) ==
    IF Verdict(st, ip, t) # "ConnectionRateLimited" THEN st
    ELSE [st EXCEPT !.per_peer[ip] = Refill(PeerEntry(st, ip, t), t)]

\* record_auth_failure: the failures that count now, and the state it leaves.
FailuresWith(st, ip, t) ==
    Append(PruneBefore(PeerEntry(st, ip, t).auth_failures, t - BanWindow), t)

\* Mutants: the threshold is exceeded rather than reached; a ban leaves the failures
\* that earned it in the entry.
FailureBansLate(st, ip, t) == Len(FailuresWith(st, ip, t)) > BanThreshold

FailureRecordedUncleared(st, ip, t) ==
    LET failures == FailuresWith(st, ip, t)
        until == IF Len(failures) >= BanThreshold THEN t + BanDuration
                 ELSE PeerEntry(st, ip, t).banned_until
    IN  [st EXCEPT !.per_peer[ip] =
            [PeerEntry(st, ip, t) EXCEPT !.auth_failures = failures,
                                         !.banned_until = until]]

FailureBans(st, ip, t) == Len(FailuresWith(st, ip, t)) >= BanThreshold

FailureRecorded(st, ip, t) ==
    LET peer == PeerEntry(st, ip, t)
        failed == IF FailureBans(st, ip, t)
                  THEN [peer EXCEPT !.auth_failures = <<>>,
                                    !.banned_until = t + BanDuration]
                  ELSE [peer EXCEPT !.auth_failures = FailuresWith(st, ip, t)]
    IN  [st EXCEPT !.per_peer[ip] = failed]

Decremented(count) == IF count > 0 THEN count - 1 ELSE count

Released(st, ip, t) ==
    LET swept == MaybeCleanupPeers(st, t)
        peer == swept.per_peer[ip]
        less == IF peer = NoPeer THEN NoPeer
                ELSE [peer EXCEPT !.unauthenticated_connections = Decremented(@)]
        fewer == [swept EXCEPT !.unauthenticated_connections = Decremented(@),
                               !.per_subnet[subnet_key[ip]] = Decremented(@),
                               !.per_peer[ip] = less]
    IN  CleanupPeer(fewer, ip, t)

\* A mutant: the guard does not remember that it was released.
GuardReleaseAlways(held, t) ==
    [held EXCEPT !.admission = Released(held.admission, held.peer_ip, t)]

\* AdmissionGuard::release, which acts at most once: mark_authenticated calls it
\* and the guard it consumed calls it again when it is dropped.
GuardRelease(held, t) ==
    IF held.released THEN held
    ELSE [held EXCEPT !.admission = Released(held.admission, held.peer_ip, t),
                      !.released = TRUE]

Held(c) == [admission |-> admission, peer_ip |-> guard[c], released |-> FALSE]

-----------------------------------------------------------------------------
Init ==
    /\ now = 0
    /\ admission = AdmissionStateNew
    /\ guard = [c \in Conns |-> NoGuard]
    /\ banned_at = [ip \in Ips |-> Never]
    /\ failed_at = [ip \in Ips |-> <<>>]

Tick ==
    /\ now < MaxTime
    /\ now' = now + 1
    /\ failed_at' = [ip \in Ips |-> PruneBefore(failed_at[ip], now + 1 - BanWindow)]
    /\ UNCHANGED <<admission, guard, banned_at>>

\* AdmissionController::try_acquire, by the task of a new connection c.
TryAcquireOk(c, ip) ==
    LET st == Cleaned(admission, ip, now)
    IN  /\ guard[c] = NoGuard
        /\ Verdict(st, ip, now) = "Admit"
        /\ admission' = Admitted(st, ip, now)
        /\ guard' = [guard EXCEPT ![c] = ip]
        /\ UNCHANGED <<now, banned_at, failed_at>>

TryAcquireErr(ip) ==
    LET st == Cleaned(admission, ip, now)
    IN  /\ Verdict(st, ip, now) # "Admit"
        /\ admission' = Refused(st, ip, now)
        /\ UNCHANGED <<now, guard, banned_at, failed_at>>

\* AdmissionController::record_auth_failure, by a connection that still holds its
\* guard: the SSH layer asks for authentication only until it succeeds.
RecordAuthFailure(c) ==
    /\ guard[c] # NoGuard
    /\ LET ip == guard[c]
           st == Cleaned(admission, ip, now)
           bans == FailureBans(st, ip, now)
       IN  /\ admission' = FailureRecorded(st, ip, now)
           /\ banned_at' = [banned_at EXCEPT ![ip] = IF bans THEN now ELSE @]
           /\ failed_at' = [failed_at EXCEPT ![ip] =
                                IF bans THEN <<>> ELSE Append(@, now)]
    /\ UNCHANGED <<now, guard>>

\* AdmissionGuard::mark_authenticated
MarkAuthenticated(c) ==
    /\ guard[c] # NoGuard
    /\ admission' = GuardRelease(GuardRelease(Held(c), now), now).admission
    /\ guard' = [guard EXCEPT ![c] = NoGuard]
    /\ UNCHANGED <<now, banned_at, failed_at>>

\* Drop for AdmissionGuard, when an unauthenticated connection ends.
DropGuard(c) ==
    /\ guard[c] # NoGuard
    /\ admission' = GuardRelease(Held(c), now).admission
    /\ guard' = [guard EXCEPT ![c] = NoGuard]
    /\ UNCHANGED <<now, banned_at, failed_at>>

Next ==
    \/ Tick
    \/ \E c \in Conns, ip \in Ips : TryAcquireOk(c, ip)
    \/ \E ip \in Ips : TryAcquireErr(ip)
    \/ \E c \in Conns : RecordAuthFailure(c)
    \/ \E c \in Conns : MarkAuthenticated(c)
    \/ \E c \in Conns : DropGuard(c)

Spec == Init /\ [][Next]_vars

-----------------------------------------------------------------------------
PeerCount(st, ip) ==
    IF st.per_peer[ip] = NoPeer THEN 0
    ELSE st.per_peer[ip].unauthenticated_connections

\* Every variable of the controller keeps its type.
TypeOK ==
    /\ now \in Nat
    /\ admission \in AdmissionState
    /\ guard \in [Conns -> Ips \cup {NoGuard}]
    /\ banned_at \in [Ips -> Nat \cup {Never}]
    /\ failed_at \in [Ips -> Seq(Nat)]

\* The three counters of AdmissionState are exactly the guards that live: no slot
\* leaks when an entry is swept, none is returned twice, and the saturating
\* decrements of release never hide a missing count (admission.rs:248-269).
SlotsMatchGuards ==
    /\ admission.unauthenticated_connections = Cardinality(Holders)
    /\ \A s \in Subnets : admission.per_subnet[s] = Cardinality(HoldersIn(s))
    /\ \A ip \in Ips : PeerCount(admission, ip) = Cardinality(HoldersOf(ip))

\* No connection is admitted from an address whose last ban was issued less than
\* BanDuration ago, whatever was swept, released or failed in between.
BanHolds ==
    [][\A c \in Conns :
          guard[c] = NoGuard /\ guard'[c] # NoGuard =>
              \/ banned_at[guard'[c]] = Never
              \/ now >= banned_at[guard'[c]] + BanDuration]_vars

\* An address never collects BanThreshold failures within the window unbanned:
\* cleaning up its entry forgets no failure that still counts.
EnoughFailuresBan ==
    \A ip \in Ips : BanThreshold > 0 => Len(failed_at[ip]) < BanThreshold

\* A ban is issued only at the BanThreshold-th failure of the window.
BanIsEarned ==
    [][\A ip \in Ips :
          banned_at'[ip] # banned_at[ip] => Len(failed_at[ip]) + 1 >= BanThreshold]_vars

\* While an address keeps its entry, the connections granted to it stay within
\* Burst plus PerMinute per elapsed minute (TokenBucket, admission.rs:333-366).
RateBoundWhileTracked ==
    \A ip \in Ips :
        LET peer == admission.per_peer[ip]
        IN  peer # NoPeer => peer.tokens + peer.granted * Minute
              <= Burst * Minute + (peer.last_refill - peer.opened) * PerMinute

=============================================================================
