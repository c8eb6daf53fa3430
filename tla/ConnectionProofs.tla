-------------------------- MODULE ConnectionProofs --------------------------
(***************************************************************************)
(* Theorems about the connections being served, for any number of them and *)
(* any timeouts: who holds a slot, when a stalled client is gone, what is  *)
(* called a timeout, and what the counters count.                          *)
(***************************************************************************)
EXTENDS Connection, TLAPS, FiniteSetTheorems

\* Connection c still counts against the caps.
Unauthenticated(s) == Streaming(s) /\ ~s.authenticated

\* Where the two tasks of a connection can be together, and what has been said of it.
TasksAgree(s) ==
    /\ DOMAIN s = DOMAIN ConnIdle
    /\ s.serve \in {"idle", "handshake", "select", "await_running", "done"}
    /\ s.recorded \in Categories \cup {"none"}
    /\ s.serve \in {"idle", "handshake"} => s.session = "none" /\ s.result = "pending"
    /\ s.session = "running" => s.serve \in {"select", "await_running"} /\ s.result = "pending"
    /\ s.session = "none" => ~s.authenticated
    /\ s.serve # "done" => s.recorded = "none"
    /\ s.result \in Timeouts \/ s.recorded \in Timeouts => ~s.authenticated

\* The stream's timer is armed for its next deadline.
TimerInv(s) ==
    /\ s.accepted_at \in Nat /\ s.timer \in Nat
    /\ s.kex_start_deadline \in Nat \cup {NoTime}
    /\ s.kex_start_deadline # NoTime => ~s.kex_started
    /\ ~s.client_banner_complete => ~s.kex_started /\ s.kex_start_deadline = NoTime
    /\ s.serve = "idle" => ~s.client_banner_complete
    /\ Unauthenticated(s) => s.timer = CurrentDeadline(s)

\* No deadline of a connection is over while it is being served.
OnTime(s, t) ==
    /\ Unauthenticated(s) => t <= s.timer
    /\ s.serve = "handshake" => t <= s.accepted_at + BannerTimeout

ConnInv ==
    /\ now \in Nat
    /\ guard \in [Conns -> Ips \cup {NoGuard}]
    /\ DOMAIN conn = Conns
    /\ \A c \in Conns :
          /\ TasksAgree(conn[c]) /\ TimerInv(conn[c]) /\ OnTime(conn[c], now)
          /\ guard[c] # NoGuard <=> Unauthenticated(conn[c])

\* The connections the timeout counter is about.
TimedOut == {c \in Conns : conn[c].recorded \in Timeouts \cup {"banner-timeout"}}

\* The counters of record m agree with what has been recorded of the connections.
CountsRecorded(m) ==
    /\ \A r \in Categories : m.rejected_connections_by_reason[r] = Cardinality(RecordedUnder(r))
    /\ m.preauth_timeouts = Cardinality(TimedOut)
    /\ m.malformed_packet_disconnects = Cardinality(RecordedUnder("malformed-disconnect"))

CountInv ==
    /\ metrics.current_unauthenticated_connections = Cardinality(Holders)
    /\ CountsRecorded(metrics)

\* The counted addresses have all their failures in the table; while it has room, the
\* others have none.
TableInv ==
    /\ IsFiniteSet(FailureIps(metrics))
    /\ Cardinality(FailureIps(metrics)) <= MaxFailureIps
    /\ \A ip \in FailureIps(metrics) : metrics.auth_failures_by_ip[ip] = failures[ip]
    /\ Cardinality(FailureIps(metrics)) < MaxFailureIps =>
          \A ip \in Ips \ FailureIps(metrics) : failures[ip] = 0

Metrics ==
    [current_unauthenticated_connections : Nat,
     rejected_connections_by_reason : [Categories -> Nat],
     preauth_timeouts : Nat, malformed_packet_disconnects : Nat,
     auth_failures_by_ip : [Ips -> Nat], auth_failure_ip_overflow : Nat,
     temporary_bans_issued : Nat]

MetricsType == metrics \in Metrics /\ failures \in [Ips -> Nat]

IInv == ConnInv /\ MetricsType /\ CountInv /\ TableInv

-----------------------------------------------------------------------------
LEMMA Constants ==
    /\ IsFiniteSet(Conns) /\ NoGuard \notin Ips
    /\ LoginGrace \in Nat /\ BannerTimeout \in Nat /\ KexTimeout \in Nat
    /\ MaxFailureIps \in Nat
BY SlotConstants, ConnectionConstants

\* The sets of connections that are counted are finite.
LEMMA ConnSets ==
    \A T : T \subseteq Conns => IsFiniteSet(T) /\ Cardinality(T) \in Nat
BY Constants, FS_Subset, FS_CardinalityType

LEMMA InitIInv == Init => IInv
<1> SUFFICES ASSUME Init PROVE IInv
  OBVIOUS
<1> USE Constants
<1>1. ConnInv
  BY DEF Init, SlotsInit, ConnInv, ConnIdle, TasksAgree, TimerInv, OnTime, Unauthenticated,
         Streaming, NoTime, Timeouts
<1>2. MetricsType
  BY DEF Init, MetricsNew, Metrics, MetricsType
<1>3. CountInv
  <2>1. Holders = {} /\ TimedOut = {} /\ \A r \in Categories : RecordedUnder(r) = {}
    BY DEF Init, SlotsInit, ConnIdle, Holders, TimedOut, RecordedUnder, Categories, Timeouts
  <2>2. "malformed-disconnect" \in Categories
    BY DEF Categories
  <2> QED
    BY <2>1, <2>2, FS_EmptySet, Zenon DEF Init, MetricsNew, CountInv, CountsRecorded
<1>4. TableInv
  <2>1. FailureIps(metrics) = {}
    BY DEF Init, MetricsNew, FailureIps
  <2>2. Cardinality({}) = 0 /\ IsFiniteSet({})
    BY FS_EmptySet
  <2> QED
    BY <2>1, <2>2 DEF Init, TableInv
<1> QED
  BY <1>1, <1>2, <1>3, <1>4 DEF IInv

-----------------------------------------------------------------------------
\* A step of one connection keeps ConnInv if what it leaves of that connection does.
LEMMA OneConnection ==
    ASSUME ConnInv, NEW c \in Conns, NEW s, NEW g \in Ips \cup {NoGuard},
           conn' = [conn EXCEPT ![c] = s], guard' = [guard EXCEPT ![c] = g], now' = now,
           TasksAgree(s), TimerInv(s), OnTime(s, now),
           g # NoGuard <=> Unauthenticated(s)
    PROVE  ConnInv'
<1>1. DOMAIN conn' = Conns /\ guard' \in [Conns -> Ips \cup {NoGuard}]
  BY DEF ConnInv
<1>2. conn'[c] = s /\ guard'[c] = g
  BY DEF ConnInv
<1>3. \A d \in Conns : d # c => conn'[d] = conn[d] /\ guard'[d] = guard[d]
  BY DEF ConnInv
<1>4. ASSUME NEW d \in Conns
      PROVE  /\ TasksAgree(conn'[d]) /\ TimerInv(conn'[d]) /\ OnTime(conn'[d], now')
             /\ guard'[d] # NoGuard <=> Unauthenticated(conn'[d])
  <2>1. CASE d = c
    BY <1>2, <2>1
  <2>2. CASE d # c
    BY <1>3, <2>2 DEF ConnInv
  <2> QED
    BY <2>1, <2>2
<1> QED
  BY <1>1, <1>4 DEF ConnInv

\* What a read of client bytes leaves of an unauthenticated connection.
LEMMA BytesNoted ==
    ASSUME NEW s, NEW chunk \in Chunks, NEW t \in Nat,
           TasksAgree(s), TimerInv(s), OnTime(s, t), Unauthenticated(s)
    PROVE  LET n == NoteClientBytes(s, chunk, t) IN
           /\ TasksAgree(n) /\ TimerInv(n) /\ OnTime(n, t)
           /\ n.serve = s.serve /\ n.session = s.session /\ n.result = s.result
           /\ n.authenticated = s.authenticated /\ n.accepted_at = s.accepted_at
           /\ n.recorded = s.recorded
<1> USE Constants
<1>1. CASE ~s.client_banner_complete /\ chunk = "more"
  BY <1>1 DEF NoteClientBytes, Unauthenticated
<1>2. CASE ~s.client_banner_complete /\ chunk # "more"
  <2> DEFINE n == NoteClientBytes(s, chunk, t)
  <2>1. n = ResetTimer([s EXCEPT !.client_banner_complete = TRUE,
                                 !.kex_start_deadline = t + KexTimeout])
    BY <1>2 DEF NoteClientBytes, Unauthenticated
  <2>2. /\ DOMAIN n = DOMAIN ConnIdle /\ n.serve = s.serve /\ n.session = s.session
        /\ n.result = s.result /\ n.recorded = s.recorded
        /\ n.authenticated = s.authenticated /\ n.accepted_at = s.accepted_at
        /\ n.kex_started = s.kex_started /\ n.kex_start_deadline = t + KexTimeout
        /\ n.client_banner_complete = TRUE
    BY <2>1 DEF ResetTimer, TasksAgree, ConnIdle
  <2>3. n.timer = CurrentDeadline(n)
    BY <2>1 DEF ResetTimer, TasksAgree, ConnIdle, CurrentDeadline, LoginDeadline
  <2> HIDE DEF n
  <2>4. t <= LoginDeadline(s) /\ LoginDeadline(s) = LoginDeadline(n) /\ LoginDeadline(n) \in Nat
    BY <2>2 DEF OnTime, TimerInv, CurrentDeadline, LoginDeadline, NoTime
  <2>5. n.timer \in Nat /\ t <= n.timer
    BY <2>2, <2>3, <2>4 DEF CurrentDeadline, NoTime
  <2>6. TasksAgree(n)
    BY <2>2 DEF TasksAgree
  <2>7. TimerInv(n) /\ OnTime(n, t)
    BY <1>2, <2>2, <2>3, <2>5 DEF TimerInv, OnTime, Unauthenticated, Streaming, TasksAgree, NoTime
  <2> QED
    BY <2>2, <2>6, <2>7 DEF n
<1>3. CASE s.client_banner_complete /\ ~s.kex_started
  <2> DEFINE n == NoteClientBytes(s, chunk, t)
  <2>1. n = ResetTimer([s EXCEPT !.kex_started = TRUE, !.kex_start_deadline = NoTime])
    BY <1>3 DEF NoteClientBytes, Unauthenticated
  <2>2. /\ DOMAIN n = DOMAIN ConnIdle /\ n.serve = s.serve /\ n.session = s.session
        /\ n.result = s.result /\ n.recorded = s.recorded
        /\ n.authenticated = s.authenticated /\ n.accepted_at = s.accepted_at
        /\ n.kex_start_deadline = NoTime
        /\ n.client_banner_complete = s.client_banner_complete
    BY <2>1 DEF ResetTimer, TasksAgree, ConnIdle
  <2>3. n.timer = LoginDeadline(s) /\ LoginDeadline(n) = LoginDeadline(s)
    BY <2>1, <2>2 DEF ResetTimer, TasksAgree, ConnIdle, CurrentDeadline, LoginDeadline
  <2> HIDE DEF n
  <2>4. t <= LoginDeadline(s) /\ LoginDeadline(s) \in Nat
    BY DEF OnTime, TimerInv, CurrentDeadline, LoginDeadline, NoTime
  <2>5. n.timer = CurrentDeadline(n) /\ n.timer \in Nat /\ t <= n.timer
    BY <2>2, <2>3, <2>4 DEF CurrentDeadline
  <2>6. TasksAgree(n)
    BY <2>2 DEF TasksAgree
  <2>7. TimerInv(n) /\ OnTime(n, t)
    BY <1>3, <2>2, <2>5 DEF TimerInv, OnTime, Unauthenticated, Streaming, TasksAgree, NoTime
  <2> QED
    BY <2>2, <2>6, <2>7 DEF n
<1>4. CASE s.client_banner_complete /\ s.kex_started
  BY <1>4 DEF NoteClientBytes, Unauthenticated
<1> QED
  BY <1>1, <1>2, <1>3, <1>4

\* A poll of an authenticated connection never times out, and only a poll does.
LEMMA PolledTimeouts ==
    ASSUME NEW s, NEW result, StreamEnds(s, result)
    PROVE  /\ result # "pending"
           /\ result \in Timeouts => ~s.authenticated /\ result = PollDeadline(s, now)
BY DEF StreamEnds, PollDeadline, CheckTimeout, Timeouts

\* A connection whose stream is gone has no timer and no deadline.
LEMMA Ended ==
    ASSUME NEW s, DOMAIN s = DOMAIN ConnIdle, NEW t \in Nat,
           s.accepted_at = 0, s.timer = 0, s.kex_start_deadline = NoTime, ~s.kex_started,
           s.serve # "idle", ~Streaming(s)
    PROVE  TimerInv(s) /\ OnTime(s, t) /\ ~Unauthenticated(s)
BY DEF TimerInv, OnTime, Unauthenticated, Streaming

\* Every step keeps the connections, their slots and their timers together.
LEMMA NextConnInv == ConnInv /\ Next => ConnInv'
<1> SUFFICES ASSUME ConnInv, Next PROVE ConnInv'
  OBVIOUS
<1> USE Constants
<1>1. CASE Tick
  <2>1. now' = now + 1 /\ conn' = conn /\ guard' = guard
    BY <1>1 DEF Tick
  <2>2. ASSUME NEW c \in Conns PROVE OnTime(conn[c], now')
    <3>1. Unauthenticated(conn[c]) => now < conn[c].timer
      BY <1>1 DEF Tick, Unauthenticated
    <3>2. conn[c].serve = "handshake" => now < conn[c].accepted_at + BannerTimeout
      BY <1>1 DEF Tick, BannerElapsed, ConnInv, TimerInv
    <3> QED
      BY <2>1, <3>1, <3>2 DEF OnTime, ConnInv, TimerInv
  <2> QED
    BY <2>1, <2>2 DEF ConnInv
<1>2. ASSUME NEW c \in Conns, Refuse(c) PROVE ConnInv'
  <2> DEFINE s == [conn[c] EXCEPT !.serve = "done", !.recorded = "refused"]
  <2>1. conn' = [conn EXCEPT ![c] = s] /\ guard' = [guard EXCEPT ![c] = guard[c]] /\ now' = now
    BY <1>2, Zenon DEF Refuse, ConnInv
  <2>2. TasksAgree(conn[c]) /\ TimerInv(conn[c]) /\ conn[c].serve = "idle"
    BY <1>2 DEF Refuse, ConnInv
  <2>3. TasksAgree(s)
    BY <2>2 DEF TasksAgree, ConnIdle, Categories, Timeouts
  <2>4. ~Streaming(s) /\ ~Streaming(conn[c])
    BY <2>2 DEF TasksAgree, ConnIdle, Streaming
  <2>5. TimerInv(s) /\ OnTime(s, now)
    BY <2>2, <2>4 DEF TasksAgree, ConnIdle, TimerInv, OnTime, Unauthenticated
  <2>6. guard[c] = NoGuard /\ ~Unauthenticated(s)
    BY <2>4 DEF ConnInv, Unauthenticated
  <2> HIDE DEF s
  <2> QED
    BY <2>1, <2>3, <2>5, <2>6, OneConnection, Zenon
<1>3. ASSUME NEW c \in Conns, NEW ip \in Ips, Admit(c, ip) PROVE ConnInv'
  <2> DEFINE s == ResetTimer([conn[c] EXCEPT !.serve = "handshake", !.accepted_at = now])
  <2>1. conn' = [conn EXCEPT ![c] = s] /\ guard' = [guard EXCEPT ![c] = ip] /\ now' = now
    BY <1>3 DEF Admit, Acquire, ConnInv
  <2>2. /\ TasksAgree(conn[c]) /\ TimerInv(conn[c]) /\ conn[c].serve = "idle" /\ now \in Nat
    BY <1>3 DEF Admit, ConnInv
  <2>3. /\ DOMAIN s = DOMAIN ConnIdle /\ s.serve = "handshake" /\ s.session = "none"
        /\ s.result = "pending" /\ s.recorded = "none" /\ ~s.authenticated
        /\ s.accepted_at = now /\ s.kex_start_deadline = NoTime /\ ~s.kex_started
    BY <2>2 DEF TasksAgree, TimerInv, ConnIdle, ResetTimer
  <2>4. s.timer = now + LoginGrace
    BY <2>2 DEF TasksAgree, TimerInv, ConnIdle, ResetTimer, CurrentDeadline, LoginDeadline
  <2> HIDE DEF s
  <2>5. TasksAgree(s)
    BY <2>3 DEF TasksAgree, Timeouts
  <2>6. TimerInv(s) /\ OnTime(s, now) /\ Unauthenticated(s)
    BY <2>2, <2>3, <2>4 DEF TimerInv, OnTime, Unauthenticated, Streaming, CurrentDeadline,
                            LoginDeadline, NoTime
  <2> QED
    BY <2>1, <2>5, <2>6, OneConnection, Zenon
<1>4. ASSUME NEW c \in Conns, NEW chunk \in Chunks, NEW identified \in BOOLEAN,
             HandshakeRead(c, chunk, identified)
      PROVE  ConnInv'
  <2>1. /\ TasksAgree(conn[c]) /\ TimerInv(conn[c]) /\ OnTime(conn[c], now) /\ now \in Nat
        /\ conn[c].serve = "handshake" /\ Unauthenticated(conn[c]) /\ guard[c] # NoGuard
    BY <1>4 DEF HandshakeRead, ConnInv, TasksAgree, Unauthenticated, Streaming
  <2>2. PICK n : n = NoteClientBytes(conn[c], chunk, now)
    OBVIOUS
  <2>3. /\ TasksAgree(n) /\ TimerInv(n) /\ OnTime(n, now)
        /\ n.serve = "handshake" /\ n.session = "none" /\ n.result = "pending"
        /\ n.authenticated = conn[c].authenticated /\ n.recorded = "none"
    <3>1. /\ TasksAgree(n) /\ TimerInv(n) /\ OnTime(n, now)
          /\ n.serve = conn[c].serve /\ n.session = conn[c].session
          /\ n.result = conn[c].result /\ n.authenticated = conn[c].authenticated
          /\ n.recorded = conn[c].recorded
      BY <2>1, <2>2, BytesNoted
    <3> QED
      BY <2>1, <3>1 DEF TasksAgree
  <2>4. Unauthenticated(n)
    BY <2>1, <2>3 DEF Unauthenticated, Streaming
  <2>5. guard' = [guard EXCEPT ![c] = guard[c]] /\ now' = now /\ guard[c] \in Ips \cup {NoGuard}
    BY <1>4 DEF HandshakeRead, ConnInv
  <2>6. CASE identified
    <3> DEFINE s == [n EXCEPT !.serve = "select", !.session = "running"]
    <3>1. conn' = [conn EXCEPT ![c] = s]
      BY <1>4, <2>2, <2>6 DEF HandshakeRead
    <3>2. /\ DOMAIN s = DOMAIN ConnIdle /\ s.serve = "select" /\ s.session = "running"
          /\ s.result = "pending" /\ s.recorded = "none" /\ s.authenticated = n.authenticated
          /\ s.accepted_at = n.accepted_at /\ s.timer = n.timer
          /\ s.kex_start_deadline = n.kex_start_deadline /\ s.kex_started = n.kex_started
          /\ s.client_banner_complete = n.client_banner_complete
      BY <2>3 DEF TasksAgree, ConnIdle
    <3> HIDE DEF s
    <3>3. TasksAgree(s)
      BY <2>4, <3>2 DEF TasksAgree, Timeouts, Unauthenticated
    <3>4. Unauthenticated(s)
      BY <2>4, <3>2 DEF Unauthenticated, Streaming
    <3>5. TimerInv(s) /\ OnTime(s, now)
      BY <2>3, <2>4, <3>2 DEF TimerInv, OnTime, CurrentDeadline, LoginDeadline
    <3> QED
      BY <2>1, <2>5, <3>1, <3>3, <3>4, <3>5, OneConnection, Zenon
  <2>7. CASE ~identified
    <3>1. conn' = [conn EXCEPT ![c] = n]
      BY <1>4, <2>2, <2>7 DEF HandshakeRead
    <3> QED
      BY <2>1, <2>3, <2>4, <2>5, <3>1, OneConnection, Zenon
  <2> QED
    BY <2>6, <2>7
<1>5. ASSUME NEW c \in Conns, NEW chunk \in Chunks, SessionRead(c, chunk) PROVE ConnInv'
  <2>1. /\ TasksAgree(conn[c]) /\ TimerInv(conn[c]) /\ OnTime(conn[c], now) /\ now \in Nat
        /\ Unauthenticated(conn[c]) /\ guard[c] # NoGuard
    BY <1>5 DEF SessionRead, ConnInv, Unauthenticated, Streaming
  <2>2. PICK n : n = NoteClientBytes(conn[c], chunk, now)
    OBVIOUS
  <2>3. /\ TasksAgree(n) /\ TimerInv(n) /\ OnTime(n, now)
        /\ n.serve = conn[c].serve /\ n.session = conn[c].session
        /\ n.authenticated = conn[c].authenticated
    BY <2>1, <2>2, BytesNoted
  <2>4. Unauthenticated(n)
    BY <2>1, <2>3 DEF Unauthenticated, Streaming
  <2>5. guard' = [guard EXCEPT ![c] = guard[c]] /\ now' = now /\ guard[c] \in Ips \cup {NoGuard}
    BY <1>5 DEF SessionRead, ConnInv
  <2>6. conn' = [conn EXCEPT ![c] = n]
    BY <1>5, <2>2 DEF SessionRead
  <2> QED
    BY <2>1, <2>3, <2>4, <2>5, <2>6, OneConnection, Zenon
<1>6. ASSUME NEW c \in Conns, NEW result \in Results, HandshakeFails(c, result) PROVE ConnInv'
  <2> DEFINE s == [StreamDropped(conn[c]) EXCEPT !.serve = "done", !.result = result,
                       !.auth_tx = "dropped", !.recorded = CategoryOf(result)]
  <2>1. conn' = [conn EXCEPT ![c] = s] /\ guard' = [guard EXCEPT ![c] = NoGuard] /\ now' = now
    BY <1>6 DEF HandshakeFails, Freed, ConnInv
  <2>2. /\ TasksAgree(conn[c]) /\ now \in Nat
        /\ conn[c].serve = "handshake" /\ conn[c].session = "none" /\ ~conn[c].authenticated
    BY <1>6 DEF HandshakeFails, ConnInv, TasksAgree
  <2>3. /\ DOMAIN s = DOMAIN ConnIdle /\ s.serve = "done" /\ s.session = "none"
        /\ s.recorded = CategoryOf(result) /\ ~s.authenticated
        /\ s.accepted_at = 0 /\ s.timer = 0 /\ s.kex_start_deadline = NoTime /\ ~s.kex_started
    BY <2>2, Zenon DEF TasksAgree, ConnIdle, StreamDropped
  <2> HIDE DEF s
  <2>4. TasksAgree(s)
    BY <2>3 DEF TasksAgree, CategoryOf, Categories, Timeouts
  <2>5. TimerInv(s) /\ OnTime(s, now) /\ ~Unauthenticated(s)
    BY <2>2, <2>3, Ended DEF Streaming
  <2> QED
    BY <2>1, <2>4, <2>5, OneConnection, Zenon
<1>7. ASSUME NEW c \in Conns, BannerTimesOut(c) PROVE ConnInv'
  <2> DEFINE s == [StreamDropped(conn[c]) EXCEPT !.serve = "done", !.auth_tx = "dropped",
                                                 !.recorded = "banner-timeout"]
  <2>1. conn' = [conn EXCEPT ![c] = s] /\ guard' = [guard EXCEPT ![c] = NoGuard] /\ now' = now
    BY <1>7 DEF BannerTimesOut, Freed, ConnInv
  <2>2. /\ TasksAgree(conn[c]) /\ now \in Nat
        /\ conn[c].serve = "handshake" /\ conn[c].session = "none" /\ ~conn[c].authenticated
    BY <1>7 DEF BannerTimesOut, BannerElapsed, ConnInv, TasksAgree
  <2>3. /\ DOMAIN s = DOMAIN ConnIdle /\ s.serve = "done" /\ s.session = "none"
        /\ s.recorded = "banner-timeout" /\ ~s.authenticated
        /\ s.accepted_at = 0 /\ s.timer = 0 /\ s.kex_start_deadline = NoTime /\ ~s.kex_started
    BY <2>2, Zenon DEF TasksAgree, ConnIdle, StreamDropped
  <2> HIDE DEF s
  <2>4. TasksAgree(s)
    BY <2>3 DEF TasksAgree, Categories, Timeouts
  <2>5. TimerInv(s) /\ OnTime(s, now) /\ ~Unauthenticated(s)
    BY <2>2, <2>3, Ended DEF Streaming
  <2> QED
    BY <2>1, <2>4, <2>5, OneConnection, Zenon
<1>8. ASSUME NEW c \in Conns, NEW result \in Results, SessionEnds(c, result) PROVE ConnInv'
  <2>1. /\ TasksAgree(conn[c]) /\ now \in Nat /\ conn[c].session = "running"
        /\ conn[c].serve \in {"select", "await_running"} /\ conn[c].recorded = "none"
    BY <1>8 DEF SessionEnds, ConnInv, TasksAgree
  <2>2. result \in Timeouts => ~conn[c].authenticated
    BY <1>8, PolledTimeouts DEF SessionEnds, Timeouts
  <2>3. PICK tx : conn' = [conn EXCEPT ![c] = [StreamDropped(conn[c]) EXCEPT
                     !.session = "ended", !.result = result, !.auth_tx = tx]]
    <3> DEFINE tx == IF conn[c].auth_tx = "open" THEN "dropped" ELSE conn[c].auth_tx
    <3>1. conn' = [conn EXCEPT ![c] = [StreamDropped(conn[c]) EXCEPT
                     !.session = "ended", !.result = result, !.auth_tx = tx]]
      BY <1>8 DEF SessionEnds, ConnInv
    <3> QED
      BY <3>1, Zenon
  <2> DEFINE s == [StreamDropped(conn[c]) EXCEPT !.session = "ended", !.result = result,
                                                 !.auth_tx = tx]
  <2>4. guard' = [guard EXCEPT ![c] = NoGuard] /\ now' = now
    BY <1>8 DEF SessionEnds, Freed
  <2>5. /\ DOMAIN s = DOMAIN ConnIdle /\ s.serve = conn[c].serve /\ s.session = "ended"
        /\ s.recorded = "none" /\ s.authenticated = conn[c].authenticated /\ s.result = result
        /\ s.accepted_at = 0 /\ s.timer = 0 /\ s.kex_start_deadline = NoTime /\ ~s.kex_started
    BY <2>1, Zenon DEF TasksAgree, ConnIdle, StreamDropped
  <2> HIDE DEF s
  <2>6. TasksAgree(s)
    BY <2>1, <2>2, <2>5 DEF TasksAgree, Timeouts
  <2>7. TimerInv(s) /\ OnTime(s, now) /\ ~Unauthenticated(s)
    BY <2>1, <2>5, Ended DEF Streaming
  <2>8. conn' = [conn EXCEPT ![c] = s]
    BY <2>3 DEF s
  <2> QED
    BY <2>4, <2>6, <2>7, <2>8, OneConnection, Zenon
<1>9. ASSUME NEW c \in Conns, NEW banned \in BOOLEAN, AuthFailure(c, banned) PROVE ConnInv'
  BY <1>9 DEF AuthFailure, ConnInv
<1>10. ASSUME NEW c \in Conns, AuthSucceeded(c) PROVE ConnInv'
  <2> DEFINE s == [conn[c] EXCEPT !.authenticated = TRUE, !.auth_tx = "sent"]
  <2>1. conn' = [conn EXCEPT ![c] = s] /\ guard' = [guard EXCEPT ![c] = NoGuard] /\ now' = now
    BY <1>10, Zenon DEF AuthSucceeded, Freed, ConnInv
  <2>2. /\ TasksAgree(conn[c]) /\ TimerInv(conn[c]) /\ conn[c].session = "running"
        /\ conn[c].serve \in {"select", "await_running"}
    BY <1>10 DEF AuthSucceeded, MayAuthenticate, ConnInv, TasksAgree
  <2>3. /\ DOMAIN s = DOMAIN ConnIdle /\ s.serve = conn[c].serve /\ s.session = "running"
        /\ s.result = "pending" /\ s.recorded = "none" /\ s.authenticated = TRUE
        /\ s.accepted_at = conn[c].accepted_at /\ s.timer = conn[c].timer
        /\ s.kex_start_deadline = conn[c].kex_start_deadline
        /\ s.kex_started = conn[c].kex_started
        /\ s.client_banner_complete = conn[c].client_banner_complete
    BY <2>2 DEF TasksAgree, ConnIdle
  <2> HIDE DEF s
  <2>4. TasksAgree(s)
    BY <2>2, <2>3 DEF TasksAgree, Timeouts
  <2>5. TimerInv(s) /\ OnTime(s, now) /\ ~Unauthenticated(s)
    BY <2>2, <2>3 DEF TimerInv, OnTime, Unauthenticated
  <2> QED
    BY <2>1, <2>4, <2>5, OneConnection, Zenon
<1>11. ASSUME NEW c \in Conns, Serve(c) PROVE ConnInv'
  <2>1. PICK at \in {"await_running", "done"}, r \in Categories \cup {"none"} :
           /\ conn' = [conn EXCEPT ![c] = [conn[c] EXCEPT !.serve = at, !.recorded = r]]
           /\ at # "done" => r = "none"
           /\ r \in Timeouts => ~conn[c].authenticated
    <3>1. CASE SelectAuth(c)
      BY <3>1, Zenon DEF SelectAuth, ConnInv, TasksAgree, ConnIdle, Timeouts
    <3>2. CASE SelectRunning(c)
      <4>1. CategoryOf(conn[c].result) \in Categories \cup {"none"}
        BY DEF CategoryOf, Categories, Timeouts
      <4>2. CategoryOf(conn[c].result) \in Timeouts => ~conn[c].authenticated
        BY DEF CategoryOf, Timeouts, ConnInv, TasksAgree
      <4>3. conn' = [conn EXCEPT ![c] = [conn[c] EXCEPT !.serve = "done",
                                             !.recorded = CategoryOf(conn[c].result)]]
        BY <3>2, Zenon DEF SelectRunning, ConnInv
      <4> QED
        BY <4>1, <4>2, <4>3, Zenon
    <3>3. CASE AwaitRunning(c)
      BY <3>3, Zenon DEF AwaitRunning, ConnInv, TasksAgree, ConnIdle, Timeouts
    <3> QED
      BY <1>11, <3>1, <3>2, <3>3, Zenon DEF Serve
  <2> DEFINE s == [conn[c] EXCEPT !.serve = at, !.recorded = r]
  <2>2. guard' = [guard EXCEPT ![c] = guard[c]] /\ now' = now /\ guard[c] \in Ips \cup {NoGuard}
    BY <1>11 DEF Serve, SelectAuth, SelectRunning, AwaitRunning, ConnInv
  <2>3. /\ TasksAgree(conn[c]) /\ TimerInv(conn[c]) /\ OnTime(conn[c], now)
        /\ guard[c] # NoGuard <=> Unauthenticated(conn[c])
        /\ conn[c].serve \in {"select", "await_running"}
        /\ at = "done" => conn[c].session = "ended"
    <3>1. /\ TasksAgree(conn[c]) /\ TimerInv(conn[c]) /\ OnTime(conn[c], now)
          /\ guard[c] # NoGuard <=> Unauthenticated(conn[c])
          /\ DOMAIN conn = Conns
      BY DEF ConnInv
    <3>2. conn'[c].serve = at
      BY <2>1, <3>1 DEF TasksAgree, ConnIdle
    <3>3. /\ conn[c].serve \in {"select", "await_running"}
          /\ conn'[c].serve = "await_running" \/ conn[c].session = "ended"
      BY <1>11, <3>1 DEF Serve, SelectAuth, SelectRunning, AwaitRunning, TasksAgree, ConnIdle
    <3> QED
      BY <2>1, <3>1, <3>2, <3>3
  <2>4. /\ DOMAIN s = DOMAIN ConnIdle /\ s.serve = at /\ s.session = conn[c].session
        /\ s.result = conn[c].result /\ s.recorded = r
        /\ s.authenticated = conn[c].authenticated
        /\ s.accepted_at = conn[c].accepted_at /\ s.timer = conn[c].timer
        /\ s.kex_start_deadline = conn[c].kex_start_deadline
        /\ s.kex_started = conn[c].kex_started
        /\ s.client_banner_complete = conn[c].client_banner_complete
    BY <2>3 DEF TasksAgree, ConnIdle
  <2>5. conn' = [conn EXCEPT ![c] = s]
    BY <2>1
  <2> HIDE DEF s
  <2>6. TasksAgree(s)
    BY <2>1, <2>3, <2>4 DEF TasksAgree
  <2>7. Unauthenticated(s) <=> Unauthenticated(conn[c])
    BY <2>3, <2>4 DEF Unauthenticated, Streaming, TasksAgree
  <2>8. TimerInv(s) /\ OnTime(s, now)
    BY <2>3, <2>4, <2>7 DEF TimerInv, OnTime, CurrentDeadline, LoginDeadline
  <2> QED
    BY <2>2, <2>3, <2>5, <2>6, <2>7, <2>8, OneConnection, Zenon
<1> QED
  BY <1>1, <1>2, <1>3, <1>4, <1>5, <1>6, <1>7, <1>8, <1>9, <1>10, <1>11 DEF Next

-----------------------------------------------------------------------------
\* A slot granted is one holder more, a slot given back one less.
LEMMA HolderTaken ==
    ASSUME ConnInv, NEW c \in Conns, NEW ip \in Ips, guard[c] = NoGuard,
           guard' = [guard EXCEPT ![c] = ip]
    PROVE  Cardinality(Holders') = Cardinality(Holders) + 1
<1>1. Holders' = Holders \cup {c} /\ c \notin Holders
  BY Constants DEF ConnInv, Holders
<1>2. IsFiniteSet(Holders)
  BY ConnSets DEF Holders
<1> QED
  BY <1>1, <1>2, FS_AddElement, Zenon

LEMMA HolderFreed ==
    ASSUME ConnInv, NEW c \in Conns, guard' = Freed(c), MetricsType,
           metrics.current_unauthenticated_connections = Cardinality(Holders)
    PROVE  /\ GuardTaken(c, metrics).current_unauthenticated_connections = Cardinality(Holders')
           /\ GuardTaken(c, metrics) \in Metrics
           /\ \E n \in Nat : GuardTaken(c, metrics) =
                 [metrics EXCEPT !.current_unauthenticated_connections = n]
<1>1. CASE guard[c] = NoGuard
  <2>1. Holders' = Holders
    BY <1>1 DEF ConnInv, Holders, Freed
  <2>2. metrics = [metrics EXCEPT !.current_unauthenticated_connections
                       = metrics.current_unauthenticated_connections]
    BY DEF MetricsType, Metrics
  <2>3. metrics \in Metrics /\ metrics.current_unauthenticated_connections \in Nat
    BY DEF MetricsType, Metrics
  <2> QED
    BY <1>1, <2>1, <2>2, <2>3 DEF GuardTaken
<1>2. CASE guard[c] # NoGuard
  <2>1. Holders' = Holders \ {c} /\ c \in Holders
    BY <1>2 DEF ConnInv, Holders, Freed
  <2>2. IsFiniteSet(Holders) /\ Cardinality(Holders) \in Nat
    BY ConnSets DEF Holders
  <2>3. Cardinality(Holders') = Cardinality(Holders) - 1
    BY <2>1, <2>2, FS_RemoveElement, Zenon
  <2>4. Cardinality(Holders') \in Nat
    <3>1. IsFiniteSet(Holders')
      BY <2>1, <2>2, FS_Subset, Zenon
    <3> QED
      BY <3>1, FS_CardinalityType
  <2>5. GuardTaken(c, metrics) =
            [metrics EXCEPT !.current_unauthenticated_connections = Cardinality(Holders')]
    BY <1>2, <2>2, <2>3, <2>4 DEF GuardTaken, PreauthClosed, MetricsType, Metrics
  <2> QED
    BY <2>4, <2>5 DEF MetricsType, Metrics
<1> QED
  BY <1>1, <1>2

\* The steps that record nothing leave the sets of recorded connections alone.
LEMMA NothingRecorded ==
    ASSUME NEW m, CountsRecorded(m),
           \A d \in Conns : conn'[d].recorded = conn[d].recorded
    PROVE  CountsRecorded(m)'
<1>1. TimedOut' = TimedOut /\ \A r \in Categories : RecordedUnder(r)' = RecordedUnder(r)
  BY DEF TimedOut, RecordedUnder
<1>2. "malformed-disconnect" \in Categories
  BY DEF Categories
<1> QED
  BY <1>1, <1>2 DEF CountsRecorded

\* A connection is recorded once, so counting its category keeps all counters right.
LEMMA RecordedOnce ==
    ASSUME NEW m \in Metrics, CountsRecorded(m), NEW c \in Conns, NEW r \in Categories,
           conn[c].recorded = "none", conn'[c].recorded = r,
           \A d \in Conns : d # c => conn'[d].recorded = conn[d].recorded
    PROVE  /\ r # "refused" => CountsRecorded(Counted(m, r))'
           /\ r = "refused" => CountsRecorded(RecordRejected(m, r))'
<1>1. /\ RecordedUnder(r)' = RecordedUnder(r) \cup {c} /\ c \notin RecordedUnder(r)
      /\ \A q \in Categories : q # r => RecordedUnder(q)' = RecordedUnder(q)
  BY DEF RecordedUnder, Categories, Timeouts
<1>2. IsFiniteSet(RecordedUnder(r)) /\ Cardinality(RecordedUnder(r)) \in Nat
  BY ConnSets DEF RecordedUnder
<1>3. Cardinality(RecordedUnder(r)') = Cardinality(RecordedUnder(r)) + 1
  BY <1>1, <1>2, FS_AddElement, Zenon
<1>4. IsFiniteSet(TimedOut) /\ Cardinality(TimedOut) \in Nat
  BY ConnSets DEF TimedOut
<1>5. Cardinality(TimedOut') = IF r \in Timeouts \cup {"banner-timeout"}
                               THEN Cardinality(TimedOut) + 1 ELSE Cardinality(TimedOut)
  <2>1. CASE r \in Timeouts \cup {"banner-timeout"}
    <3>1. TimedOut' = TimedOut \cup {c} /\ c \notin TimedOut
      BY <2>1 DEF TimedOut, Timeouts
    <3>2. Cardinality(TimedOut') = Cardinality(TimedOut) + 1
      BY <3>1, <1>4, FS_AddElement, Zenon
    <3> QED
      BY <2>1, <3>2
  <2>2. CASE r \notin Timeouts \cup {"banner-timeout"}
    <3>1. TimedOut' = TimedOut
      BY <2>2 DEF TimedOut, Timeouts
    <3> QED
      BY <2>2, <3>1
  <2> QED
    BY <2>1, <2>2
<1> DEFINE Right(n) ==
      /\ \A q \in Categories :
            n.rejected_connections_by_reason[q] = Cardinality(RecordedUnder(q)')
      /\ n.preauth_timeouts = Cardinality(TimedOut')
      /\ n.malformed_packet_disconnects = Cardinality(RecordedUnder("malformed-disconnect")')
<1>6. RecordRejected(m, r) \in Metrics /\ \A q \in Categories :
        RecordRejected(m, r).rejected_connections_by_reason[q] = Cardinality(RecordedUnder(q)')
  <2> DEFINE n == RecordRejected(m, r)
  <2>1. n.rejected_connections_by_reason = [m.rejected_connections_by_reason EXCEPT
                                               ![r] = m.rejected_connections_by_reason[r] + 1]
    BY DEF RecordRejected, Metrics
  <2>2. m.rejected_connections_by_reason \in [Categories -> Nat]
    BY DEF Metrics
  <2>3. n.rejected_connections_by_reason \in [Categories -> Nat]
    BY <2>1, <2>2
  <2>4. n \in Metrics
    BY <2>3 DEF RecordRejected, Metrics
  <2>5. \A q \in Categories :
            n.rejected_connections_by_reason[q] = Cardinality(RecordedUnder(q)')
    BY <1>1, <1>3, <2>1, <2>2, Zenon DEF CountsRecorded
  <2> QED
    BY <2>4, <2>5
<1>7. CASE r = "refused"
  <2>1. Right(RecordRejected(m, r))
    BY <1>1, <1>5, <1>6, <1>7 DEF RecordRejected, Metrics, CountsRecorded, Timeouts, Categories
  <2> QED
    BY <1>7, <2>1 DEF CountsRecorded
<1>8. CASE r = "malformed-disconnect"
  <2>1. Counted(m, r).malformed_packet_disconnects = m.malformed_packet_disconnects + 1
    BY <1>8 DEF Counted, RecordRejected, Metrics
  <2>2. Counted(m, r).preauth_timeouts = m.preauth_timeouts
    BY <1>8 DEF Counted, RecordRejected, Metrics
  <2>3. Counted(m, r).rejected_connections_by_reason
          = RecordRejected(m, r).rejected_connections_by_reason
    BY <1>6, <1>8 DEF Counted, Metrics
  <2>4. Right(Counted(m, r))
    BY <1>1, <1>3, <1>5, <1>6, <1>8, <2>1, <2>2, <2>3 DEF CountsRecorded, Timeouts
  <2> QED
    BY <1>8, <2>4 DEF CountsRecorded
<1>9. CASE r \in Timeouts \cup {"banner-timeout"}
  <2>1. Counted(m, r).malformed_packet_disconnects = m.malformed_packet_disconnects
    BY <1>9 DEF Counted, RecordRejected, Metrics, Timeouts
  <2>2. Counted(m, r).preauth_timeouts = m.preauth_timeouts + 1
    BY <1>9 DEF Counted, RecordRejected, Metrics, Timeouts
  <2>3. Counted(m, r).rejected_connections_by_reason
          = RecordRejected(m, r).rejected_connections_by_reason
    BY <1>6, <1>9 DEF Counted, Metrics, Timeouts
  <2>4. Right(Counted(m, r))
    BY <1>1, <1>5, <1>6, <1>9, <2>1, <2>2, <2>3 DEF CountsRecorded, Timeouts, Categories
  <2> QED
    BY <1>9, <2>4 DEF CountsRecorded, Timeouts
<1> QED
  BY <1>7, <1>8, <1>9 DEF Categories

\* Counting a connection touches the counters of rejections only.
LEMMA CountedType ==
    ASSUME NEW m \in Metrics
    PROVE  /\ \A r \in Categories :
                 /\ RecordRejected(m, r) \in Metrics
                 /\ RecordRejected(m, r).auth_failures_by_ip = m.auth_failures_by_ip
                 /\ RecordRejected(m, r).current_unauthenticated_connections
                       = m.current_unauthenticated_connections
           /\ \A r \in Categories \cup {"none"} :
                 /\ Counted(m, r) \in Metrics
                 /\ Counted(m, r).auth_failures_by_ip = m.auth_failures_by_ip
                 /\ Counted(m, r).current_unauthenticated_connections
                       = m.current_unauthenticated_connections
           /\ Counted(m, "none") = m
<1>1. ASSUME NEW r \in Categories
      PROVE  /\ RecordRejected(m, r) \in Metrics
             /\ RecordRejected(m, r).auth_failures_by_ip = m.auth_failures_by_ip
             /\ RecordRejected(m, r).current_unauthenticated_connections
                   = m.current_unauthenticated_connections
  <2>1. m.rejected_connections_by_reason[r] + 1 \in Nat
    BY DEF Metrics
  <2>2. [m.rejected_connections_by_reason EXCEPT
            ![r] = m.rejected_connections_by_reason[r] + 1] \in [Categories -> Nat]
    BY <2>1 DEF Metrics
  <2> QED
    BY <2>2 DEF RecordRejected, Metrics
<1>2. ASSUME NEW r \in Categories
      PROVE  /\ Counted(m, r) \in Metrics
             /\ Counted(m, r).auth_failures_by_ip = m.auth_failures_by_ip
             /\ Counted(m, r).current_unauthenticated_connections
                   = m.current_unauthenticated_connections
  <2>1. PICK n \in Metrics : n = RecordRejected(m, r)
    BY <1>1
  <2>2. \/ Counted(m, r) = [n EXCEPT !.malformed_packet_disconnects = @ + 1]
        \/ Counted(m, r) = [n EXCEPT !.preauth_timeouts = @ + 1]
    BY <2>1 DEF Counted, Categories, Timeouts
  <2>3. /\ Counted(m, r) \in Metrics
        /\ Counted(m, r).auth_failures_by_ip = n.auth_failures_by_ip
        /\ Counted(m, r).current_unauthenticated_connections
              = n.current_unauthenticated_connections
    BY <2>2 DEF Metrics
  <2> QED
    BY <1>1, <2>1, <2>3
<1>3. Counted(m, "none") = m
  BY DEF Counted
<1> QED
  BY <1>1, <1>2, <1>3

LEMMA TableStays ==
    ASSUME TableInv, failures' = failures,
           metrics'.auth_failures_by_ip = metrics.auth_failures_by_ip
    PROVE  TableInv'
<1>1. FailureIps(metrics') = FailureIps(metrics)
  BY DEF FailureIps
<1> QED
  BY <1>1 DEF TableInv

\* An address enters the table with its first failure, while there is room, and a table
\* without room stays so.
LEMMA FailureNoted ==
    ASSUME MetricsType, TableInv, NEW ip \in Ips, NEW banned \in BOOLEAN,
           metrics' = MetricsAuthFailure(metrics, ip, banned),
           failures' = [failures EXCEPT ![ip] = @ + 1]
    PROVE  /\ MetricsType' /\ TableInv'
           /\ metrics'.current_unauthenticated_connections
                 = metrics.current_unauthenticated_connections
           /\ metrics'.rejected_connections_by_reason = metrics.rejected_connections_by_reason
           /\ metrics'.preauth_timeouts = metrics.preauth_timeouts
           /\ metrics'.malformed_packet_disconnects = metrics.malformed_packet_disconnects
<1> USE Constants
<1> DEFINE Room == ip \in FailureIps(metrics) \/ Cardinality(FailureIps(metrics)) < MaxFailureIps
<1>1. failures' \in [Ips -> Nat] /\ failures'[ip] = failures[ip] + 1
      /\ \A k \in Ips : k # ip => failures'[k] = failures[k]
  BY DEF MetricsType
<1>2. PICK failed : failed = IF Room THEN [metrics EXCEPT !.auth_failures_by_ip[ip] = @ + 1]
                             ELSE [metrics EXCEPT !.auth_failure_ip_overflow = @ + 1]
  BY Zenon
<1>3. metrics' = IF banned THEN [failed EXCEPT !.temporary_bans_issued = @ + 1] ELSE failed
  BY <1>2 DEF MetricsAuthFailure
<1>4. /\ failed \in Metrics
      /\ failed.auth_failures_by_ip = IF Room
             THEN [metrics.auth_failures_by_ip EXCEPT ![ip] = metrics.auth_failures_by_ip[ip] + 1]
             ELSE metrics.auth_failures_by_ip
      /\ failed.current_unauthenticated_connections = metrics.current_unauthenticated_connections
      /\ failed.rejected_connections_by_reason = metrics.rejected_connections_by_reason
      /\ failed.preauth_timeouts = metrics.preauth_timeouts
      /\ failed.malformed_packet_disconnects = metrics.malformed_packet_disconnects
  <2>1. [metrics.auth_failures_by_ip EXCEPT ![ip] = metrics.auth_failures_by_ip[ip] + 1]
            \in [Ips -> Nat]
    <3>1. metrics.auth_failures_by_ip \in [Ips -> Nat]
      BY DEF MetricsType, Metrics
    <3> QED
      BY <3>1
  <2>2. CASE Room
    BY <1>2, <2>1, <2>2 DEF MetricsType, Metrics
  <2>3. CASE ~Room
    BY <1>2, <2>3 DEF MetricsType, Metrics
  <2> HIDE DEF Room
  <2> QED
    BY <2>2, <2>3
<1> HIDE DEF Room
<1>5. /\ metrics' \in Metrics
      /\ metrics'.auth_failures_by_ip = failed.auth_failures_by_ip
      /\ metrics'.current_unauthenticated_connections = failed.current_unauthenticated_connections
      /\ metrics'.rejected_connections_by_reason = failed.rejected_connections_by_reason
      /\ metrics'.preauth_timeouts = failed.preauth_timeouts
      /\ metrics'.malformed_packet_disconnects = failed.malformed_packet_disconnects
  BY <1>3, <1>4 DEF Metrics
<1>6. TableInv'
  <2>1. metrics.auth_failures_by_ip \in [Ips -> Nat]
    BY DEF MetricsType, Metrics
  <2>2. CASE ip \in FailureIps(metrics)
    <3>1. metrics'.auth_failures_by_ip = [metrics.auth_failures_by_ip EXCEPT
                                             ![ip] = metrics.auth_failures_by_ip[ip] + 1]
      BY <1>4, <1>5, <2>2 DEF Room
    <3>2. FailureIps(metrics') = FailureIps(metrics)
      BY <2>1, <2>2, <3>1 DEF FailureIps
    <3>3. \A k \in FailureIps(metrics) : metrics'.auth_failures_by_ip[k] = failures'[k]
      BY <1>1, <2>1, <3>1 DEF TableInv, FailureIps
    <3>4. \A k \in Ips \ FailureIps(metrics) : failures'[k] = failures[k]
      BY <1>1, <2>2
    <3> QED
      BY <3>2, <3>3, <3>4 DEF TableInv
  <2>3. CASE ip \notin FailureIps(metrics) /\ Room
    <3>1. Cardinality(FailureIps(metrics)) < MaxFailureIps
      BY <2>3 DEF Room
    <3>2. metrics'.auth_failures_by_ip = [metrics.auth_failures_by_ip EXCEPT
                                             ![ip] = metrics.auth_failures_by_ip[ip] + 1]
      BY <1>4, <1>5, <2>3
    <3>3. FailureIps(metrics') = FailureIps(metrics) \cup {ip}
      BY <2>1, <3>2 DEF FailureIps
    <3>4. metrics.auth_failures_by_ip[ip] = 0 /\ failures[ip] = 0
      BY <2>1, <2>3, <3>1 DEF FailureIps, TableInv
    <3>5. \A k \in FailureIps(metrics') : metrics'.auth_failures_by_ip[k] = failures'[k]
      BY <1>1, <2>1, <3>2, <3>3, <3>4 DEF TableInv, FailureIps
    <3>6. \A k \in Ips \ FailureIps(metrics') : failures'[k] = 0
      BY <1>1, <3>1, <3>3 DEF TableInv
    <3>7. IsFiniteSet(FailureIps(metrics')) /\
          Cardinality(FailureIps(metrics')) = Cardinality(FailureIps(metrics)) + 1
      <4>1. IsFiniteSet(FailureIps(metrics)) /\ ip \notin FailureIps(metrics)
        BY <2>3 DEF TableInv
      <4> QED
        BY <3>3, <4>1, FS_AddElement, Zenon
    <3>8. Cardinality(FailureIps(metrics)) \in Nat
      BY FS_CardinalityType DEF TableInv
    <3> QED
      BY <3>1, <3>5, <3>6, <3>7, <3>8 DEF TableInv
  <2>4. CASE ~Room
    <3>1. metrics'.auth_failures_by_ip = metrics.auth_failures_by_ip
      BY <1>4, <1>5, <2>4
    <3>2. FailureIps(metrics') = FailureIps(metrics)
      BY <3>1 DEF FailureIps
    <3>3. ip \notin FailureIps(metrics) /\ ~(Cardinality(FailureIps(metrics)) < MaxFailureIps)
      BY <2>4 DEF Room
    <3>4. \A k \in FailureIps(metrics) : metrics'.auth_failures_by_ip[k] = failures'[k]
      BY <1>1, <3>1, <3>3 DEF TableInv, FailureIps
    <3> QED
      BY <3>2, <3>3, <3>4 DEF TableInv
  <2> QED
    BY <2>2, <2>3, <2>4 DEF Room
<1> QED
  BY <1>1, <1>4, <1>5, <1>6 DEF MetricsType

\* Every step keeps the counters right.
LEMMA NextMetrics == IInv /\ Next => MetricsType' /\ CountInv' /\ TableInv'
<1> SUFFICES ASSUME IInv, Next PROVE MetricsType' /\ CountInv' /\ TableInv'
  OBVIOUS
<1> USE Constants
<1>1. ConnInv /\ MetricsType /\ CountInv /\ TableInv
  BY DEF IInv
<1>2. DOMAIN conn = Conns /\ metrics \in Metrics /\ now \in Nat /\ CountsRecorded(metrics)
  BY <1>1 DEF ConnInv, MetricsType, CountInv
<1>3. \A c \in Conns : TasksAgree(conn[c]) /\ DOMAIN conn[c] = DOMAIN ConnIdle
  BY <1>1 DEF ConnInv, TasksAgree
\* A step that leaves the counters, the slots and the records alone.
<1>4. ASSUME UNCHANGED <<guard, metrics, failures>>,
             \A d \in Conns : conn'[d].recorded = conn[d].recorded
      PROVE  MetricsType' /\ CountInv' /\ TableInv'
  <2>1. CountsRecorded(metrics)'
    BY <1>2, <1>4, NothingRecorded DEF CountsRecorded
  <2>2. Holders' = Holders
    BY <1>4 DEF Holders
  <2>3. TableInv'
    BY <1>1, <1>4, TableStays
  <2> QED
    BY <1>1, <1>4, <2>1, <2>2, <2>3 DEF MetricsType, CountInv
\* A step that frees c's slot, if it has one, and counts c under r.
<1>5. ASSUME NEW c \in Conns, NEW r \in (Categories \cup {"none"}) \ {"refused"}, NEW s,
             guard' = Freed(c), conn' = [conn EXCEPT ![c] = s], s.recorded = r,
             conn[c].recorded = "none",
             metrics' = Counted(GuardTaken(c, metrics), r), failures' = failures
      PROVE  MetricsType' /\ CountInv' /\ TableInv'
  <2>1. PICK m \in Metrics : m = GuardTaken(c, metrics)
    BY <1>1, <1>5, HolderFreed DEF CountInv
  <2>2. PICK n \in Nat : m = [metrics EXCEPT !.current_unauthenticated_connections = n]
    BY <1>1, <1>5, <2>1, HolderFreed DEF CountInv
  <2>3. m.current_unauthenticated_connections = Cardinality(Holders')
    BY <1>1, <1>5, <2>1, HolderFreed DEF CountInv
  <2>4. /\ m.rejected_connections_by_reason = metrics.rejected_connections_by_reason
        /\ m.preauth_timeouts = metrics.preauth_timeouts
        /\ m.malformed_packet_disconnects = metrics.malformed_packet_disconnects
        /\ m.auth_failures_by_ip = metrics.auth_failures_by_ip
    BY <1>2, <2>2 DEF Metrics
  <2>5. CountsRecorded(m)
    BY <1>2, <2>4 DEF CountsRecorded
  <2>6. conn'[c].recorded = r /\ \A d \in Conns : d # c => conn'[d].recorded = conn[d].recorded
    BY <1>2, <1>5
  <2>7. CountsRecorded(Counted(m, r))'
    <3>1. CASE r = "none"
      <4>1. \A d \in Conns : conn'[d].recorded = conn[d].recorded
        BY <1>5, <2>6, <3>1
      <4>2. CountsRecorded(m)'
        BY <2>5, <4>1, NothingRecorded
      <4> QED
        BY <3>1, <4>2, CountedType
    <3>2. CASE r # "none"
      BY <1>5, <2>5, <2>6, <3>2, RecordedOnce
    <3> QED
      BY <3>1, <3>2
  <2>8. metrics' = Counted(m, r)
    BY <1>5, <2>1
  <2>9. /\ metrics' \in Metrics /\ metrics'.auth_failures_by_ip = metrics.auth_failures_by_ip
        /\ metrics'.current_unauthenticated_connections = Cardinality(Holders')
    BY <2>3, <2>4, <2>8, CountedType
  <2>10. CountsRecorded(metrics)'
    BY <2>7, <2>8 DEF CountsRecorded
  <2>11. TableInv'
    BY <1>1, <1>5, <2>9, TableStays
  <2> QED
    BY <1>1, <1>5, <2>9, <2>10, <2>11 DEF MetricsType, CountInv
<1>6. CASE Tick
  BY <1>4, <1>6 DEF Tick
<1>7. ASSUME NEW c \in Conns, Refuse(c) PROVE MetricsType' /\ CountInv' /\ TableInv'
  <2>1. metrics' = RecordRejected(metrics, "refused") /\ "refused" \in Categories
    BY <1>7 DEF Refuse, Categories
  <2>2. /\ metrics' \in Metrics /\ metrics'.auth_failures_by_ip = metrics.auth_failures_by_ip
        /\ metrics'.current_unauthenticated_connections
              = metrics.current_unauthenticated_connections
    BY <1>2, <2>1, CountedType
  <2>3. /\ conn[c].recorded = "none" /\ conn'[c].recorded = "refused"
        /\ \A d \in Conns : d # c => conn'[d].recorded = conn[d].recorded
    BY <1>2, <1>3, <1>7 DEF Refuse, TasksAgree, ConnIdle
  <2>5. PICK m \in Metrics : m = metrics
    BY <1>2
  <2>6. CountsRecorded(RecordRejected(m, "refused"))'
    BY <1>2, <2>1, <2>3, <2>5, RecordedOnce
  <2>7. CountsRecorded(metrics)'
    BY <2>1, <2>5, <2>6 DEF CountsRecorded
  <2>8. Holders' = Holders /\ failures' = failures
    BY <1>7 DEF Refuse, Holders
  <2>9. TableInv'
    BY <1>1, <2>2, <2>8, TableStays
  <2> QED
    BY <1>1, <2>2, <2>7, <2>8, <2>9 DEF MetricsType, CountInv
<1>8. ASSUME NEW c \in Conns, NEW ip \in Ips, Admit(c, ip)
      PROVE  MetricsType' /\ CountInv' /\ TableInv'
  <2>1. \A d \in Conns : conn'[d].recorded = conn[d].recorded
    BY <1>2, <1>3, <1>8 DEF Admit, ResetTimer, ConnIdle
  <2>2. Cardinality(Holders') = Cardinality(Holders) + 1
    BY <1>1, <1>8, HolderTaken, Zenon DEF Admit, Acquire
  <2>3. metrics' = [metrics EXCEPT !.current_unauthenticated_connections = @ + 1]
        /\ failures' = failures
    BY <1>8 DEF Admit, PreauthOpened
  <2>4. /\ metrics' \in Metrics /\ metrics'.auth_failures_by_ip = metrics.auth_failures_by_ip
        /\ metrics'.current_unauthenticated_connections
              = metrics.current_unauthenticated_connections + 1
        /\ metrics'.rejected_connections_by_reason = metrics.rejected_connections_by_reason
        /\ metrics'.preauth_timeouts = metrics.preauth_timeouts
        /\ metrics'.malformed_packet_disconnects = metrics.malformed_packet_disconnects
    BY <1>2, <2>3 DEF Metrics
  <2>5. PICK m \in Metrics : m = metrics
    BY <1>2
  <2>6. CountsRecorded(m)'
    BY <1>2, <2>1, <2>5, NothingRecorded
  <2>7. CountsRecorded(metrics)'
    BY <2>4, <2>5, <2>6 DEF CountsRecorded
  <2>8. TableInv'
    BY <1>1, <2>3, <2>4, TableStays
  <2> QED
    BY <1>1, <2>2, <2>3, <2>4, <2>7, <2>8 DEF MetricsType, CountInv
<1>9. ASSUME NEW c \in Conns, NEW chunk \in Chunks, NEW identified \in BOOLEAN,
             HandshakeRead(c, chunk, identified)
      PROVE  MetricsType' /\ CountInv' /\ TableInv'
  <2>1. Unauthenticated(conn[c]) /\ TimerInv(conn[c]) /\ OnTime(conn[c], now)
    BY <1>1, <1>3, <1>9 DEF HandshakeRead, ConnInv, TasksAgree, Unauthenticated, Streaming
  <2>2. PICK n : n = NoteClientBytes(conn[c], chunk, now)
    OBVIOUS
  <2>3. n.recorded = conn[c].recorded /\ DOMAIN n = DOMAIN ConnIdle
    BY <1>2, <1>3, <2>1, <2>2, BytesNoted DEF TasksAgree
  <2>4. \A d \in Conns : conn'[d].recorded = conn[d].recorded
    BY <1>2, <1>9, <2>2, <2>3 DEF HandshakeRead, ConnIdle
  <2> QED
    BY <1>4, <1>9, <2>4 DEF HandshakeRead
<1>10. ASSUME NEW c \in Conns, NEW chunk \in Chunks, SessionRead(c, chunk)
       PROVE  MetricsType' /\ CountInv' /\ TableInv'
  <2>1. Unauthenticated(conn[c]) /\ TimerInv(conn[c]) /\ OnTime(conn[c], now)
    BY <1>1, <1>3, <1>10 DEF SessionRead, ConnInv, Unauthenticated, Streaming
  <2>2. PICK n : n = NoteClientBytes(conn[c], chunk, now)
    OBVIOUS
  <2>3. n.recorded = conn[c].recorded
    BY <1>2, <1>3, <2>1, <2>2, BytesNoted, Zenon
  <2>4. \A d \in Conns : conn'[d].recorded = conn[d].recorded
    BY <1>2, <1>10, <2>2, <2>3 DEF SessionRead
  <2> QED
    BY <1>4, <1>10, <2>4 DEF SessionRead
<1>11. ASSUME NEW c \in Conns, NEW result \in Results, HandshakeFails(c, result)
       PROVE  MetricsType' /\ CountInv' /\ TableInv'
  <2>1. PICK s : /\ s = [StreamDropped(conn[c]) EXCEPT !.serve = "done", !.result = result,
                               !.auth_tx = "dropped", !.recorded = CategoryOf(result)]
                 /\ conn' = [conn EXCEPT ![c] = s]
    BY <1>2, <1>11, Zenon DEF HandshakeFails
  <2>2. s.recorded = CategoryOf(result) /\ conn[c].recorded = "none"
    BY <1>3, <1>11, <2>1 DEF HandshakeFails, StreamDropped, ConnIdle, TasksAgree
  <2>3. CategoryOf(result) \in (Categories \cup {"none"}) \ {"refused"}
    BY DEF CategoryOf, Categories, Timeouts
  <2> QED
    BY <1>5, <1>11, <2>1, <2>2, <2>3, Zenon DEF HandshakeFails
<1>12. ASSUME NEW c \in Conns, BannerTimesOut(c)
       PROVE  MetricsType' /\ CountInv' /\ TableInv'
  <2>1. PICK s : /\ s = [StreamDropped(conn[c]) EXCEPT !.serve = "done", !.auth_tx = "dropped",
                                                        !.recorded = "banner-timeout"]
                 /\ conn' = [conn EXCEPT ![c] = s]
    BY <1>2, <1>12, Zenon DEF BannerTimesOut
  <2>2. s.recorded = "banner-timeout" /\ conn[c].recorded = "none"
    BY <1>3, <1>12, <2>1 DEF BannerTimesOut, BannerElapsed, StreamDropped, ConnIdle, TasksAgree
  <2>3. "banner-timeout" \in (Categories \cup {"none"}) \ {"refused"}
    BY DEF Categories
  <2> QED
    BY <1>5, <1>12, <2>1, <2>2, <2>3, Zenon DEF BannerTimesOut
<1>13. ASSUME NEW c \in Conns, NEW result \in Results, SessionEnds(c, result)
       PROVE  MetricsType' /\ CountInv' /\ TableInv'
  <2>1. PICK s : /\ s.recorded = conn[c].recorded
                 /\ conn' = [conn EXCEPT ![c] = s]
    <3> DEFINE s == [StreamDropped(conn[c]) EXCEPT
                        !.session = "ended", !.result = result,
                        !.auth_tx = IF conn[c].auth_tx = "open" THEN "dropped"
                                    ELSE conn[c].auth_tx]
    <3>1. s.recorded = conn[c].recorded
      BY <1>3 DEF StreamDropped, ConnIdle
    <3>2. conn' = [conn EXCEPT ![c] = s]
      BY <1>2, <1>13 DEF SessionEnds
    <3> QED
      BY <3>1, <3>2, Zenon
  <2>2. conn[c].recorded = "none"
    BY <1>3, <1>13 DEF SessionEnds, TasksAgree
  <2>3. GuardTaken(c, metrics) \in Metrics
    BY <1>1, <1>13, HolderFreed DEF CountInv, SessionEnds
  <2>4. metrics' = Counted(GuardTaken(c, metrics), "none")
    BY <1>13, <2>3, CountedType DEF SessionEnds
  <2> QED
    BY <1>5, <1>13, <2>1, <2>2, <2>4, Zenon DEF SessionEnds, Categories
<1>14. ASSUME NEW c \in Conns, NEW banned \in BOOLEAN, AuthFailure(c, banned)
       PROVE  MetricsType' /\ CountInv' /\ TableInv'
  <2>1. guard[c] \in Ips
    BY <1>1, <1>14 DEF AuthFailure, MayAuthenticate, ConnInv, Unauthenticated, Streaming
  <2>2. PICK ip \in Ips : ip = guard[c]
    BY <2>1
  <2>3. /\ metrics' = MetricsAuthFailure(metrics, ip, banned)
        /\ failures' = [failures EXCEPT ![ip] = @ + 1]
        /\ UNCHANGED <<guard, conn>>
    BY <1>14, <2>2 DEF AuthFailure
  <2>4. /\ MetricsType' /\ TableInv'
        /\ metrics'.current_unauthenticated_connections
              = metrics.current_unauthenticated_connections
        /\ metrics'.rejected_connections_by_reason = metrics.rejected_connections_by_reason
        /\ metrics'.preauth_timeouts = metrics.preauth_timeouts
        /\ metrics'.malformed_packet_disconnects = metrics.malformed_packet_disconnects
    BY <1>1, <2>3, FailureNoted, Zenon
  <2>5. Holders' = Holders /\ TimedOut' = TimedOut
        /\ \A r : RecordedUnder(r)' = RecordedUnder(r)
    BY <2>3 DEF Holders, TimedOut, RecordedUnder
  <2> QED
    BY <1>1, <2>4, <2>5 DEF CountInv, CountsRecorded
<1>15. ASSUME NEW c \in Conns, AuthSucceeded(c)
       PROVE  MetricsType' /\ CountInv' /\ TableInv'
  <2>1. PICK s : /\ s = [conn[c] EXCEPT !.authenticated = TRUE, !.auth_tx = "sent"]
                 /\ conn' = [conn EXCEPT ![c] = s]
    BY <1>2, <1>3, <1>15, Zenon DEF AuthSucceeded
  <2>2. s.recorded = "none" /\ conn[c].recorded = "none"
    BY <1>3, <1>15, <2>1 DEF AuthSucceeded, MayAuthenticate, ConnIdle, TasksAgree
  <2>3. GuardTaken(c, metrics) \in Metrics
    BY <1>1, <1>15, HolderFreed DEF CountInv, AuthSucceeded
  <2>4. metrics' = Counted(GuardTaken(c, metrics), "none")
    BY <1>15, <2>3, CountedType DEF AuthSucceeded
  <2> QED
    BY <1>5, <1>15, <2>1, <2>2, <2>4, Zenon DEF AuthSucceeded, Categories
<1>16. ASSUME NEW c \in Conns, SelectRunning(c)
       PROVE  MetricsType' /\ CountInv' /\ TableInv'
  <2>1. guard[c] = NoGuard
    BY <1>1, <1>3, <1>16 DEF SelectRunning, ConnInv, Unauthenticated, Streaming
  <2>2. guard' = Freed(c) /\ GuardTaken(c, metrics) = metrics
    BY <1>1, <1>16, <2>1 DEF SelectRunning, Freed, GuardTaken, ConnInv
  <2>3. PICK s : /\ s = [conn[c] EXCEPT !.serve = "done",
                                         !.recorded = CategoryOf(conn[c].result)]
                 /\ conn' = [conn EXCEPT ![c] = s]
    BY <1>2, <1>3, <1>16, Zenon DEF SelectRunning
  <2>4. s.recorded = CategoryOf(conn[c].result) /\ conn[c].recorded = "none"
    BY <1>3, <1>16, <2>3 DEF SelectRunning, ConnIdle, TasksAgree
  <2>5. CategoryOf(conn[c].result) \in (Categories \cup {"none"}) \ {"refused"}
    BY DEF CategoryOf, Categories, Timeouts
  <2> QED
    BY <1>5, <1>16, <2>2, <2>3, <2>4, <2>5, Zenon DEF SelectRunning
<1>17. ASSUME NEW c \in Conns, SelectAuth(c) \/ AwaitRunning(c)
       PROVE  MetricsType' /\ CountInv' /\ TableInv'
  <2>1. \A d \in Conns : conn'[d].recorded = conn[d].recorded
    BY <1>2, <1>3, <1>17 DEF SelectAuth, AwaitRunning, ConnIdle
  <2> QED
    BY <1>4, <1>17, <2>1 DEF SelectAuth, AwaitRunning
<1> QED
  BY <1>6, <1>7, <1>8, <1>9, <1>10, <1>11, <1>12, <1>13, <1>14, <1>15, <1>16, <1>17 DEF Next, Serve

-----------------------------------------------------------------------------
LEMMA NextIInv == IInv /\ [Next]_vars => IInv'
<1>1. CASE UNCHANGED vars
  BY <1>1 DEF vars, IInv, ConnInv, MetricsType, CountInv, CountsRecorded, TableInv, Holders,
              RecordedUnder, TimedOut
<1>2. CASE Next
  BY <1>2, NextConnInv, NextMetrics DEF IInv
<1> QED
  BY <1>1, <1>2

\* The connections, their slots, their timers and the counters agree in every state.
THEOREM Invariance == Spec => []IInv
BY InitIInv, NextIInv, PTL DEF Spec

\* The caps count the connections they are meant to: a slot is held, and the gauge counts
\* it, exactly while an unauthenticated connection is served, on all the paths a
\* PreauthContext is dropped or authenticated (sshd.rs:321-341).
THEOREM SlotsMatch == Spec => []SlotsFollowConnections
<1>1. IInv => SlotsFollowConnections
  <2> SUFFICES ASSUME IInv PROVE SlotsFollowConnections
    OBVIOUS
  <2>1. Holders = {c \in Conns : Streaming(conn[c]) /\ ~conn[c].authenticated}
    BY DEF IInv, ConnInv, Holders, Unauthenticated
  <2>2. metrics.current_unauthenticated_connections = Cardinality(Holders)
    BY DEF IInv, CountInv
  <2> QED
    BY <2>1, <2>2 DEF SlotsFollowConnections
<1> QED
  BY <1>1, Invariance, PTL

\* Connections take and give back slots as the admission controller promises them, and in
\* no other way: what Admission implements is what the serving tasks use.
THEOREM SlotsAreUsed == Spec => SlotsSpec
<1>1. Init => SlotsInit
  BY DEF Init
<1>2. IInv /\ [Next]_vars => [SlotsNext]_guard
  <2> SUFFICES ASSUME IInv, [Next]_vars PROVE [SlotsNext]_guard
    OBVIOUS
  <2>1. guard \in [Conns -> Ips \cup {NoGuard}]
    BY DEF IInv, ConnInv
  <2>2. ASSUME NEW c \in Conns, guard' = Freed(c) PROVE Release(c) \/ guard' = guard
    BY <2>1, <2>2 DEF Freed, Release
  <2>3. \/ guard' = guard
        \/ \E c \in Conns, ip \in Ips : Acquire(c, ip)
        \/ \E c \in Conns : guard' = Freed(c)
    BY Zenon DEF Next, vars, Tick, Refuse, Admit, HandshakeRead, SessionRead, HandshakeFails,
           SessionEnds, BannerTimesOut, AuthFailure, AuthSucceeded, Serve, SelectAuth,
           SelectRunning, AwaitRunning
  <2> QED
    BY <2>2, <2>3 DEF SlotsNext
<1> QED
  BY <1>1, <1>2, Invariance, PTL DEF Spec, SlotsSpec

\* A client that stalls is gone, and its slot free, when the deadline of its stage has
\* passed, whatever it has sent before (sshd.rs:393-460, 594-598).
THEOREM StalledClientsGo == Spec => []StallsAreClosed
<1>1. IInv => StallsAreClosed
  <2> SUFFICES ASSUME IInv, NEW c \in Holders
               PROVE  /\ now <= LoginDeadline(conn[c])
                      /\ conn[c].serve = "handshake" =>
                            now <= conn[c].accepted_at + BannerTimeout
                      /\ conn[c].kex_start_deadline # NoTime =>
                            now <= conn[c].kex_start_deadline
    BY DEF StallsAreClosed
  <2>1. /\ TimerInv(conn[c]) /\ OnTime(conn[c], now) /\ Unauthenticated(conn[c]) /\ now \in Nat
    BY DEF IInv, ConnInv, Holders
  <2>2. now <= CurrentDeadline(conn[c])
    BY <2>1 DEF TimerInv, OnTime
  <2>3. LoginDeadline(conn[c]) \in Nat /\ conn[c].kex_start_deadline \in Nat \cup {NoTime}
    BY <2>1, Constants DEF TimerInv, LoginDeadline
  <2>4. now <= LoginDeadline(conn[c])
    BY <2>1, <2>2, <2>3 DEF CurrentDeadline, NoTime
  <2>5. conn[c].kex_start_deadline # NoTime => now <= conn[c].kex_start_deadline
    BY <2>1, <2>2, <2>3 DEF CurrentDeadline, TimerInv, NoTime
  <2> QED
    BY <2>1, <2>4, <2>5 DEF OnTime
<1> QED
  BY <1>1, Invariance, PTL

\* The counters of rejections, timeouts and malformed packets count each connection they
\* are about once, on every path out of serve_connection (sshd.rs:600-668).
THEOREM CountersAreRight == Spec => []RejectionsAreCounted
<1>1. IInv => RejectionsAreCounted
  <2> SUFFICES ASSUME IInv PROVE RejectionsAreCounted
    OBVIOUS
  <2>1. CountsRecorded(metrics)
    BY DEF IInv, CountInv
  <2>2. UNION {RecordedUnder(r) : r \in Timeouts \cup {"banner-timeout"}} = TimedOut
    BY DEF RecordedUnder, TimedOut
  <2>3. \A c \in Conns : conn[c].recorded \in Timeouts => ~conn[c].authenticated
    BY DEF IInv, ConnInv, TasksAgree
  <2> QED
    BY <2>1, <2>2, <2>3 DEF RejectionsAreCounted, CountsRecorded
<1> QED
  BY <1>1, Invariance, PTL

\* A connection is closed for a timeout only when that timeout has elapsed: as the timer is
\* always armed for the next deadline, the fallback of poll_deadline (sshd.rs:454-457)
\* calls nothing else a login timeout.
THEOREM EarnedTimeouts == Spec => TimeoutsAreEarned
<1> DEFINE Step ==
      \A c \in Conns :
          LET s == conn[c] IN
          s.result = "pending" /\ conn'[c].result \in Timeouts =>
              /\ ~s.authenticated
              /\ conn'[c].result = "login-grace-timeout" => now >= s.accepted_at + LoginGrace
              /\ conn'[c].result = "kex-start-timeout" =>
                     now >= s.kex_start_deadline /\ ~s.kex_started
<1>1. IInv /\ [Next]_vars => [Step]_vars
  <2> SUFFICES ASSUME IInv, Next, NEW c \in Conns, conn[c].result = "pending",
                      conn'[c].result \in Timeouts
               PROVE  /\ ~conn[c].authenticated
                      /\ conn'[c].result = "login-grace-timeout" =>
                            now >= conn[c].accepted_at + LoginGrace
                      /\ conn'[c].result = "kex-start-timeout" =>
                            now >= conn[c].kex_start_deadline /\ ~conn[c].kex_started
    OBVIOUS
  <2>1. /\ DOMAIN conn = Conns /\ now \in Nat
        /\ \A d \in Conns : TasksAgree(conn[d]) /\ TimerInv(conn[d]) /\ OnTime(conn[d], now)
    BY DEF IInv, ConnInv
  <2>2. \A d \in Conns : DOMAIN conn[d] = DOMAIN ConnIdle
    BY <2>1 DEF TasksAgree
  \* No step but the end of a stream gives a connection a result.
  <2>3. PICK result : HandshakeFails(c, result) \/ SessionEnds(c, result)
    <3> SUFFICES ASSUME \A result : ~HandshakeFails(c, result) /\ ~SessionEnds(c, result)
                 PROVE  conn'[c].result = conn[c].result
      BY DEF Timeouts
    <3>1. CASE UNCHANGED conn
      BY <3>1
    <3>2. ASSUME NEW d \in Conns,
                 \/ Refuse(d)
                 \/ \E ip \in Ips : Admit(d, ip)
                 \/ BannerTimesOut(d)
                 \/ AuthSucceeded(d)
                 \/ Serve(d)
          PROVE  conn'[c].result = conn[c].result
      <4>1. PICK s : conn' = [conn EXCEPT ![d] = s] /\ s.result = conn[d].result
        <5>1. CASE Refuse(d)
          <6> DEFINE s == [conn[d] EXCEPT !.serve = "done", !.recorded = "refused"]
          <6>1. s.result = conn[d].result
            BY <2>2 DEF ConnIdle
          <6>2. conn' = [conn EXCEPT ![d] = s]
            BY <2>1, <5>1, Zenon DEF Refuse
          <6> QED
            BY <6>1, <6>2, Zenon
        <5>2. CASE \E ip \in Ips : Admit(d, ip)
          BY <2>1, <2>2, <5>2, Zenon DEF Admit, ResetTimer, ConnIdle
        <5>3. CASE BannerTimesOut(d)
          <6> DEFINE s == [StreamDropped(conn[d]) EXCEPT
                   !.serve = "done", !.auth_tx = "dropped", !.recorded = "banner-timeout"]
          <6>1. s.result = conn[d].result
            BY <2>2 DEF StreamDropped, ConnIdle
          <6>2. conn' = [conn EXCEPT ![d] = s]
            BY <2>1, <5>3 DEF BannerTimesOut
          <6> QED
            BY <6>1, <6>2, Zenon
        <5>4. CASE AuthSucceeded(d)
          <6> DEFINE s == [conn[d] EXCEPT !.authenticated = TRUE, !.auth_tx = "sent"]
          <6>1. s.result = conn[d].result
            BY <2>2 DEF ConnIdle
          <6>2. conn' = [conn EXCEPT ![d] = s]
            BY <2>1, <5>4, Zenon DEF AuthSucceeded
          <6> QED
            BY <6>1, <6>2, Zenon
        <5>5. CASE SelectAuth(d) \/ AwaitRunning(d)
          BY <2>1, <2>2, <5>5 DEF SelectAuth, AwaitRunning, ConnIdle
        <5>6. CASE SelectRunning(d)
          <6> DEFINE s == [conn[d] EXCEPT !.serve = "done",
                                          !.recorded = CategoryOf(conn[d].result)]
          <6>1. s.result = conn[d].result
            BY <2>2 DEF ConnIdle
          <6>2. conn' = [conn EXCEPT ![d] = s]
            BY <2>1, <5>6, Zenon DEF SelectRunning
          <6> QED
            BY <6>1, <6>2, Zenon
        <5> QED
          BY <3>2, <5>1, <5>2, <5>3, <5>4, <5>5, <5>6 DEF Serve
      <4> QED
        BY <2>1, <4>1
    <3>3. ASSUME NEW d \in Conns, NEW chunk \in Chunks,
                 \/ \E identified \in BOOLEAN : HandshakeRead(d, chunk, identified)
                 \/ SessionRead(d, chunk)
          PROVE  conn'[c].result = conn[c].result
      <4>1. Unauthenticated(conn[d])
        BY <2>1, <3>3 DEF HandshakeRead, SessionRead, Unauthenticated, Streaming, TasksAgree
      <4>2. PICK n : n = NoteClientBytes(conn[d], chunk, now)
        OBVIOUS
      <4>3. n.result = conn[d].result /\ TasksAgree(n)
        <5>1. TasksAgree(conn[d]) /\ TimerInv(conn[d]) /\ OnTime(conn[d], now) /\ now \in Nat
          BY <2>1
        <5> QED
          BY <4>1, <4>2, <5>1, BytesNoted, Zenon
      <4>4. DOMAIN n = DOMAIN ConnIdle
        BY <4>3 DEF TasksAgree
      <4> QED
        BY <2>1, <3>3, <4>2, <4>3, <4>4, Zenon DEF HandshakeRead, SessionRead, ConnIdle
    <3>4. ASSUME NEW d \in Conns, NEW result \in Results,
                 HandshakeFails(d, result) \/ SessionEnds(d, result)
          PROVE  conn'[c].result = conn[c].result
      <4>1. d # c
        BY <3>4
      <4> QED
        BY <2>1, <3>4, <4>1, Zenon DEF HandshakeFails, SessionEnds
    <3>5. Tick \/ (\E d \in Conns, b \in BOOLEAN : AuthFailure(d, b)) => UNCHANGED conn
      BY DEF Tick, AuthFailure
    <3> QED
      BY <3>1, <3>2, <3>3, <3>4, <3>5 DEF Next
  <2>4. conn'[c].result = result
    <3>1. CASE HandshakeFails(c, result)
      <4> DEFINE s == [StreamDropped(conn[c]) EXCEPT !.serve = "done", !.result = result,
                           !.auth_tx = "dropped", !.recorded = CategoryOf(result)]
      <4>1. s.result = result
        BY <2>2 DEF StreamDropped, ConnIdle
      <4>2. conn' = [conn EXCEPT ![c] = s]
        BY <3>1 DEF HandshakeFails
      <4> QED
        BY <2>1, <4>1, <4>2
    <3>2. CASE SessionEnds(c, result)
      <4> DEFINE s == [StreamDropped(conn[c]) EXCEPT !.session = "ended", !.result = result,
                           !.auth_tx = IF conn[c].auth_tx = "open" THEN "dropped"
                                       ELSE conn[c].auth_tx]
      <4>1. s.result = result
        BY <2>2 DEF StreamDropped, ConnIdle
      <4>2. conn' = [conn EXCEPT ![c] = s]
        BY <3>2 DEF SessionEnds
      <4> QED
        BY <2>1, <4>1, <4>2
    <3> QED
      BY <2>3, <3>1, <3>2
  <2>5. Streaming(conn[c]) /\ StreamEnds(conn[c], result)
    BY <2>3, <2>4 DEF HandshakeFails, SessionEnds, Streaming, Timeouts
  <2>6. ~conn[c].authenticated /\ result = PollDeadline(conn[c], now)
    BY <2>4, <2>5, PolledTimeouts
  <2>7. conn[c].timer = CurrentDeadline(conn[c])
    BY <2>1, <2>5, <2>6 DEF TimerInv, Unauthenticated
  <2>8. result = "login-grace-timeout" => now >= LoginDeadline(conn[c])
    BY <2>6, <2>7 DEF PollDeadline, CheckTimeout, CurrentDeadline
  <2>9. result = "kex-start-timeout" =>
            now >= conn[c].kex_start_deadline /\ ~conn[c].kex_started
    BY <2>6 DEF PollDeadline, CheckTimeout
  <2> QED
    BY <2>4, <2>6, <2>8, <2>9 DEF LoginDeadline
<1> QED
  BY <1>1, Invariance, PTL DEF Spec, TimeoutsAreEarned

\* The table of authentication failures stays within its limit, and an address in it has
\* all of its failures there: one that was turned away when the table was full never
\* enters it later with a part of them (metrics.rs:42-57).
THEOREM FailureTable ==
    Spec => [](/\ Cardinality(FailureIps(metrics)) <= MaxFailureIps
               /\ \A ip \in FailureIps(metrics) :
                     metrics.auth_failures_by_ip[ip] = failures[ip])
<1>1. IInv => /\ Cardinality(FailureIps(metrics)) <= MaxFailureIps
              /\ \A ip \in FailureIps(metrics) :
                    metrics.auth_failures_by_ip[ip] = failures[ip]
  BY DEF IInv, TableInv
<1> QED
  BY <1>1, Invariance, PTL
=============================================================================
