------------------------------ MODULE Connection ------------------------------
(***************************************************************************)
(* One connection from accept to end (serve_connection, PreauthContext and *)
(* PreauthTimedStream of src/sshd.rs), many at a time, over the slots the  *)
(* admission controller promises and the counters of src/metrics.rs.       *)
(*                                                                         *)
(* Two tasks serve a connection.  serve_connection awaits run_stream under *)
(* the banner timeout and then selects between the authentication signal   *)
(* and the end of the session; the session task, spawned by run_stream     *)
(* (russh), owns the timed stream and the handler with its PreauthContext. *)
(* Both run on one thread, so every poll is one action.  A tick of the     *)
(* clock is longer than any scheduling delay: time does not pass while a   *)
(* due timer has not been served.                                          *)
(***************************************************************************)
EXTENDS ConnectionSlots, Functions

CONSTANTS
    LoginGrace,     \* login_grace_time
    BannerTimeout,  \* client_banner_timeout
    KexTimeout,     \* kex_start_timeout
    MaxFailureIps,  \* the 4096 addresses whose failures are counted one by one
    MaxFailures,    \* bound on the authentication failures
    MaxTime         \* bound on the clock

ASSUME ConnectionConstants ==
    {LoginGrace, BannerTimeout, KexTimeout, MaxFailureIps, MaxFailures, MaxTime}
        \subseteq Nat

VARIABLES
    now,        \* the clock
    conn,       \* conn[c]: the tasks, the stream and the context of connection c
    metrics,    \* MetricsState, see MetricsNew
    failures    \* history: the authentication failures of each address

vars == <<now, guard, conn, metrics, failures>>

NoTime == -1
Timeouts == {"login-grace-timeout", "kex-start-timeout"}
Results == Timeouts \cup {"pending", "ok", "malformed", "other"}
Categories == Timeouts \cup {"refused", "banner-timeout", "malformed-disconnect"}

\* serve and session are where the two tasks are; auth_tx is the one-shot channel
\* between them.  recorded is history: the category the connection was counted under.
ConnIdle ==
    [serve |-> "idle", session |-> "none", result |-> "pending", auth_tx |-> "open",
     authenticated |-> FALSE, accepted_at |-> 0, timer |-> 0,
     kex_start_deadline |-> NoTime, kex_started |-> FALSE,
     client_banner_complete |-> FALSE, recorded |-> "none"]

-----------------------------------------------------------------------------
\* PreauthTimedStream
LoginDeadline(s) == s.accepted_at + LoginGrace

\* Mutant of CurrentDeadline: the timer waits for the login deadline only.
CurrentDeadlineLogin(s) == LoginDeadline(s)

CurrentDeadline(s) ==
    IF s.kex_start_deadline # NoTime /\ ~s.kex_started
       /\ s.kex_start_deadline < LoginDeadline(s)
    THEN s.kex_start_deadline
    ELSE LoginDeadline(s)

ResetTimer(s) == [s EXCEPT !.timer = CurrentDeadline(s)]

CheckTimeout(s, t) ==
    IF s.authenticated THEN "none"
    ELSE IF t >= LoginDeadline(s) THEN "login-grace-timeout"
    ELSE IF s.kex_start_deadline # NoTime /\ ~s.kex_started /\ t >= s.kex_start_deadline
         THEN "kex-start-timeout"
    ELSE "none"

\* The client bytes of one read, without or with a line end.  What follows the end of
\* the banner's line in the same read is ignored by note_client_bytes, so a first
\* key-exchange packet that comes with the banner does not stop the timer.
Chunks == {"more", "line"}

\* Mutant of NoteClientBytes: the start of the key exchange leaves the timer armed.
NoteClientBytesNoReset(s, chunk, t) ==
    IF s.authenticated THEN s
    ELSE IF ~s.client_banner_complete
         THEN IF chunk = "more" THEN s
              ELSE ResetTimer([s EXCEPT !.client_banner_complete = TRUE,
                                        !.kex_start_deadline = t + KexTimeout])
    ELSE [s EXCEPT !.kex_started = TRUE, !.kex_start_deadline = NoTime]

NoteClientBytes(s, chunk, t) ==
    IF s.authenticated THEN s
    ELSE IF ~s.client_banner_complete
         THEN IF chunk = "more" THEN s
              ELSE ResetTimer([s EXCEPT !.client_banner_complete = TRUE,
                                        !.kex_start_deadline = t + KexTimeout])
    ELSE IF ~s.kex_started
         THEN ResetTimer([s EXCEPT !.kex_started = TRUE,
                                   !.kex_start_deadline = NoTime])
    ELSE s

\* poll_deadline: a timer that fires while nothing is overdue counts as login grace.
PollDeadline(s, t) ==
    IF CheckTimeout(s, t) # "none" THEN CheckTimeout(s, t)
    ELSE IF ~s.authenticated /\ t >= s.timer THEN "login-grace-timeout"
    ELSE "none"

-----------------------------------------------------------------------------
\* ServerMetrics
MetricsNew ==
    [current_unauthenticated_connections |-> 0,
     rejected_connections_by_reason |-> [r \in Categories |-> 0],
     preauth_timeouts |-> 0,
     malformed_packet_disconnects |-> 0,
     auth_failures_by_ip |-> [ip \in Ips |-> 0],
     auth_failure_ip_overflow |-> 0,
     temporary_bans_issued |-> 0]

PreauthOpened(m) == [m EXCEPT !.current_unauthenticated_connections = @ + 1]

PreauthClosed(m) ==
    [m EXCEPT !.current_unauthenticated_connections = IF @ > 0 THEN @ - 1 ELSE 0]

RecordRejected(m, reason) == [m EXCEPT !.rejected_connections_by_reason[reason] = @ + 1]

FailureIps(m) == {ip \in Ips : m.auth_failures_by_ip[ip] > 0}

\* Mutant of MetricsAuthFailure: one address too many is let into the table.
MetricsAuthFailureOneMore(m, ip, banned) ==
    LET failed ==
            IF ip \in FailureIps(m) \/ Cardinality(FailureIps(m)) <= MaxFailureIps
            THEN [m EXCEPT !.auth_failures_by_ip[ip] = @ + 1]
            ELSE [m EXCEPT !.auth_failure_ip_overflow = @ + 1]
    IN  IF banned THEN [failed EXCEPT !.temporary_bans_issued = @ + 1] ELSE failed

MetricsAuthFailure(m, ip, banned) ==
    LET failed ==
            IF ip \in FailureIps(m) \/ Cardinality(FailureIps(m)) < MaxFailureIps
            THEN [m EXCEPT !.auth_failures_by_ip[ip] = @ + 1]
            ELSE [m EXCEPT !.auth_failure_ip_overflow = @ + 1]
    IN  IF banned THEN [failed EXCEPT !.temporary_bans_issued = @ + 1] ELSE failed

\* How serve_connection counts the error run_stream or the session ended with.
CategoryOf(result) ==
    IF result \in Timeouts THEN result
    ELSE IF result = "malformed" THEN "malformed-disconnect"
    ELSE "none"

\* Mutant of Counted: a malformed disconnect is counted as a timeout too.
CountedTwice(m, category) ==
    IF category = "none" THEN m
    ELSE LET rejected == RecordRejected(m, category)
         IN  IF category = "malformed-disconnect"
             THEN [rejected EXCEPT !.malformed_packet_disconnects = @ + 1,
                                   !.preauth_timeouts = @ + 1]
             ELSE [rejected EXCEPT !.preauth_timeouts = @ + 1]

Counted(m, category) ==
    IF category = "none" THEN m
    ELSE LET rejected == RecordRejected(m, category)
         IN  IF category = "malformed-disconnect"
             THEN [rejected EXCEPT !.malformed_packet_disconnects = @ + 1]
             ELSE [rejected EXCEPT !.preauth_timeouts = @ + 1]

\* Mutant of GuardTaken: the gauge goes down even when the guard was taken before.
GuardTakenAlways(c, m) == PreauthClosed(m)

\* What Drop for PreauthContext, and mark_authenticated, do with the gauge when the
\* guard is still there; the guard itself is released with it.
GuardTaken(c, m) == IF guard[c] = NoGuard THEN m ELSE PreauthClosed(m)

Freed(c) == [guard EXCEPT ![c] = NoGuard]

-----------------------------------------------------------------------------
Init ==
    /\ now = 0
    /\ SlotsInit
    /\ conn = [c \in Conns |-> ConnIdle]
    /\ metrics = MetricsNew
    /\ failures = [ip \in Ips |-> 0]

\* try_acquire refused: a cap, the rate or a ban.
Refuse(c) ==
    /\ conn[c].serve = "idle"
    /\ conn' = [conn EXCEPT ![c].serve = "done", ![c].recorded = "refused"]
    /\ metrics' = RecordRejected(metrics, "refused")
    /\ UNCHANGED <<now, guard, failures>>

Admit(c, ip) ==
    /\ conn[c].serve = "idle"
    /\ Acquire(c, ip)
    /\ conn' = [conn EXCEPT ![c] = ResetTimer([@ EXCEPT !.serve = "handshake",
                                                        !.accepted_at = now])]
    /\ metrics' = PreauthOpened(metrics)
    /\ UNCHANGED <<now, failures>>

\* run_stream (russh) reads up to the client's identification line and then spawns
\* the session; other lines may come before it.
HandshakeRead(c, chunk, identified) ==
    /\ conn[c].serve = "handshake"
    /\ CheckTimeout(conn[c], now) = "none"
    /\ identified => chunk # "more"
    /\ LET s == NoteClientBytes(conn[c], chunk, now)
       IN  conn' = [conn EXCEPT ![c] =
                       IF identified
                       THEN [s EXCEPT !.serve = "select", !.session = "running"]
                       ELSE s]
    /\ UNCHANGED <<now, guard, metrics, failures>>

\* Whether the stream's next poll may end with this result.
StreamEnds(s, result) ==
    \/ result \in {"malformed", "other"} /\ CheckTimeout(s, now) = "none"
    \/ result = PollDeadline(s, now) /\ result # "none"

\* What the stream remembers goes with it.
StreamDropped(s) ==
    [s EXCEPT !.accepted_at = 0, !.timer = 0, !.kex_start_deadline = NoTime,
              !.kex_started = FALSE, !.client_banner_complete = FALSE]

\* Ok(Err(err)): the handler is dropped with run_stream, then the error is counted.
HandshakeFails(c, result) ==
    /\ conn[c].serve = "handshake"
    /\ StreamEnds(conn[c], result)
    /\ guard' = Freed(c)
    /\ metrics' = Counted(GuardTaken(c, metrics), CategoryOf(result))
    /\ conn' = [conn EXCEPT ![c] = [StreamDropped(@) EXCEPT
                     !.serve = "done", !.result = result,
                     !.auth_tx = "dropped", !.recorded = CategoryOf(result)]]
    /\ UNCHANGED <<now, failures>>

\* Err(_): client_banner_timeout elapsed and run_stream is dropped; tokio polls
\* run_stream first, so a stream that is overdue by itself ends by HandshakeFails.
BannerElapsed(s) == s.serve = "handshake" /\ now >= s.accepted_at + BannerTimeout

BannerTimesOut(c) ==
    /\ BannerElapsed(conn[c])
    /\ PollDeadline(conn[c], now) = "none"
    /\ guard' = Freed(c)
    /\ metrics' = Counted(GuardTaken(c, metrics), "banner-timeout")
    /\ conn' = [conn EXCEPT ![c] = [StreamDropped(@) EXCEPT
                     !.serve = "done", !.auth_tx = "dropped", !.recorded = "banner-timeout"]]
    /\ UNCHANGED <<now, failures>>

-----------------------------------------------------------------------------
\* The session task (russh), which calls the handler.
SessionRead(c, chunk) ==
    /\ conn[c].session = "running" /\ ~conn[c].authenticated
    /\ CheckTimeout(conn[c], now) = "none"
    /\ conn' = [conn EXCEPT ![c] = NoteClientBytes(@, chunk, now)]
    /\ UNCHANGED <<now, guard, metrics, failures>>

\* The handler is asked to authenticate only after the key exchange.
MayAuthenticate(s) ==
    s.session = "running" /\ ~s.authenticated /\ s.kex_started
        /\ CheckTimeout(s, now) = "none"

\* history: all the authentication failures there were
SumOfFailures == FoldFunction(+, 0, failures)

\* record_auth_failure of the handler; what it does to the bans is Admission's.
AuthFailure(c, banned) ==
    /\ MayAuthenticate(conn[c])
    /\ SumOfFailures < MaxFailures
    /\ metrics' = MetricsAuthFailure(metrics, guard[c], banned)
    /\ failures' = [failures EXCEPT ![guard[c]] = @ + 1]
    /\ UNCHANGED <<now, guard, conn>>

\* auth_succeeded: mark_authenticated of the context.
AuthSucceeded(c) ==
    /\ MayAuthenticate(conn[c])
    /\ guard' = Freed(c)
    /\ metrics' = GuardTaken(c, metrics)
    /\ conn' = [conn EXCEPT ![c].authenticated = TRUE, ![c].auth_tx = "sent"]
    /\ UNCHANGED <<now, failures>>

\* The session ends, in the same poll drops the handler, and with it the context.
SessionEnds(c, result) ==
    /\ conn[c].session = "running"
    /\ \/ result = "ok" /\ CheckTimeout(conn[c], now) = "none"
       \/ StreamEnds(conn[c], result)
    /\ guard' = Freed(c)
    /\ metrics' = GuardTaken(c, metrics)
    /\ conn' = [conn EXCEPT ![c] = [StreamDropped(@) EXCEPT
                     !.session = "ended", !.result = result,
                     !.auth_tx = IF conn[c].auth_tx = "open" THEN "dropped"
                                 ELSE conn[c].auth_tx]]
    /\ UNCHANGED <<now, failures>>

\* select!: both branches may be ready, and then either is taken.
SelectAuth(c) ==
    /\ conn[c].serve = "select" /\ conn[c].auth_tx # "open"
    /\ conn' = [conn EXCEPT ![c].serve = "await_running"]
    /\ UNCHANGED <<now, guard, metrics, failures>>

SelectRunning(c) ==
    /\ conn[c].serve = "select" /\ conn[c].session = "ended"
    /\ metrics' = Counted(metrics, CategoryOf(conn[c].result))
    /\ conn' = [conn EXCEPT ![c].serve = "done",
                            ![c].recorded = CategoryOf(conn[c].result)]
    /\ UNCHANGED <<now, guard, failures>>

\* Mutant of AwaitRunning: only a successful authentication signal is awaited on.
AwaitRunningSent(c) ==
    /\ conn[c].serve = "await_running" /\ conn[c].session = "ended"
    /\ conn[c].auth_tx = "sent"
    /\ conn' = [conn EXCEPT ![c].serve = "done"]
    /\ UNCHANGED <<now, guard, metrics, failures>>

AwaitRunning(c) ==
    /\ conn[c].serve = "await_running" /\ conn[c].session = "ended"
    /\ conn' = [conn EXCEPT ![c].serve = "done"]
    /\ UNCHANGED <<now, guard, metrics, failures>>

-----------------------------------------------------------------------------
\* A task owns the stream until the connection fails or its session ends.
Streaming(s) == s.serve = "handshake" \/ s.session = "running"

Tick ==
    /\ now < MaxTime
    /\ \A c \in Conns :
           /\ Streaming(conn[c]) => conn[c].authenticated \/ now < conn[c].timer
           /\ ~BannerElapsed(conn[c])
    /\ now' = now + 1
    /\ UNCHANGED <<guard, conn, metrics, failures>>

Serve(c) == SelectAuth(c) \/ SelectRunning(c) \/ AwaitRunning(c)

Next ==
    \/ Tick
    \/ \E c \in Conns :
          \/ Refuse(c)
          \/ \E ip \in Ips : Admit(c, ip)
          \/ \E chunk \in Chunks :
                \/ \E identified \in BOOLEAN : HandshakeRead(c, chunk, identified)
                \/ SessionRead(c, chunk)
          \/ \E result \in Results : HandshakeFails(c, result) \/ SessionEnds(c, result)
          \/ BannerTimesOut(c)
          \/ \E banned \in BOOLEAN : AuthFailure(c, banned)
          \/ AuthSucceeded(c)
          \/ Serve(c)

\* The runtime polls a task that has been woken.
Spec == Init /\ [][Next]_vars /\ \A c \in Conns : WF_vars(Serve(c))

-----------------------------------------------------------------------------
\* A slot is held, and counted by the gauge, exactly while a connection that has not
\* authenticated is being served: mark_authenticated and the drops of the context
\* on every path give it back once (sshd.rs:321-341).
SlotsFollowConnections ==
    /\ Holders = {c \in Conns : Streaming(conn[c]) /\ ~conn[c].authenticated}
    /\ metrics.current_unauthenticated_connections = Cardinality(Holders)

\* A connection that stalls before its banner is complete, before it starts the key
\* exchange or before it authenticates is closed, and its slot free, when that
\* stage's deadline passes (sshd.rs:393-460, 594-598).
StallsAreClosed ==
    \A c \in Holders :
        LET s == conn[c] IN
        /\ now <= LoginDeadline(s)
        /\ s.serve = "handshake" => now <= s.accepted_at + BannerTimeout
        /\ s.kex_start_deadline # NoTime => now <= s.kex_start_deadline

\* A connection is closed for a timeout only if that timeout has elapsed and the
\* client has not authenticated; the fallback of poll_deadline (sshd.rs:454-457) never
\* calls anything else a login timeout.
TimeoutsAreEarned ==
    [][\A c \in Conns :
          LET s == conn[c] IN
          s.result = "pending" /\ conn'[c].result \in Timeouts =>
              /\ ~s.authenticated
              /\ conn'[c].result = "login-grace-timeout" => now >= s.accepted_at + LoginGrace
              /\ conn'[c].result = "kex-start-timeout" =>
                     now >= s.kex_start_deadline /\ ~s.kex_started]_vars

\* The connections counted under a category.
RecordedUnder(r) == {c \in Conns : conn[c].recorded = r}

\* Every category counts the connections it was recorded for, the timeout counter those
\* of the three timeouts, and an authenticated connection is never among these
\* (sshd.rs:600-668, metrics.rs:33-73).
RejectionsAreCounted ==
    /\ \A r \in Categories :
          metrics.rejected_connections_by_reason[r] = Cardinality(RecordedUnder(r))
    /\ metrics.preauth_timeouts =
          Cardinality(UNION {RecordedUnder(r) : r \in Timeouts \cup {"banner-timeout"}})
    /\ metrics.malformed_packet_disconnects = Cardinality(RecordedUnder("malformed-disconnect"))
    /\ \A c \in Conns : conn[c].recorded \in Timeouts => ~conn[c].authenticated

\* No authentication failure is lost when the table of addresses is full, and the
\* table stays within its limit (metrics.rs:42-57).
FailuresAreCounted ==
    /\ Cardinality(FailureIps(metrics)) <= MaxFailureIps
    /\ FoldFunction(+, metrics.auth_failure_ip_overflow, metrics.auth_failures_by_ip)
          = SumOfFailures
    /\ \A ip \in FailureIps(metrics) : metrics.auth_failures_by_ip[ip] = failures[ip]

\* When a session has ended its serve_connection task ends too, whichever branch of
\* select! it took (sshd.rs:640-672).
ServeEnds == \A c \in Conns : conn[c].session = "ended" ~> conn[c].serve = "done"

\* "Record counters for pre-auth timeouts" (docs/public-exposure-roadmap.md): a connection
\* closed by a pre-authentication timeout is counted as one.
TimeoutsAreCounted ==
    \A c \in Conns :
        conn[c].serve = "done" /\ conn[c].result \in Timeouts =>
            conn[c].recorded = conn[c].result
=============================================================================
