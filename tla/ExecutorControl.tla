--------------------------- MODULE ExecutorControl ---------------------------
(***************************************************************************)
(* The control channel between the listener process and its executor       *)
(* (ExecutorClient, ExecutorState and run_from_control_stdin of            *)
(* src/executor.rs), and the remote forwards set up over it by sessions    *)
(* (tcpip_forward, cancel_tcpip_forward and Drop of ClientHandler in       *)
(* src/sshd.rs).                                                           *)
(*                                                                         *)
(* In the listener run the session tasks and the dispatcher, on one        *)
(* thread, and the control reader, a thread of its own; so the reader may  *)
(* act between the two halves of request.  The socket pair keeps the order *)
(* of messages and loses none while both ends are open.                    *)
(***************************************************************************)
EXTENDS Integers, Sequences, FiniteSets

CONSTANTS
    Sessions,       \* SSH sessions
    NoSession,      \* the caller of a cancel spawned by Drop
    MaxCalls,       \* bound on the requests
    MaxIncoming     \* bound on the connections to forwarded ports

ASSUME ControlConstants ==
    {MaxCalls, MaxIncoming} \subseteq Nat

VARIABLES
    calls,          \* calls[id]: request number id, for id < next_request_id
    pending,        \* ids with a oneshot sender
    next_forward_token,
    registered,     \* remote_forwards of the client: token -> session
    handler,        \* remote_forwards of each session's handler: its tokens
    ended,          \* the sessions that have ended
    to_cancel,      \* tokens whose cancel Drop has spawned
    to_executor,    \* requests on the socket
    to_listener,    \* responses and events on the socket
    listening,      \* remote_forwards of the executor: tokens
    executor,       \* "up" or "down"
    reader,         \* the control reader thread: "up" or "stopped"
    events,         \* RemoteForwardEvents for the dispatcher
    opening,        \* the event whose channel is being opened, with its session
    incoming        \* connections to forwarded ports so far

listener_vars == <<next_forward_token, registered, handler, ended, to_cancel>>
vars == <<calls, pending, next_forward_token, registered, handler, ended, to_cancel,
          to_executor, to_listener, listening, executor, reader, events, opening,
          incoming>>

Ids == 1..MaxCalls
Tokens == 1..MaxCalls
NoToken == 0
Nothing == [token |-> NoToken, session |-> NoSession]

next_request_id == Len(calls) + 1
Returned(id) == calls[id].at = "returned"
Busy(s) == \E id \in DOMAIN calls : calls[id].session = s /\ ~Returned(id)

-----------------------------------------------------------------------------
Init ==
    /\ calls = <<>> /\ pending = {}
    /\ next_forward_token = 1
    /\ registered = [t \in {} |-> NoSession]
    /\ handler = [s \in Sessions |-> {}]
    /\ ended = {} /\ to_cancel = {}
    /\ to_executor = <<>> /\ to_listener = <<>>
    /\ listening = {}
    /\ executor = "up" /\ reader = "up"
    /\ events = <<>> /\ opening = Nothing
    /\ incoming = 0

\* The first half of request: the id is taken and its sender inserted.
Insert(kind, s, token) ==
    /\ Len(calls) < MaxCalls
    /\ calls' = Append(calls, [kind |-> kind, session |-> s, token |-> token,
                               at |-> "inserted", reply |-> "none"])
    /\ pending' = pending \cup {next_request_id}

\* A handler runs one callback at a time, to its end.
MayCall(s) == s \notin ended /\ ~Busy(s)

\* start_process, start_sftp, connect_tcp
StartService(s) ==
    /\ MayCall(s)
    /\ Insert("service", s, NoToken)
    /\ UNCHANGED listener_vars

StartRemoteForward(s) ==
    /\ MayCall(s)
    /\ Insert("forward", s, next_forward_token)
    /\ next_forward_token' = next_forward_token + 1
    /\ UNCHANGED <<registered, handler, ended, to_cancel>>

Unregister(token) ==
    registered' = [t \in DOMAIN registered \ {token} |-> registered[t]]

\* Mutant of CancelRemoteForward: the registration stays until the session ends.
CancelKeepsRegistration(s, token) ==
    /\ MayCall(s) /\ token \in handler[s]
    /\ handler' = [handler EXCEPT ![s] = @ \ {token}]
    /\ Insert("cancel", s, token)
    /\ UNCHANGED <<next_forward_token, registered, ended, to_cancel>>

\* cancel_remote_forward, from cancel_tcpip_forward and from the tasks Drop spawns.
CancelRemoteForward(s, token) ==
    /\ MayCall(s) /\ token \in handler[s]
    /\ handler' = [handler EXCEPT ![s] = @ \ {token}]
    /\ Unregister(token)
    /\ Insert("cancel", s, token)
    /\ UNCHANGED <<next_forward_token, ended, to_cancel>>

\* Mutants of CancelAfterDrop: the registration stays; the executor is not told.
CancelAfterDropKeeps(token) ==
    /\ token \in to_cancel
    /\ to_cancel' = to_cancel \ {token}
    /\ Insert("cancel", NoSession, token)
    /\ UNCHANGED <<next_forward_token, registered, handler, ended>>
CancelAfterDropLocally(token) ==
    /\ token \in to_cancel
    /\ to_cancel' = to_cancel \ {token}
    /\ Unregister(token)
    /\ UNCHANGED <<calls, pending, next_forward_token, handler, ended>>

CancelAfterDrop(token) ==
    /\ token \in to_cancel
    /\ to_cancel' = to_cancel \ {token}
    /\ Unregister(token)
    /\ Insert("cancel", NoSession, token)
    /\ UNCHANGED <<next_forward_token, handler, ended>>

\* Drop for ClientHandler
SessionEnds(s) ==
    /\ s \notin ended /\ ~Busy(s)
    /\ ended' = ended \cup {s}
    /\ to_cancel' = to_cancel \cup handler[s]
    /\ handler' = [handler EXCEPT ![s] = {}]
    /\ UNCHANGED <<calls, pending, next_forward_token, registered>>

\* The second half of request: send, or undo the insertion.
Send(id) ==
    /\ id \in DOMAIN calls /\ calls[id].at = "inserted"
    /\ IF executor = "up"
       THEN /\ to_executor' = Append(to_executor, id)
            /\ calls' = [calls EXCEPT ![id].at = "waiting"]
            /\ UNCHANGED pending
       ELSE /\ pending' = pending \ {id}
            /\ calls' = [calls EXCEPT ![id].at = "returned", ![id].reply = "err"]
            /\ UNCHANGED to_executor
    /\ UNCHANGED listener_vars

\* rx.await, and what start_remote_forward and tcpip_forward do with the response.
Return(id) ==
    /\ id \in DOMAIN calls /\ calls[id].at = "waiting" /\ calls[id].reply # "none"
    /\ calls' = [calls EXCEPT ![id].at = "returned"]
    /\ LET call == calls[id] IN
       IF call.kind = "forward" /\ call.reply = "ok"
       THEN /\ registered' = [t \in DOMAIN registered \cup {call.token} |->
                                 IF t = call.token THEN call.session ELSE registered[t]]
            /\ handler' = [handler EXCEPT ![call.session] = @ \cup {call.token}]
       ELSE UNCHANGED <<registered, handler>>
    /\ UNCHANGED <<pending, next_forward_token, ended, to_cancel, to_executor>>

-----------------------------------------------------------------------------
\* The executor: one request at a time, each answered before the next.
Respond(id, result) ==
    to_listener' = Append(to_listener, [of |-> "response", id |-> id, result |-> result])

Execute(result) ==
    /\ executor = "up" /\ to_executor # <<>>
    /\ LET id == Head(to_executor)
           call == calls[id]
       IN  CASE call.kind = "service" ->
                  Respond(id, result) /\ UNCHANGED listening
             [] call.kind = "forward" ->
                  /\ Respond(id, result)
                  /\ listening' = IF result = "ok" THEN listening \cup {call.token} ELSE listening
             [] call.kind = "cancel" ->
                  /\ result = IF call.token \in listening THEN "ok" ELSE "err"
                  /\ Respond(id, result)
                  /\ listening' = listening \ {call.token}
    /\ to_executor' = Tail(to_executor)
    /\ UNCHANGED executor

\* The accept loop of a forward hands a connection to the listener process.
Accept(token) ==
    /\ executor = "up" /\ token \in listening
    /\ incoming < MaxIncoming
    /\ incoming' = incoming + 1
    /\ to_listener' = Append(to_listener, [of |-> "incoming", token |-> token])
    /\ UNCHANGED <<to_executor, listening, executor>>

\* The executor exits or dies; nothing starts it again.
ExecutorStops ==
    /\ executor = "up"
    /\ executor' = "down"
    /\ to_executor' = <<>>
    /\ listening' = {}
    /\ UNCHANGED to_listener

-----------------------------------------------------------------------------
\* The control reader thread.
ReadResponse ==
    /\ reader = "up" /\ to_listener # <<>> /\ Head(to_listener).of = "response"
    /\ LET id == Head(to_listener).id IN
       /\ pending' = pending \ {id}
       /\ calls' = IF id \in pending
                   THEN [calls EXCEPT ![id].reply = Head(to_listener).result]
                   ELSE calls
    /\ to_listener' = Tail(to_listener)
    /\ UNCHANGED <<reader, events>>

ReadIncoming ==
    /\ reader = "up" /\ to_listener # <<>> /\ Head(to_listener).of = "incoming"
    /\ events' = Append(events, Head(to_listener).token)
    /\ to_listener' = Tail(to_listener)
    /\ UNCHANGED <<calls, pending, reader>>

\* Mutant of ReaderStops: the senders still pending are kept.
ReaderStopsSilently ==
    /\ reader = "up"
    /\ (executor = "down" /\ to_listener = <<>>) \/ to_listener # <<>>
    /\ reader' = "stopped"
    /\ UNCHANGED <<calls, pending, to_listener, events>>

\* EOF, or a message that cannot be decoded: every sender still pending gets an error.
ReaderStops ==
    /\ reader = "up"
    /\ (executor = "down" /\ to_listener = <<>>) \/ to_listener # <<>>
    /\ reader' = "stopped"
    /\ calls' = [id \in DOMAIN calls |->
                    IF id \in pending THEN [calls[id] EXCEPT !.reply = "closed"] ELSE calls[id]]
    /\ pending' = {}
    /\ UNCHANGED <<to_listener, events>>

-----------------------------------------------------------------------------
\* dispatch_remote_forward_event: the registration is looked up, the channel is opened
\* while other tasks run, and only then is the next event taken.
Dispatch ==
    /\ opening = Nothing /\ events # <<>>
    /\ events' = Tail(events)
    /\ opening' = IF Head(events) \in DOMAIN registered
                  THEN [token |-> Head(events), session |-> registered[Head(events)]]
                  ELSE Nothing

\* The client accepts or refuses the channel, or its session has ended.
ChannelOpenEnds ==
    /\ opening # Nothing
    /\ opening' = Nothing
    /\ UNCHANGED events

-----------------------------------------------------------------------------
Requests ==
    /\ \/ \E s \in Sessions :
             \/ StartService(s) \/ StartRemoteForward(s) \/ SessionEnds(s)
             \/ \E token \in Tokens : CancelRemoteForward(s, token)
       \/ \E token \in Tokens : CancelAfterDrop(token)
    /\ UNCHANGED <<to_executor, to_listener, listening, executor, reader, events, opening,
                   incoming>>

Replies ==
    /\ \E id \in Ids : Send(id) \/ Return(id)
    /\ UNCHANGED <<to_listener, listening, executor, reader, events, opening, incoming>>

Executor ==
    /\ \E result \in {"ok", "err"} : Execute(result)
    /\ UNCHANGED <<calls, pending, reader, events, opening, incoming>>
    /\ UNCHANGED listener_vars

ExecutorEvents ==
    /\ \/ \E token \in Tokens : Accept(token)
       \/ ExecutorStops /\ UNCHANGED incoming
    /\ UNCHANGED <<calls, pending, reader, events, opening>>
    /\ UNCHANGED listener_vars

Reader ==
    /\ ReadResponse \/ ReadIncoming \/ ReaderStops
    /\ UNCHANGED <<to_executor, listening, executor, opening, incoming>>
    /\ UNCHANGED listener_vars

Dispatcher ==
    /\ Dispatch \/ ChannelOpenEnds
    /\ UNCHANGED <<calls, pending, to_executor, to_listener, listening, executor, reader,
                   incoming>>
    /\ UNCHANGED listener_vars

Next == Requests \/ Replies \/ Executor \/ ExecutorEvents \/ Reader \/ Dispatcher

\* Tasks that are woken are polled, the executor works through its requests, and the
\* reader thread is scheduled.
Spec ==
    /\ Init /\ [][Next]_vars
    /\ WF_vars(Replies) /\ WF_vars(Executor) /\ WF_vars(Reader)

-----------------------------------------------------------------------------
\* A token is registered exactly while a live session's handler holds it or its cancel
\* is about to run, and for that session: neither an early incoming connection nor a
\* session that ends leaves a registration behind (executor.rs:607-620, 633-634,
\* sshd.rs:804-816).
RegistrationsAreOwned ==
    /\ DOMAIN registered = to_cancel \cup UNION {handler[s] : s \in Sessions}
    /\ \A s \in Sessions : \A t \in handler[s] : registered[t] = s /\ s \notin ended

\* While the control channel works, the executor listens on no port that the listener
\* process has forgotten: the forward is being started, is held by a session or is
\* being cancelled (executor.rs:582-652).
NoForwardLeaks ==
    reader = "up" =>
        \A t \in listening :
            \/ t \in DOMAIN registered
            \/ \E id \in DOMAIN calls :
                  calls[id].token = t /\ ~Returned(id)

\* A connection to a forwarded port is offered only to the session that asked for the
\* forward, and never once its cancel has begun (executor.rs:924-947).
ForwardsReachTheirSession ==
    [][opening' # opening /\ opening' # Nothing =>
          /\ \E id \in DOMAIN calls :
                /\ calls[id].kind = "forward"
                /\ calls[id].token = opening'.token
                /\ calls[id].session = opening'.session
          /\ ~\E id \in DOMAIN calls :
                calls[id].kind = "cancel" /\ calls[id].token = opening'.token]_vars

\* Every request returns, with a response, or with an error when the executor is gone,
\* whatever the order in which it is inserted, sent and drained; one may wait only if
\* the reader stopped at a message it could not take (executor.rs:414-475, 665-682).
CallsReturn ==
    \A id \in Ids :
        (id \in DOMAIN calls) ~>
            \/ id \in DOMAIN calls /\ Returned(id)
            \/ reader = "stopped" /\ to_listener # <<>>
=============================================================================
