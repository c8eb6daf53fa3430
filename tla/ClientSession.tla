---------------------------- MODULE ClientSession ----------------------------
(***************************************************************************)
(* The handler of one authenticated session (ClientHandler): channels and  *)
(* what is requested for them before a program starts, and the table of    *)
(* remote forwards.  russh runs one callback at a time, to its end; the    *)
(* forwards wait for the executor, whose listeners may die meanwhile.      *)
(* The configuration is any one, chosen at the start.                      *)
(***************************************************************************)
EXTENDS Naturals, FiniteSets, Functions

CONSTANTS
    Channels,    \* channels the client opens
    Terms,       \* terminal types it asks for
    Names,       \* names of environment variables it asks for
    Values,      \* and their values
    Addresses,   \* addresses it asks to forward; "" is any
    Ports,       \* ports it may be given, from 1
    BadPort,     \* a port number above 65535
    None,
    MaxForwards  \* remote forwards the session starts in all

ASSUME ClientSessionAssumption ==
    /\ Ports \subseteq Nat \ {0}
    /\ BadPort \notin Ports \cup {0}
    /\ None \notin Terms \cup Values
    /\ MaxForwards \in Nat

VARIABLES
    config,            \* the part of Config the callbacks read
    opened,            \* channels opened so far
    pending_channels,  \* channels without a program: terminal and environment
    programs,          \* what was started on a channel
    granted,           \* what the client was told it has on a channel
    remote_forwards,   \* ForwardKey to token
    handler,           \* the call to the executor the handler waits for
    tokens,            \* forward tokens taken so far
    listeners,         \* the executor's listeners of this session, by token
    to_cancel,         \* tokens whose cancel a spawned task sends
    session            \* up, or ended

channel_vars == <<opened, pending_channels, programs, granted>>
forward_vars == <<remote_forwards, handler, tokens, listeners, to_cancel>>
vars == <<config, channel_vars, forward_vars, session>>

NoEnv == [n \in {} |-> None]
Fresh == [pty |-> None, env |-> NoEnv]
Idle == [at |-> "idle"]
ForwardKey(address, port) == [address |-> address, port |-> port]
With(f, x, y) == [z \in DOMAIN f \cup {x} |-> IF z = x THEN y ELSE f[z]]
Without(f, x) == Restrict(f, DOMAIN f \ {x})

Init ==
    /\ config \in [permit_tty : BOOLEAN, permit_exec : BOOLEAN, sftp_enabled : BOOLEAN,
                   allow_remote_forwarding : BOOLEAN, gateway_ports : BOOLEAN]
    /\ opened = {}
    /\ pending_channels = [c \in {} |-> Fresh]
    /\ programs = [c \in {} |-> Fresh]
    /\ granted = [c \in Channels |-> Fresh]
    /\ remote_forwards = [k \in {} |-> 0]
    /\ handler = Idle
    /\ tokens = 0
    /\ listeners = [t \in {} |-> None]
    /\ to_cancel = {}
    /\ session = "up"

-----------------------------------------------------------------------------
(* Channels. *)

is_env_allowed(name) == name \in {"TERM", "COLORTERM", "LANG", "TZ", "LC_ALL"}

Ready == session = "up" /\ handler = Idle

(* A reply that changes nothing. *)
Refuse == UNCHANGED vars

(* Mutant of Drop: the table goes without its forwards being cancelled. *)
DropTable ==
    /\ session' = "ended"
    /\ remote_forwards' = [k \in {} |-> 0]
    /\ UNCHANGED to_cancel

(* Drop for ClientHandler: a task per forward to cancel it. *)
Drop ==
    /\ session' = "ended"
    /\ to_cancel' = to_cancel \cup Range(remote_forwards)
    /\ remote_forwards' = [k \in {} |-> 0]

(* An error of a callback, as for an unknown channel, ends the session. *)
Fail == Drop /\ UNCHANGED <<config, channel_vars, handler, tokens, listeners>>

ChannelOpenSession(c) ==
    /\ Ready /\ c \notin opened
    /\ opened' = opened \cup {c}
    /\ pending_channels' = With(pending_channels, c, Fresh)
    /\ UNCHANGED <<config, programs, granted, forward_vars, session>>

(* The reply to a request on c tells the client it has what `pending` holds. *)
EnvRequest(c, name, value) ==
    /\ Ready /\ c \in opened
    /\ \/ ~is_env_allowed(name) /\ Refuse
       \/ is_env_allowed(name) /\ c \notin DOMAIN pending_channels /\ Fail
       \/ /\ is_env_allowed(name) /\ c \in DOMAIN pending_channels
          /\ pending_channels' = [pending_channels EXCEPT ![c].env = With(@, name, value)]
          /\ granted' = [granted EXCEPT ![c].env = With(@, name, value)]
          /\ UNCHANGED <<config, opened, programs, forward_vars, session>>

PtyRequest(c, term) ==
    /\ Ready /\ c \in opened
    /\ \/ ~config.permit_tty /\ Refuse
       \/ config.permit_tty /\ c \notin DOMAIN pending_channels /\ Fail
       \/ /\ config.permit_tty /\ c \in DOMAIN pending_channels
          /\ pending_channels' = [pending_channels EXCEPT ![c].pty = term]
          /\ granted' = [granted EXCEPT ![c].pty = term]
          /\ UNCHANGED <<config, opened, programs, forward_vars, session>>

(* The requested variables that are allowed; the terminal type of a terminal *)
(* unless one was requested; HOME, USER, LOGNAME and SHELL are left out.     *)
build_child_env(env, term) ==
    LET allowed == Restrict(env, {n \in DOMAIN env : is_env_allowed(n)})
    IN  IF term = None \/ "TERM" \in DOMAIN allowed THEN allowed
        ELSE With(allowed, "TERM", term)

(* launch_process; the sftp server takes neither terminal nor environment. *)
Started(kind, pending) ==
    IF kind = "sftp" THEN [kind |-> kind, pty |-> None, env |-> NoEnv]
    ELSE [kind |-> kind, pty |-> pending.pty, env |-> build_child_env(pending.env, pending.pty)]

(* Mutant of Launch: the channel stays pending while its program runs. *)
LaunchInPlace(c, kind) ==
    /\ pending_channels' = pending_channels
    /\ \E started \in BOOLEAN :
         programs' = IF started THEN With(programs, c, Started(kind, pending_channels[c]))
                     ELSE programs

(* The channel is taken first: when the executor cannot start the program the *)
(* client is told so, and the channel is gone from the table all the same.    *)
Launch(c, kind) ==
    /\ pending_channels' = Without(pending_channels, c)
    /\ \E started \in BOOLEAN :
         programs' = IF started THEN With(programs, c, Started(kind, pending_channels[c]))
                     ELSE programs

(* shell_request, exec_request and subsystem_request. *)
ProgramRequest(c, kind) ==
    /\ Ready /\ c \in opened
    /\ LET permitted == CASE kind = "shell" -> TRUE
                          [] kind = "exec" -> config.permit_exec
                          [] kind = "sftp" -> config.sftp_enabled
       IN  \/ ~permitted /\ Refuse
           \/ permitted /\ c \notin DOMAIN pending_channels /\ Fail
           \/ /\ permitted /\ c \in DOMAIN pending_channels
              /\ Launch(c, kind)
              /\ UNCHANGED <<config, opened, granted, forward_vars, session>>

ChannelClose(c) ==
    /\ Ready /\ c \in DOMAIN pending_channels
    /\ pending_channels' = Without(pending_channels, c)
    /\ UNCHANGED <<config, opened, programs, granted, forward_vars, session>>

-----------------------------------------------------------------------------
(* Remote forwards. *)

BindHost(address) ==
    IF ~config.gateway_ports THEN "127.0.0.1"
    ELSE IF address = "" THEN "0.0.0.0" ELSE address

(* tcpip_forward up to the call of the executor. *)
TcpipForward(address, port) ==
    /\ Ready /\ tokens < MaxForwards
    /\ \/ ~config.allow_remote_forwarding /\ Refuse
       \/ config.allow_remote_forwarding /\ port = BadPort /\ Fail
       \/ /\ config.allow_remote_forwarding /\ port # BadPort
          /\ ForwardKey(address, port) \in DOMAIN remote_forwards /\ Refuse
       \/ /\ config.allow_remote_forwarding /\ port # BadPort
          /\ ForwardKey(address, port) \notin DOMAIN remote_forwards
          /\ tokens' = tokens + 1
          /\ handler' = [at |-> "bind", token |-> tokens + 1, address |-> address, port |-> port]
          /\ UNCHANGED <<config, channel_vars, remote_forwards, listeners, to_cancel, session>>

Clash(host, port, l) ==
    l.port = port /\ (l.host = host \/ "0.0.0.0" \in {host, l.host})

(* The executor binds the port asked for, or for 0 any free one. *)
Bind(port) ==
    /\ handler.at = "bind" /\ handler.port \in {0, port}
    /\ \A t \in DOMAIN listeners : ~Clash(BindHost(handler.address), port, listeners[t])
    /\ listeners' = With(listeners, handler.token,
                         [host |-> BindHost(handler.address), port |-> port])
    /\ handler' = [handler EXCEPT !.at = "bound", !.port = port]
    /\ UNCHANGED <<config, channel_vars, remote_forwards, tokens, to_cancel, session>>

BindFails ==
    /\ handler.at = "bind"
    /\ handler' = Idle
    /\ UNCHANGED <<config, channel_vars, remote_forwards, tokens, listeners, to_cancel, session>>

(* Mutant of ForwardStarted: the key has the port that was asked for first. *)
ForwardStartedAsAsked ==
    /\ handler.at = "bound"
    /\ \E port \in {0, handler.port} :
         remote_forwards' = With(remote_forwards, ForwardKey(handler.address, port), handler.token)
    /\ handler' = Idle
    /\ UNCHANGED <<config, channel_vars, tokens, listeners, to_cancel, session>>

(* The rest of tcpip_forward, with the port the executor reports. *)
ForwardStarted ==
    /\ handler.at = "bound"
    /\ remote_forwards' = With(remote_forwards, ForwardKey(handler.address, handler.port),
                               handler.token)
    /\ handler' = Idle
    /\ UNCHANGED <<config, channel_vars, tokens, listeners, to_cancel, session>>

(* An accept error ends a listener; the handler is not told. *)
ListenerDies(t) ==
    /\ t \in DOMAIN listeners
    /\ listeners' = Without(listeners, t)
    /\ UNCHANGED <<config, channel_vars, remote_forwards, handler, tokens, to_cancel, session>>

(* The entry is removed before the executor is asked. *)
CancelTcpipForward(address, port) ==
    /\ Ready
    /\ LET key == ForwardKey(address, port) IN
       \/ key \notin DOMAIN remote_forwards /\ Refuse
       \/ /\ key \in DOMAIN remote_forwards
          /\ handler' = [at |-> "cancel", token |-> remote_forwards[key]]
          /\ remote_forwards' = Without(remote_forwards, key)
          /\ UNCHANGED <<config, channel_vars, tokens, listeners, to_cancel, session>>

(* The executor drops the listener and answers. *)
Cancelled ==
    /\ handler.at = "cancel"
    /\ listeners' = Without(listeners, handler.token)
    /\ handler' = Idle
    /\ UNCHANGED <<config, channel_vars, remote_forwards, tokens, to_cancel, session>>

(* The executor is gone, its listeners with it: the error ends the session. *)
CancelFails ==
    /\ handler.at = "cancel"
    /\ Drop
    /\ listeners' = [t \in {} |-> None]
    /\ handler' = Idle
    /\ UNCHANGED <<config, channel_vars, tokens>>

(* A task spawned by Drop. *)
CancelAfterDrop(t) ==
    /\ t \in to_cancel
    /\ to_cancel' = to_cancel \ {t}
    /\ listeners' = Without(listeners, t)
    /\ UNCHANGED <<config, channel_vars, remote_forwards, handler, tokens, session>>

(* The client leaves, or the connection fails, between two callbacks. *)
SessionEnds == Ready /\ Fail

Requests ==
    \/ \E c \in Channels :
         \/ ChannelOpenSession(c) \/ ChannelClose(c)
         \/ \E term \in Terms : PtyRequest(c, term)
         \/ \E name \in Names, value \in Values : EnvRequest(c, name, value)
         \/ \E kind \in {"shell", "exec", "sftp"} : ProgramRequest(c, kind)
    \/ \E address \in Addresses :
         \/ \E port \in Ports \cup {0, BadPort} : TcpipForward(address, port)
         \/ \E port \in Ports \cup {0} : CancelTcpipForward(address, port)

Answers == ForwardStarted \/ Cancelled \/ CancelFails \/ BindFails \/ \E port \in Ports : Bind(port)

Next ==
    \/ Requests \/ Answers \/ SessionEnds
    \/ \E t \in DOMAIN listeners : ListenerDies(t)
    \/ \E t \in to_cancel : CancelAfterDrop(t)

(* The executor answers, and the tasks Drop spawned run. *)
Fairness ==
    /\ WF_vars(Answers)
    /\ WF_vars(\E t \in to_cancel : CancelAfterDrop(t))

Spec == Init /\ [][Next]_vars /\ Fairness

-----------------------------------------------------------------------------
(* Properties. *)

(* A shell or command has the terminal and the variables the client was told it had    *)
(* when it asked for the program, and no others: a request that comes after   *)
(* the program is not granted (take_channel, channel_mut), and TERM is the    *)
(* terminal's type unless the client set it (build_child_env).                *)
GrantsReachTheProgram ==
    \A c \in {d \in DOMAIN programs : programs[d].kind # "sftp"} :
        /\ programs[c].pty = granted[c].pty
        /\ \A n \in Names \cup {"TERM"} :
             IF n \in DOMAIN granted[c].env
               THEN n \in DOMAIN programs[c].env /\ programs[c].env[n] = granted[c].env[n]
               ELSE /\ n \in DOMAIN programs[c].env <=> n = "TERM" /\ granted[c].pty # None
                    /\ n \in DOMAIN programs[c].env => programs[c].env[n] = granted[c].pty

(* Every listener the executor runs for the session can be reached from it: a *)
(* cancel for the address that was asked for and the port that was reported   *)
(* finds it, or its start or cancel is under way; no second forward takes the *)
(* key of a live one, also when ports are chosen by the executor and          *)
(* listeners die unnoticed (tcpip_forward, cancel_tcpip_forward).             *)
ListenersAreTracked ==
    \A t \in DOMAIN listeners :
        \/ t \in to_cancel
        \/ handler # Idle /\ handler.token = t
        \/ \E k \in DOMAIN remote_forwards :
             /\ remote_forwards[k] = t
             /\ k.port = listeners[t].port /\ BindHost(k.address) = listeners[t].host

(* The end of the session, for whatever reason, ends its listeners (Drop for  *)
(* ClientHandler).                                                            *)
ForwardsEndWithSession == session = "ended" ~> DOMAIN listeners = {}
=============================================================================
