------------------------- MODULE ClientSessionProofs -------------------------
(***************************************************************************)
(* Theorems about the handler of a session, for all sets of channels,      *)
(* terminals, variables, addresses and ports: a program has what its       *)
(* channel was granted, and no listener of the executor gets out of reach. *)
(***************************************************************************)
EXTENDS ClientSession, TLAPS

\* A channel holds what was granted on it until its program is started, once.
ChannelInv ==
    /\ DOMAIN granted = Channels /\ opened \subseteq Channels
    /\ \A c \in Channels :
          /\ DOMAIN granted[c] = {"pty", "env"}
          /\ \A n \in DOMAIN granted[c].env : is_env_allowed(n)
    /\ \A c \in Channels \ opened : granted[c] = Fresh
    /\ DOMAIN pending_channels \subseteq opened /\ DOMAIN programs \subseteq opened
    /\ \A c \in DOMAIN pending_channels :
          c \notin DOMAIN programs /\ pending_channels[c] = granted[c]
    /\ GrantsReachTheProgram

\* What the handler waits for, and tokens that were taken.
HandlerInv ==
    /\ handler.at \in {"idle", "bind", "bound", "cancel"}
    /\ handler.at = "idle" <=> handler = Idle
    /\ handler # Idle => session = "up" /\ handler.token \in Nat /\ handler.token <= tokens
    /\ handler.at \in {"bind", "bound"} => DOMAIN handler = {"at", "token", "address", "port"}

TokenInv ==
    /\ tokens \in Nat
    /\ \A t \in DOMAIN listeners : t \in Nat /\ t <= tokens
    /\ \A k \in DOMAIN remote_forwards :
          remote_forwards[k] \in Nat /\ remote_forwards[k] <= tokens
    /\ handler.at = "bind" => handler.token \notin DOMAIN listeners
    /\ session = "up" => to_cancel = {}
    /\ session # "up" => DOMAIN remote_forwards = {}

\* Key k leads to listener t.
Leads(k, t) ==
    /\ remote_forwards[k] = t
    /\ k.port = listeners[t].port /\ BindHost(k.address) = listeners[t].host

\* A listener that was just bound is what its key will say, and no other live one has its key.
BoundInv ==
    handler.at = "bound" =>
        LET key == ForwardKey(handler.address, handler.port) IN
        /\ handler.token \in DOMAIN listeners =>
              /\ listeners[handler.token].port = key.port
              /\ listeners[handler.token].host = BindHost(key.address)
        /\ \A t \in DOMAIN listeners \ {handler.token} :
              \E k \in DOMAIN remote_forwards : k # key /\ Leads(k, t)

ForwardInv == HandlerInv /\ TokenInv /\ BoundInv /\ ListenersAreTracked

IInv == ChannelInv /\ ForwardInv

-----------------------------------------------------------------------------
LEMMA WithFacts ==
    ASSUME NEW f, NEW x, NEW y
    PROVE  /\ DOMAIN With(f, x, y) = DOMAIN f \cup {x} /\ With(f, x, y)[x] = y
           /\ \A z \in DOMAIN f : z # x => With(f, x, y)[z] = f[z]
  BY DEF With

LEMMA WithoutFacts ==
    ASSUME NEW f, NEW x
    PROVE  /\ DOMAIN Without(f, x) = DOMAIN f \ {x}
           /\ \A z \in DOMAIN f \ {x} : Without(f, x)[z] = f[z]
  BY DEF Without, Restrict

LEMMA ChannelsStay ==
    ASSUME ChannelInv, UNCHANGED channel_vars
    PROVE  ChannelInv'
  BY DEF ChannelInv, GrantsReachTheProgram, channel_vars

LEMMA ForwardsStay ==
    ASSUME ForwardInv, UNCHANGED <<config, forward_vars, session>>
    PROVE  ForwardInv'
<1>1. /\ UNCHANGED <<remote_forwards, handler, tokens, listeners, to_cancel, session>>
      /\ \A address : BindHost(address)' = BindHost(address)
  BY DEF forward_vars, BindHost
<1>2. HandlerInv' /\ TokenInv'
  BY <1>1 DEF ForwardInv, HandlerInv, TokenInv
<1>3. BoundInv'
  BY <1>1, Zenon DEF ForwardInv, BoundInv, Leads
<1>4. ListenersAreTracked'
  BY <1>1, Zenon DEF ForwardInv, ListenersAreTracked
<1> QED
  BY <1>2, <1>3, <1>4 DEF ForwardInv

LEMMA RefuseIInv ==
    ASSUME IInv, Refuse
    PROVE  IInv'
  BY ChannelsStay, ForwardsStay DEF IInv, Refuse, vars

LEMMA InitIInv == Init => IInv
<1> SUFFICES ASSUME Init PROVE IInv
  OBVIOUS
<1>1. ChannelInv
  BY DEF Init, ChannelInv, GrantsReachTheProgram, Fresh, NoEnv
<1>2. ForwardInv
  BY DEF Init, ForwardInv, HandlerInv, TokenInv, BoundInv, ListenersAreTracked, Idle
<1> QED
  BY <1>1, <1>2 DEF IInv

-----------------------------------------------------------------------------
(* Channels. *)

LEMMA OpenIInv ==
    ASSUME IInv, NEW c \in Channels, ChannelOpenSession(c)
    PROVE  IInv'
<1>1. ForwardInv'
  BY ForwardsStay DEF IInv, ChannelOpenSession
<1>2. /\ DOMAIN pending_channels' = DOMAIN pending_channels \cup {c}
      /\ pending_channels'[c] = Fresh
      /\ \A d \in DOMAIN pending_channels : d # c => pending_channels'[d] = pending_channels[d]
  BY DEF ChannelOpenSession, With
<1>3. ChannelInv'
  BY <1>2 DEF IInv, ChannelInv, ChannelOpenSession, GrantsReachTheProgram
<1> QED
  BY <1>1, <1>3 DEF IInv

\* What is granted on a channel that waits is kept with it.
LEMMA GrantIInv ==
    ASSUME IInv, NEW c \in DOMAIN pending_channels, NEW g,
           DOMAIN g = {"pty", "env"}, \A n \in DOMAIN g.env : is_env_allowed(n),
           pending_channels' = [pending_channels EXCEPT ![c] = g],
           granted' = [granted EXCEPT ![c] = g],
           UNCHANGED <<config, opened, programs, forward_vars, session>>
    PROVE  IInv'
<1>1. ForwardInv'
  BY ForwardsStay DEF IInv
<1>2. c \in Channels /\ c \in opened /\ c \notin DOMAIN programs
  BY DEF IInv, ChannelInv
<1>3. GrantsReachTheProgram'
  <2>1. \A d \in DOMAIN programs : granted'[d] = granted[d] /\ d \in Channels
    BY <1>2 DEF IInv, ChannelInv
  <2> QED
    BY <2>1 DEF IInv, ChannelInv, GrantsReachTheProgram
<1>4. ChannelInv'
  BY <1>2, <1>3 DEF IInv, ChannelInv
<1> QED
  BY <1>1, <1>4 DEF IInv

\* Only the end of a callback's session is left when it fails.
LEMMA FailIInv ==
    ASSUME IInv, Ready, Fail
    PROVE  IInv'
<1>1. ChannelInv'
  BY ChannelsStay DEF IInv, Fail
<1>2. /\ session' = "ended" /\ UNCHANGED <<config, handler, tokens, listeners>>
      /\ to_cancel' = to_cancel \cup Range(remote_forwards) /\ DOMAIN remote_forwards' = {}
      /\ handler = Idle /\ handler.at = "idle"
  BY DEF Fail, Drop, Ready, Idle
<1>3. HandlerInv' /\ TokenInv' /\ BoundInv'
  BY <1>2 DEF IInv, ForwardInv, HandlerInv, TokenInv, BoundInv
<1>4. ListenersAreTracked'
  BY <1>2 DEF IInv, ForwardInv, ListenersAreTracked, Range
<1> QED
  BY <1>1, <1>3, <1>4 DEF IInv, ForwardInv

LEMMA EnvIInv ==
    ASSUME IInv, NEW c \in Channels, NEW name, NEW value, EnvRequest(c, name, value)
    PROVE  IInv'
<1>1. CASE Refuse
  BY <1>1, RefuseIInv
<1>2. CASE Fail
  BY <1>2, FailIInv DEF EnvRequest
<1>3. CASE /\ is_env_allowed(name) /\ c \in DOMAIN pending_channels
           /\ pending_channels' = [pending_channels EXCEPT ![c].env = With(@, name, value)]
           /\ granted' = [granted EXCEPT ![c].env = With(@, name, value)]
           /\ UNCHANGED <<config, opened, programs, forward_vars, session>>
  <2>1. pending_channels[c] = granted[c] /\ DOMAIN granted[c] = {"pty", "env"}
    BY <1>3 DEF IInv, ChannelInv
  <2>2. PICK env : env = With(granted[c].env, name, value)
    BY Zenon
  <2>3. PICK g : g = [granted[c] EXCEPT !.env = env]
    BY Zenon
  <2>4. DOMAIN g = {"pty", "env"} /\ g.env = env
    BY <2>1, <2>3
  <2>5. DOMAIN env = DOMAIN granted[c].env \cup {name}
    BY <2>2, WithFacts, Zenon
  <2>6. \A n \in DOMAIN g.env : is_env_allowed(n)
    BY <1>3, <2>4, <2>5 DEF IInv, ChannelInv
  <2>7. /\ pending_channels' = [pending_channels EXCEPT ![c] = g]
        /\ granted' = [granted EXCEPT ![c] = g]
    BY <1>3, <2>1, <2>2, <2>3, Zenon
  <2> QED
    BY <1>3, <2>4, <2>6, <2>7, GrantIInv, Zenon
<1> QED
  BY <1>1, <1>2, <1>3 DEF EnvRequest

LEMMA PtyIInv ==
    ASSUME IInv, NEW c \in Channels, NEW term, PtyRequest(c, term)
    PROVE  IInv'
<1>1. CASE Refuse
  BY <1>1, RefuseIInv
<1>2. CASE Fail
  BY <1>2, FailIInv DEF PtyRequest
<1>3. CASE /\ c \in DOMAIN pending_channels
           /\ pending_channels' = [pending_channels EXCEPT ![c].pty = term]
           /\ granted' = [granted EXCEPT ![c].pty = term]
           /\ UNCHANGED <<config, opened, programs, forward_vars, session>>
  <2>1. pending_channels[c] = granted[c] /\ DOMAIN granted[c] = {"pty", "env"}
    BY <1>3 DEF IInv, ChannelInv
  <2>2. PICK g : g = [granted[c] EXCEPT !.pty = term]
    BY Zenon
  <2>3. DOMAIN g = {"pty", "env"} /\ g.env = granted[c].env
    BY <2>1, <2>2
  <2>4. \A n \in DOMAIN g.env : is_env_allowed(n)
    BY <1>3, <2>3 DEF IInv, ChannelInv
  <2>5. /\ pending_channels' = [pending_channels EXCEPT ![c] = g]
        /\ granted' = [granted EXCEPT ![c] = g]
    BY <1>3, <2>1, <2>2, Zenon
  <2> QED
    BY <1>3, <2>3, <2>4, <2>5, GrantIInv, Zenon
<1> QED
  BY <1>1, <1>2, <1>3 DEF PtyRequest

HasGrants(p, g) ==
    /\ p.pty = g.pty
    /\ \A n : IF n \in DOMAIN g.env
         THEN n \in DOMAIN p.env /\ p.env[n] = g.env[n]
         ELSE /\ n \in DOMAIN p.env <=> n = "TERM" /\ g.pty # None
              /\ n \in DOMAIN p.env => p.env[n] = g.pty

\* A program that is started from what was granted, all of it allowed, has it.
LEMMA StartedHasGrants ==
    ASSUME NEW kind, kind \in {"shell", "exec"}, NEW g, NEW p, p = Started(kind, g),
           \A n \in DOMAIN g.env : is_env_allowed(n)
    PROVE  HasGrants(p, g)
<1>1. PICK env, pty : env = g.env /\ pty = g.pty
  BY Zenon
<1>2. PICK allowed : allowed = Restrict(env, {n \in DOMAIN env : is_env_allowed(n)})
  BY Zenon
<1>3. DOMAIN allowed = DOMAIN env /\ \A n \in DOMAIN env : allowed[n] = env[n]
  BY <1>1, <1>2 DEF Restrict
<1>4. PICK child : child = build_child_env(env, pty)
  BY Zenon
<1>5. p.pty = pty /\ p.env = child
  BY <1>1, <1>4 DEF Started
<1>6. child = IF pty = None \/ "TERM" \in DOMAIN allowed THEN allowed
              ELSE With(allowed, "TERM", pty)
  BY <1>2, <1>4, Zenon DEF build_child_env
<1>7. \A n : IF n \in DOMAIN env
                THEN n \in DOMAIN child /\ child[n] = env[n]
                ELSE /\ n \in DOMAIN child <=> n = "TERM" /\ pty # None
                     /\ n \in DOMAIN child => child[n] = pty
  <2>1. CASE pty = None \/ "TERM" \in DOMAIN allowed
    BY <1>3, <1>6, <2>1
  <2>2. CASE ~(pty = None \/ "TERM" \in DOMAIN allowed)
    <3>1. /\ DOMAIN child = DOMAIN allowed \cup {"TERM"} /\ child["TERM"] = pty
          /\ \A n \in DOMAIN allowed : n # "TERM" => child[n] = allowed[n]
      BY <1>6, <2>2 DEF With
    <3> QED
      BY <1>3, <2>2, <3>1
  <2> QED
    BY <2>1, <2>2
<1> QED
  BY <1>1, <1>5, <1>7 DEF HasGrants

LEMMA ProgramIInv ==
    ASSUME IInv, NEW c \in Channels, NEW kind \in {"shell", "exec", "sftp"},
           ProgramRequest(c, kind)
    PROVE  IInv'
<1>1. CASE Refuse
  BY <1>1, RefuseIInv
<1>2. CASE Fail
  BY <1>2, FailIInv DEF ProgramRequest
<1>3. CASE /\ c \in DOMAIN pending_channels
           /\ Launch(c, kind)
           /\ UNCHANGED <<config, opened, granted, forward_vars, session>>
  <2>1. ForwardInv'
    BY <1>3, ForwardsStay DEF IInv
  <2>2. /\ DOMAIN pending_channels' = DOMAIN pending_channels \ {c}
        /\ \A d \in DOMAIN pending_channels \ {c} : pending_channels'[d] = pending_channels[d]
    BY <1>3 DEF Launch, Without, Restrict
  <2>3. PICK g : g = granted[c]
    BY Zenon
  <2>4. pending_channels[c] = g /\ \A n \in DOMAIN g.env : is_env_allowed(n)
    BY <1>3, <2>3 DEF IInv, ChannelInv
  <2>5. PICK p : p = Started(kind, g)
    BY Zenon
  <2>6. CASE UNCHANGED programs
    BY <1>3, <2>1, <2>2, <2>6 DEF IInv, ChannelInv, GrantsReachTheProgram
  <2>7. CASE programs' = With(programs, c, p)
    <3>1. /\ DOMAIN programs' = DOMAIN programs \cup {c} /\ programs'[c] = p
          /\ \A d \in DOMAIN programs : d # c => programs'[d] = programs[d]
      BY <2>7 DEF With
    <3>2. c \in opened /\ c \in Channels /\ c \notin DOMAIN programs
      BY <1>3 DEF IInv, ChannelInv
    <3>3. p.kind # "sftp" => HasGrants(p, g)
      <4>1. CASE kind = "sftp"
        BY <2>5, <4>1 DEF Started
      <4>2. CASE kind \in {"shell", "exec"}
        BY <2>4, <2>5, <4>2, StartedHasGrants, Zenon
      <4> QED
        BY <4>1, <4>2
    <3>4. GrantsReachTheProgram'
      <4> SUFFICES ASSUME NEW d \in DOMAIN programs', programs'[d].kind # "sftp",
                          NEW n \in Names \cup {"TERM"}
                   PROVE  /\ programs'[d].pty = granted[d].pty
                          /\ IF n \in DOMAIN granted[d].env
                               THEN /\ n \in DOMAIN programs'[d].env
                                    /\ programs'[d].env[n] = granted[d].env[n]
                               ELSE /\ n \in DOMAIN programs'[d].env <=>
                                          n = "TERM" /\ granted[d].pty # None
                                    /\ n \in DOMAIN programs'[d].env =>
                                          programs'[d].env[n] = granted[d].pty
        BY <1>3, Zenon DEF GrantsReachTheProgram
      <4>1. CASE d = c
        BY <2>3, <3>1, <3>3, <4>1, Zenon DEF HasGrants
      <4>2. CASE d # c
        <5>1. d \in DOMAIN programs /\ programs'[d] = programs[d]
          BY <3>1, <4>2
        <5> QED
          BY <5>1 DEF IInv, ChannelInv, GrantsReachTheProgram
      <4> QED
        BY <4>1, <4>2
    <3>5. ChannelInv'
      BY <1>3, <2>2, <3>1, <3>2, <3>4 DEF IInv, ChannelInv
    <3> QED
      BY <2>1, <3>5 DEF IInv
  <2> QED
    BY <1>3, <2>4, <2>5, <2>6, <2>7, Zenon DEF Launch
<1> QED
  BY <1>1, <1>2, <1>3, Zenon DEF ProgramRequest

LEMMA CloseIInv ==
    ASSUME IInv, NEW c \in Channels, ChannelClose(c)
    PROVE  IInv'
<1>1. ForwardInv'
  BY ForwardsStay DEF IInv, ChannelClose
<1>2. /\ DOMAIN pending_channels' = DOMAIN pending_channels \ {c}
      /\ \A d \in DOMAIN pending_channels \ {c} : pending_channels'[d] = pending_channels[d]
  BY DEF ChannelClose, Without, Restrict
<1>3. ChannelInv'
  BY <1>2 DEF IInv, ChannelInv, ChannelClose, GrantsReachTheProgram
<1> QED
  BY <1>1, <1>3 DEF IInv

-----------------------------------------------------------------------------
(* Remote forwards. *)

LEMMA TcpipForwardIInv ==
    ASSUME IInv, NEW address, NEW port, TcpipForward(address, port)
    PROVE  IInv'
<1>1. CASE Refuse
  BY <1>1, RefuseIInv
<1>2. CASE Fail
  BY <1>2, FailIInv DEF TcpipForward
<1>3. CASE /\ Ready /\ tokens' = tokens + 1
           /\ handler' = [at |-> "bind", token |-> tokens + 1,
                          address |-> address, port |-> port]
           /\ UNCHANGED <<config, channel_vars, remote_forwards, listeners, to_cancel, session>>
  <2>1. ChannelInv'
    BY <1>3, ChannelsStay DEF IInv
  <2>2. PICK h : h = [at |-> "bind", token |-> tokens + 1, address |-> address, port |-> port]
    BY Zenon
  <2>3. /\ handler' = h /\ h.at = "bind" /\ h.token = tokens + 1
        /\ DOMAIN h = {"at", "token", "address", "port"}
    BY <1>3, <2>2
  <2>4. tokens \in Nat /\ \A t \in DOMAIN listeners : t \in Nat /\ t <= tokens
    BY DEF IInv, ForwardInv, TokenInv
  <2>5. h # Idle /\ handler = Idle /\ session = "up"
    BY <1>3, <2>3 DEF Idle, Ready
  <2>6. HandlerInv'
    BY <1>3, <2>3, <2>4, <2>5 DEF HandlerInv, Idle
  <2>7. TokenInv'
    BY <1>3, <2>3, <2>4 DEF IInv, ForwardInv, TokenInv
  <2>8. BoundInv'
    BY <2>3 DEF BoundInv
  <2>9. ListenersAreTracked'
    BY <1>3, <2>5, Zenon DEF IInv, ForwardInv, ListenersAreTracked, BindHost
  <2> QED
    BY <2>1, <2>6, <2>7, <2>8, <2>9 DEF IInv, ForwardInv
<1> QED
  BY <1>1, <1>2, <1>3 DEF TcpipForward

\* Fewer listeners, with the table, the handler and what is to be cancelled as they were.
LEMMA FewerListeners ==
    ASSUME ForwardInv, UNCHANGED <<config, remote_forwards, handler, tokens, to_cancel, session>>,
           NEW gone, listeners' = Without(listeners, gone)
    PROVE  ForwardInv'
<1>1. /\ DOMAIN listeners' = DOMAIN listeners \ {gone}
      /\ \A t \in DOMAIN listeners' : listeners'[t] = listeners[t]
  BY DEF Without, Restrict
<1>2. \A address : BindHost(address)' = BindHost(address)
  BY DEF BindHost
<1>3. HandlerInv' /\ TokenInv'
  BY <1>1 DEF ForwardInv, HandlerInv, TokenInv
<1>4. BoundInv'
  BY <1>1, <1>2 DEF ForwardInv, BoundInv, Leads
<1>5. ListenersAreTracked'
  BY <1>1, <1>2 DEF ForwardInv, ListenersAreTracked
<1> QED
  BY <1>3, <1>4, <1>5 DEF ForwardInv

\* No live listener has the key of the one that is bound: their ports would clash.
LEMMA BindIInv ==
    ASSUME IInv, NEW port, Bind(port)
    PROVE  IInv'
<1>1. ChannelInv'
  BY ChannelsStay DEF IInv, Bind
<1>2. PICK t, address : t = handler.token /\ address = handler.address
  BY Zenon
<1>3. /\ handler.at = "bind" /\ handler # Idle /\ session = "up" /\ t \in Nat /\ t <= tokens
      /\ DOMAIN handler = {"at", "token", "address", "port"}
      /\ t \notin DOMAIN listeners /\ to_cancel = {}
  BY <1>2 DEF IInv, ForwardInv, HandlerInv, TokenInv, Bind, Idle
<1>4. /\ DOMAIN listeners' = DOMAIN listeners \cup {t}
      /\ listeners'[t].host = BindHost(address) /\ listeners'[t].port = port
      /\ \A u \in DOMAIN listeners : listeners'[u] = listeners[u]
  BY <1>2, <1>3 DEF Bind, With
<1>5. /\ handler'.at = "bound" /\ handler'.token = t /\ handler'.address = address
      /\ handler'.port = port /\ DOMAIN handler' = {"at", "token", "address", "port"}
      /\ handler' # Idle
  BY <1>2, <1>3, Zenon DEF Bind, Idle
<1>6. /\ UNCHANGED <<remote_forwards, tokens, to_cancel, session>>
      /\ \A a : BindHost(a)' = BindHost(a)
  BY Zenon DEF Bind, BindHost
<1>7. PICK key : key = ForwardKey(address, port) /\ key.address = address /\ key.port = port
  <2>1. PICK key : key = ForwardKey(address, port)
    BY Zenon
  <2>2. key.address = address /\ key.port = port
    BY <2>1 DEF ForwardKey
  <2> QED
    BY <2>1, <2>2, Zenon
<1>8. ASSUME NEW u \in DOMAIN listeners
      PROVE  \E k \in DOMAIN remote_forwards : k # key /\ Leads(k, u)
  <2>1. PICK k \in DOMAIN remote_forwards : Leads(k, u)
    BY <1>2, <1>3 DEF IInv, ForwardInv, ListenersAreTracked, Leads
  <2>2. ~Clash(BindHost(address), port, listeners[u])
    BY <1>2 DEF Bind
  <2>3. k # key
    BY <1>7, <2>1, <2>2 DEF Leads, Clash
  <2> QED
    BY <2>1, <2>3
<1>9. HandlerInv' /\ TokenInv'
  BY <1>3, <1>4, <1>5, <1>6 DEF IInv, ForwardInv, HandlerInv, TokenInv, Idle
<1>10. BoundInv'
  <2>1. ForwardKey(handler'.address, handler'.port) = key
    BY <1>5, <1>7
  <2>2. \A k : \A u \in DOMAIN listeners : Leads(k, u) => Leads(k, u)'
    BY <1>4, <1>6 DEF Leads
  <2>3. ASSUME NEW u \in DOMAIN listeners' \ {t}
        PROVE  \E k \in DOMAIN remote_forwards' : k # key /\ Leads(k, u)'
    BY <1>4, <1>6, <1>8, <2>2
  <2> QED
    BY <1>4, <1>5, <1>6, <1>7, <2>1, <2>3 DEF BoundInv
<1>11. ListenersAreTracked'
  BY <1>4, <1>5, <1>6, <1>8 DEF ListenersAreTracked, Leads
<1> QED
  BY <1>1, <1>9, <1>10, <1>11 DEF IInv, ForwardInv

LEMMA BindFailsIInv ==
    ASSUME IInv, BindFails
    PROVE  IInv'
<1>1. ChannelInv'
  BY ChannelsStay DEF IInv, BindFails
<1>2. /\ handler.at = "bind" /\ handler' = Idle /\ handler'.at = "idle"
      /\ UNCHANGED <<remote_forwards, tokens, listeners, to_cancel, session>>
      /\ \A a : BindHost(a)' = BindHost(a)
  BY DEF BindFails, Idle, BindHost
<1>3. HandlerInv' /\ TokenInv' /\ BoundInv'
  BY <1>2 DEF IInv, ForwardInv, HandlerInv, TokenInv, BoundInv
<1>4. ListenersAreTracked'
  BY <1>2 DEF IInv, ForwardInv, TokenInv, ListenersAreTracked
<1> QED
  BY <1>1, <1>3, <1>4 DEF IInv, ForwardInv

\* The entry that is written takes no live listener's place.
LEMMA ForwardStartedIInv ==
    ASSUME IInv, ForwardStarted
    PROVE  IInv'
<1>1. ChannelInv'
  BY ChannelsStay DEF IInv, ForwardStarted
<1>2. PICK t, address, port : t = handler.token /\ address = handler.address /\ port = handler.port
  BY Zenon
<1>3. PICK key : key = ForwardKey(address, port) /\ key.address = address /\ key.port = port
  <2>1. PICK key : key = ForwardKey(address, port)
    BY Zenon
  <2>2. key.address = address /\ key.port = port
    BY <2>1 DEF ForwardKey
  <2> QED
    BY <2>1, <2>2, Zenon
<1>4. /\ handler.at = "bound" /\ handler # Idle /\ session = "up" /\ t \in Nat /\ t <= tokens
      /\ to_cancel = {}
  BY <1>2 DEF IInv, ForwardInv, HandlerInv, TokenInv, ForwardStarted, Idle
<1>5. /\ handler' = Idle /\ handler'.at = "idle"
      /\ UNCHANGED <<tokens, listeners, to_cancel, session>>
      /\ \A a : BindHost(a)' = BindHost(a)
  BY DEF ForwardStarted, Idle, BindHost
<1>6. /\ DOMAIN remote_forwards' = DOMAIN remote_forwards \cup {key}
      /\ remote_forwards'[key] = t
      /\ \A k \in DOMAIN remote_forwards : k # key => remote_forwards'[k] = remote_forwards[k]
  BY <1>2, <1>3 DEF ForwardStarted, With
<1>7. HandlerInv' /\ TokenInv' /\ BoundInv'
  BY <1>4, <1>5, <1>6 DEF IInv, ForwardInv, HandlerInv, TokenInv, BoundInv
<1>8. ASSUME NEW u \in DOMAIN listeners
      PROVE  \E k \in DOMAIN remote_forwards' :
                /\ remote_forwards'[k] = u
                /\ k.port = listeners[u].port /\ BindHost(k.address) = listeners[u].host
  <2>1. CASE u = t
    BY <1>2, <1>3, <1>4, <1>6, <2>1 DEF IInv, ForwardInv, BoundInv
  <2>2. CASE u # t
    <3>1. PICK k \in DOMAIN remote_forwards : k # key /\ Leads(k, u)
      BY <1>2, <1>3, <1>4, <2>2 DEF IInv, ForwardInv, BoundInv
    <3> QED
      BY <1>6, <3>1 DEF Leads
  <2> QED
    BY <2>1, <2>2
<1>9. ListenersAreTracked'
  BY <1>5, <1>8 DEF ListenersAreTracked
<1> QED
  BY <1>1, <1>7, <1>9 DEF IInv, ForwardInv

LEMMA ListenerDiesIInv ==
    ASSUME IInv, NEW t, ListenerDies(t)
    PROVE  IInv'
  BY ChannelsStay, FewerListeners DEF IInv, ListenerDies

\* The listener of the entry that is removed is the one the handler waits for.
LEMMA CancelIInv ==
    ASSUME IInv, NEW address, NEW port, CancelTcpipForward(address, port)
    PROVE  IInv'
<1>1. CASE Refuse
  BY <1>1, RefuseIInv
<1>2. ASSUME NEW key \in DOMAIN remote_forwards, Ready,
             handler' = [at |-> "cancel", token |-> remote_forwards[key]],
             remote_forwards' = Without(remote_forwards, key),
             UNCHANGED <<config, channel_vars, tokens, listeners, to_cancel, session>>
      PROVE  IInv'
  <2>1. ChannelInv'
    BY <1>2, ChannelsStay DEF IInv
  <2>2. PICK t : t = remote_forwards[key] /\ t \in Nat /\ t <= tokens
    BY <1>2 DEF IInv, ForwardInv, TokenInv
  <2>3. /\ handler'.at = "cancel" /\ handler'.token = t /\ handler' # Idle
        /\ handler = Idle /\ session = "up" /\ session' = "up"
    BY <1>2, <2>2 DEF Idle, Ready
  <2>4. /\ DOMAIN remote_forwards' = DOMAIN remote_forwards \ {key}
        /\ \A k \in DOMAIN remote_forwards' : remote_forwards'[k] = remote_forwards[k]
    BY <1>2 DEF Without, Restrict
  <2>5. UNCHANGED <<tokens, listeners, to_cancel>> /\ \A a : BindHost(a)' = BindHost(a)
    BY <1>2 DEF BindHost
  <2>6. HandlerInv' /\ TokenInv' /\ BoundInv'
    BY <2>2, <2>3, <2>4, <2>5 DEF IInv, ForwardInv, HandlerInv, TokenInv, BoundInv, Idle
  <2>7. ListenersAreTracked'
    BY <2>2, <2>3, <2>4, <2>5 DEF IInv, ForwardInv, ListenersAreTracked
  <2> QED
    BY <2>1, <2>6, <2>7 DEF IInv, ForwardInv
<1> QED
  BY <1>1, <1>2, Zenon DEF CancelTcpipForward

LEMMA CancelledIInv ==
    ASSUME IInv, Cancelled
    PROVE  IInv'
<1>1. ChannelInv'
  BY ChannelsStay DEF IInv, Cancelled
<1>2. PICK t : t = handler.token
  BY Zenon
<1>3. /\ handler' = Idle /\ handler'.at = "idle"
      /\ UNCHANGED <<remote_forwards, tokens, to_cancel, session>>
      /\ \A a : BindHost(a)' = BindHost(a)
  BY DEF Cancelled, Idle, BindHost
<1>4. /\ DOMAIN listeners' = DOMAIN listeners \ {t}
      /\ \A u \in DOMAIN listeners' : listeners'[u] = listeners[u]
  BY <1>2 DEF Cancelled, Without, Restrict
<1>5. HandlerInv' /\ TokenInv' /\ BoundInv'
  BY <1>3, <1>4 DEF IInv, ForwardInv, HandlerInv, TokenInv, BoundInv
<1>6. ListenersAreTracked'
  BY <1>2, <1>3, <1>4 DEF IInv, ForwardInv, ListenersAreTracked
<1> QED
  BY <1>1, <1>5, <1>6 DEF IInv, ForwardInv

LEMMA CancelFailsIInv ==
    ASSUME IInv, CancelFails
    PROVE  IInv'
<1>1. ChannelInv'
  BY ChannelsStay DEF IInv, CancelFails
<1>2. /\ handler' = Idle /\ handler'.at = "idle" /\ session' = "ended" /\ tokens' = tokens
      /\ DOMAIN listeners' = {} /\ DOMAIN remote_forwards' = {}
  BY DEF CancelFails, Drop, Idle
<1>3. ForwardInv'
  BY <1>2 DEF IInv, ForwardInv, HandlerInv, TokenInv, BoundInv, ListenersAreTracked
<1> QED
  BY <1>1, <1>3 DEF IInv

LEMMA CancelAfterDropIInv ==
    ASSUME IInv, NEW t, CancelAfterDrop(t)
    PROVE  IInv'
<1>1. ChannelInv'
  BY ChannelsStay DEF IInv, CancelAfterDrop
<1>2. /\ t \in to_cancel /\ to_cancel' = to_cancel \ {t}
      /\ UNCHANGED <<remote_forwards, handler, tokens, session>>
      /\ \A a : BindHost(a)' = BindHost(a)
  BY DEF CancelAfterDrop, BindHost
<1>3. /\ DOMAIN listeners' = DOMAIN listeners \ {t}
      /\ \A u \in DOMAIN listeners' : listeners'[u] = listeners[u]
  BY DEF CancelAfterDrop, Without, Restrict
<1>4. HandlerInv' /\ TokenInv'
  BY <1>2, <1>3 DEF IInv, ForwardInv, HandlerInv, TokenInv
<1>5. BoundInv'
  BY <1>2, <1>3 DEF IInv, ForwardInv, BoundInv, Leads
<1>6. ListenersAreTracked'
  BY <1>2, <1>3 DEF IInv, ForwardInv, ListenersAreTracked
<1> QED
  BY <1>1, <1>4, <1>5, <1>6 DEF IInv, ForwardInv

-----------------------------------------------------------------------------
LEMMA NextIInv ==
    ASSUME IInv, [Next]_vars
    PROVE  IInv'
<1>1. CASE Requests
  BY <1>1, OpenIInv, CloseIInv, PtyIInv, EnvIInv, ProgramIInv, TcpipForwardIInv, CancelIInv
     DEF Requests
<1>2. CASE Answers
  BY <1>2, ForwardStartedIInv, CancelledIInv, CancelFailsIInv, BindFailsIInv, BindIInv
     DEF Answers
<1>3. CASE SessionEnds
  BY <1>3, FailIInv DEF SessionEnds
<1>4. ASSUME NEW t, ListenerDies(t) \/ CancelAfterDrop(t) PROVE IInv'
  BY <1>4, ListenerDiesIInv, CancelAfterDropIInv
<1>5. CASE UNCHANGED vars
  BY <1>5, RefuseIInv DEF Refuse
<1> QED
  BY <1>1, <1>2, <1>3, <1>4, <1>5 DEF Next

(* What the handler holds of channels, tokens and forwards stays consistent under     *)
(* every request, answer of the executor and death of a listener.                     *)
THEOREM Invariance == Spec => []IInv
<1>1. Init => IInv
  BY InitIInv
<1>2. IInv /\ [Next]_vars => IInv'
  BY NextIInv
<1> QED
  BY <1>1, <1>2, PTL DEF Spec

(* A shell or command is started with the terminal and the variables the client was   *)
(* told it has, and no others, and no later request changes what was granted          *)
(* (take_channel, channel_mut, build_child_env).                                      *)
THEOREM ProgramsHaveGrants == Spec => []GrantsReachTheProgram
<1>1. IInv => GrantsReachTheProgram
  BY DEF IInv, ChannelInv
<1> QED
  BY <1>1, Invariance, PTL

(* However many forwards are started, cancelled and lost to accept errors, a cancel   *)
(* with the address that was asked for and the port that was reported finds the live  *)
(* listener (tcpip_forward, cancel_tcpip_forward, Drop for ClientHandler).            *)
THEOREM ListenersStayInReach == Spec => []ListenersAreTracked
<1>1. IInv => ListenersAreTracked
  BY DEF IInv, ForwardInv
<1> QED
  BY <1>1, Invariance, PTL

(* When the session has ended, whichever callback failed or however the client left,  *)
(* a task is spawned for every listener that is still there: what                     *)
(* ForwardsEndWithSession needs of the state (Drop for ClientHandler).                *)
THEOREM EndCancelsAll == Spec => [](session = "ended" => DOMAIN listeners \subseteq to_cancel)
<1>1. IInv => (session = "ended" => DOMAIN listeners \subseteq to_cancel)
  BY DEF IInv, ForwardInv, HandlerInv, TokenInv, ListenersAreTracked
<1> QED
  BY <1>1, Invariance, PTL
=============================================================================
