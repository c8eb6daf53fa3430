----------------------- MODULE ExecutorControlProofs -----------------------
(***************************************************************************)
(* Theorems about the control channel and the remote forwards set up over  *)
(* it, for any number of sessions, requests and connections: who owns a    *)
(* registration, that the executor listens on no forgotten port, and that  *)
(* a connection reaches the session that asked for it.                     *)
(***************************************************************************)
EXTENDS ExecutorControl, TLAPS, SequenceTheorems

Call == [kind : {"service", "forward", "cancel"}, session : Sessions \cup {NoSession},
         token : Nat, at : {"inserted", "waiting", "returned"},
         reply : {"none", "ok", "err", "closed"}]
Message == [of : {"response"}, id : Nat, result : {"ok", "err"}]
           \cup [of : {"incoming"}, token : Nat]

TypeOK ==
    /\ calls \in Seq(Call)
    /\ pending \subseteq DOMAIN calls
    /\ next_forward_token \in Nat
    /\ registered \in [DOMAIN registered -> Sessions]
    /\ handler \in [Sessions -> SUBSET Nat]
    /\ to_executor \in Seq(DOMAIN calls)
    /\ to_listener \in Seq(Message)
    /\ reader \in {"up", "stopped"}
    /\ executor \in {"up", "down"}

\* Where a token can be: it is of one forward; the forward is on its way, or it is
\* registered, or cancelled, and never two of these.
Forward(id) == calls[id].kind = "forward"
Cancel(id) == calls[id].kind = "cancel"

TokenInv ==
    /\ \A id \in DOMAIN calls : Forward(id) \/ Cancel(id) => calls[id].token < next_forward_token
    /\ \A i, j \in DOMAIN calls :
          Forward(i) /\ Forward(j) /\ calls[i].token = calls[j].token => i = j
    /\ \A id \in DOMAIN calls : Forward(id) /\ ~Returned(id) =>
          /\ calls[id].session \in Sessions \ ended
          /\ calls[id].token \notin DOMAIN registered
    /\ \A id \in DOMAIN calls : Cancel(id) =>
          /\ calls[id].token \notin DOMAIN registered
          /\ \A f \in DOMAIN calls :
                Forward(f) /\ ~Returned(f) => calls[f].token # calls[id].token
    /\ \A t \in DOMAIN registered :
          \E id \in DOMAIN calls :
             Forward(id) /\ calls[id].token = t /\ calls[id].session = registered[t]
    /\ \A s \in Sessions : handler[s] \cap to_cancel = {}
    /\ RegistrationsAreOwned

\* Where a request can be while the reader works: it is inserted, on its way to the
\* executor, or its response is on its way back or was read, one after the other.  The
\* port of a forward that has not been carried out, or has failed, is not open, nor that
\* of a cancel that was carried out.
Sent(id) == \E k \in DOMAIN to_executor : to_executor[k] = id
IsClosed(id) == calls[id].token \notin listening

RequestInv ==
    /\ \A k \in DOMAIN to_executor :
          calls[to_executor[k]].at = "waiting" /\ calls[to_executor[k]].reply = "none"
    /\ \A j, k \in DOMAIN to_executor : to_executor[j] = to_executor[k] => j = k

CallInv ==
    \A id \in DOMAIN calls :
        /\ calls[id].at = "inserted" => calls[id].reply = "none"
        /\ Forward(id) /\ (calls[id].at = "inserted" \/ Sent(id) \/ calls[id].reply = "err") =>
              IsClosed(id)
        /\ Cancel(id) /\ calls[id].reply # "none" => IsClosed(id)
        /\ calls[id].reply # "closed"

ResponseInv ==
    \A m \in DOMAIN to_listener : to_listener[m].of = "response" =>
        LET id == to_listener[m].id IN
        /\ id \in DOMAIN calls /\ calls[id].at # "inserted" /\ ~Sent(id)
        /\ Forward(id) /\ to_listener[m].result = "err" => IsClosed(id)
        /\ Cancel(id) => IsClosed(id)

PortInv == \A t \in listening : t \in Nat /\ t < next_forward_token

\* An open port is registered, or the request that opens or closes it has not returned:
\* NoForwardLeaks, with the kind of the request.
KnownInv ==
    \A t \in listening :
        \/ t \in DOMAIN registered
        \/ \E id \in DOMAIN calls :
              (Forward(id) \/ Cancel(id)) /\ calls[id].token = t /\ ~Returned(id)

ChannelInv == RequestInv /\ CallInv /\ ResponseInv /\ PortInv /\ KnownInv

IInv ==
    /\ TypeOK
    /\ TokenInv
    /\ executor = "down" => listening = {} /\ to_executor = <<>>
    /\ reader = "up" => ChannelInv

-----------------------------------------------------------------------------
\* Queues: what is in one after an element was put at its end or taken from its front.
LEMMA AppendElements ==
    ASSUME NEW S, NEW s \in Seq(S), NEW e \in S
    PROVE  /\ Append(s, e) \in Seq(S)
           /\ DOMAIN Append(s, e) = DOMAIN s \cup {Len(s) + 1}
           /\ Len(s) + 1 \notin DOMAIN s
           /\ Append(s, e)[Len(s) + 1] = e
           /\ \A k \in DOMAIN s : Append(s, e)[k] = s[k]
OBVIOUS

LEMMA TailElements ==
    ASSUME NEW S, NEW s \in Seq(S), s # <<>>
    PROVE  /\ Tail(s) \in Seq(S)
           /\ 1 \in DOMAIN s /\ Head(s) = s[1] /\ s[1] \in S
           /\ \A k \in DOMAIN Tail(s) :
                 k \in Nat /\ k + 1 \in DOMAIN s /\ k + 1 # 1 /\ Tail(s)[k] = s[k + 1]
OBVIOUS

\* One call replaced by another.
LEMMA ReplacedCall ==
    ASSUME NEW S, NEW s \in Seq(S), NEW id \in DOMAIN s, NEW c \in S
    PROVE  /\ [s EXCEPT ![id] = c] \in Seq(S)
           /\ DOMAIN [s EXCEPT ![id] = c] = DOMAIN s
           /\ [s EXCEPT ![id] = c][id] = c
           /\ \A k \in DOMAIN s \ {id} : [s EXCEPT ![id] = c][k] = s[k]
BY ExceptSeq

\* A larger set of calls.
LEMMA SeqOfMore ==
    ASSUME NEW S, NEW T, S \subseteq T, NEW s \in Seq(S)
    PROVE  s \in Seq(T)
OBVIOUS

\* The fields of a call.
LEMMA CallTypes ==
    ASSUME TypeOK, NEW id \in DOMAIN calls
    PROVE  /\ calls[id] \in Call
           /\ calls[id].kind \in {"service", "forward", "cancel"}
           /\ calls[id].token \in Nat
           /\ calls[id].at \in {"inserted", "waiting", "returned"}
<1>1. calls[id] \in Call
  BY DEF TypeOK
<1> QED
  BY <1>1 DEF Call

LEMMA InitIInv == Init => IInv
<1> SUFFICES ASSUME Init PROVE IInv
  OBVIOUS
<1>1. DOMAIN calls = {} /\ DOMAIN to_executor = {} /\ DOMAIN to_listener = {}
  BY DEF Init
<1>2. DOMAIN registered = {} /\ registered \in [DOMAIN registered -> Sessions]
  BY DEF Init
<1>3. TypeOK
  BY <1>1, <1>2 DEF Init, TypeOK
<1>4. UNION {handler[s] : s \in Sessions} = {}
  BY DEF Init
<1>5. TokenInv
  BY <1>1, <1>2, <1>4 DEF Init, TokenInv, RegistrationsAreOwned
<1>6. ChannelInv
  BY <1>1 DEF Init, ChannelInv, RequestInv, CallInv, ResponseInv, PortInv, KnownInv
<1> QED
  BY <1>3, <1>5, <1>6 DEF IInv, Init

-----------------------------------------------------------------------------
\* Steps of the sessions.
LEMMA InsertedCall ==
    ASSUME TypeOK, NEW kind \in {"service", "forward", "cancel"},
           NEW s \in Sessions \cup {NoSession}, NEW token \in Nat, Insert(kind, s, token)
    PROVE  /\ calls' \in Seq(Call)
           /\ DOMAIN calls' = DOMAIN calls \cup {Len(calls) + 1}
           /\ Len(calls) + 1 \notin DOMAIN calls
           /\ calls'[Len(calls) + 1] = [kind |-> kind, session |-> s, token |-> token,
                                        at |-> "inserted", reply |-> "none"]
           /\ \A id \in DOMAIN calls : calls'[id] = calls[id]
           /\ pending' \subseteq DOMAIN calls'
           /\ to_executor \in Seq(DOMAIN calls')
<1> DEFINE c == [kind |-> kind, session |-> s, token |-> token,
                 at |-> "inserted", reply |-> "none"]
<1>1. c \in Call /\ calls' = Append(calls, c)
  BY DEF Call, Insert
<1> HIDE DEF c
<1>2. /\ calls' \in Seq(Call)
      /\ DOMAIN calls' = DOMAIN calls \cup {Len(calls) + 1}
      /\ Len(calls) + 1 \notin DOMAIN calls
      /\ calls'[Len(calls) + 1] = c
      /\ \A id \in DOMAIN calls : calls'[id] = calls[id]
  BY <1>1, AppendElements DEF TypeOK
<1>3. pending' \subseteq DOMAIN calls'
  BY <1>2 DEF Insert, next_request_id, TypeOK
<1>4. to_executor \in Seq(DOMAIN calls')
  BY <1>2, SeqOfMore DEF TypeOK
<1> QED
  BY <1>2, <1>3, <1>4 DEF c

\* A new request disturbs nothing on the channel; one that cancels may take a token from
\* the registrations, which it then stands for itself.
LEMMA InsertChannel ==
    ASSUME IInv, NEW kind \in {"service", "forward", "cancel"},
           NEW s \in Sessions \cup {NoSession}, NEW token \in Nat, Insert(kind, s, token),
           UNCHANGED <<to_executor, to_listener, listening, executor, reader>>,
           next_forward_token' \in {next_forward_token, next_forward_token + 1},
           kind = "forward" => token = next_forward_token,
           kind # "cancel" => registered' = registered,
           DOMAIN registered \subseteq DOMAIN registered' \cup {token}
    PROVE  /\ executor' = "down" => listening' = {} /\ to_executor' = <<>>
           /\ reader' = "up" => ChannelInv'
<1> DEFINE new == Len(calls) + 1
<1>1. /\ DOMAIN calls' = DOMAIN calls \cup {new}
      /\ new \notin DOMAIN calls
      /\ calls'[new] = [kind |-> kind, session |-> s, token |-> token,
                        at |-> "inserted", reply |-> "none"]
      /\ \A id \in DOMAIN calls : calls'[id] = calls[id]
  BY InsertedCall, Zenon DEF IInv
<1> HIDE DEF new
<1>2. \A k \in DOMAIN to_executor : to_executor[k] \in DOMAIN calls
  BY DEF IInv, TypeOK
<1>3. ASSUME reader = "up" PROVE ChannelInv'
  <2> USE DEF ChannelInv
  <2>1. ChannelInv
    BY <1>3 DEF IInv
  <2>2. RequestInv'
    BY <1>1, <1>2, <2>1 DEF RequestInv
  <2>3. CallInv'
    <3> SUFFICES ASSUME NEW id \in DOMAIN calls'
                 PROVE  (/\ calls[id].at = "inserted" => calls[id].reply = "none"
                         /\ Forward(id) /\ (calls[id].at = "inserted" \/ Sent(id)
                                            \/ calls[id].reply = "err") => IsClosed(id)
                         /\ Cancel(id) /\ calls[id].reply # "none" => IsClosed(id)
                         /\ calls[id].reply # "closed")'
      BY DEF CallInv
    <3>1. CASE id \in DOMAIN calls
      BY <1>1, <2>1, <3>1 DEF CallInv, Forward, Cancel, Sent, IsClosed
    <3>2. CASE id = new
      <4>1. kind = "forward" => token \notin listening
        BY <2>1 DEF PortInv, IInv, TypeOK
      <4> QED
        BY <1>1, <3>2, <4>1 DEF Forward, Cancel, IsClosed
    <3> QED
      BY <1>1, <3>1, <3>2
  <2>4. ResponseInv'
    BY <1>1, <2>1 DEF ResponseInv, Forward, Cancel, Sent, IsClosed
  <2>5. PortInv'
    BY <2>1 DEF PortInv, IInv, TypeOK
  <2>6. KnownInv'
    <3> SUFFICES ASSUME NEW t \in listening, t \notin DOMAIN registered'
                 PROVE  \E id \in DOMAIN calls' : /\ calls'[id].kind \in {"forward", "cancel"}
                                                  /\ calls'[id].token = t
                                                  /\ calls'[id].at # "returned"
      BY DEF KnownInv, Forward, Cancel, Returned
    <3>1. CASE t = token /\ kind = "cancel"
      BY <1>1, <3>1
    <3>2. CASE t \notin DOMAIN registered
      BY <1>1, <2>1, <3>2 DEF KnownInv, Forward, Cancel, Returned
    <3> QED
      BY <3>1, <3>2
  <2> QED
    BY <2>2, <2>3, <2>4, <2>5, <2>6
<1> QED
  BY <1>3 DEF IInv

\* A step that touches nothing of the channel.
LEMMA ChannelStays ==
    ASSUME ChannelInv, UNCHANGED <<calls, next_forward_token, registered, to_executor,
                                   to_listener, listening>>
    PROVE  ChannelInv'
BY DEF ChannelInv, RequestInv, CallInv, ResponseInv, PortInv, KnownInv, Forward, Cancel, Sent,
       IsClosed, Returned

\* A step that leaves the listener alone and calls what they were, returned ones returned,
\* keeps the tokens where they are.
LEMMA TokensStay ==
    ASSUME TokenInv, UNCHANGED listener_vars, DOMAIN calls' = DOMAIN calls,
           \A id \in DOMAIN calls :
              /\ calls'[id].kind = calls[id].kind /\ calls'[id].session = calls[id].session
              /\ calls'[id].token = calls[id].token
              /\ calls[id].at = "returned" => calls'[id].at = "returned"
    PROVE  TokenInv'
<1>1. RegistrationsAreOwned'
  BY DEF TokenInv, RegistrationsAreOwned, listener_vars
<1>2. UNCHANGED <<next_forward_token, registered, handler, ended, to_cancel>>
  BY DEF listener_vars
<1>3. \A id \in DOMAIN calls' :
          /\ Forward(id)' <=> Forward(id)
          /\ Cancel(id)' <=> Cancel(id)
          /\ ~Returned(id)' => ~Returned(id)
  BY DEF Forward, Cancel, Returned
<1> QED
  BY <1>1, <1>2, <1>3 DEF TokenInv

\* cancel_remote_forward: whoever held the token gives it up, the registration goes, and
\* the request that cancels the forward is inserted.
LEMMA CancelledIInv ==
    ASSUME IInv, NEW s \in Sessions \cup {NoSession}, NEW token \in DOMAIN registered,
           Unregister(token), Insert("cancel", s, token),
           handler' \in [Sessions -> SUBSET Nat],
           \A r \in Sessions : handler'[r] = handler[r] \ {token},
           to_cancel' = to_cancel \ {token},
           UNCHANGED <<next_forward_token, ended, to_executor, to_listener, listening,
                       executor, reader>>
    PROVE  IInv'
<1> USE DEF IInv
<1> DEFINE new == Len(calls) + 1
<1>1. PICK f \in DOMAIN calls : Forward(f) /\ calls[f].token = token
  BY DEF TokenInv
<1>2. token \in Nat /\ token < next_forward_token /\ Returned(f)
  BY <1>1, CallTypes DEF TokenInv
<1>3. /\ calls' \in Seq(Call)
      /\ DOMAIN calls' = DOMAIN calls \cup {new} /\ new \notin DOMAIN calls
      /\ calls'[new] = [kind |-> "cancel", session |-> s, token |-> token,
                        at |-> "inserted", reply |-> "none"]
      /\ \A id \in DOMAIN calls : calls'[id] = calls[id]
      /\ pending' \subseteq DOMAIN calls' /\ to_executor \in Seq(DOMAIN calls')
  BY <1>2, InsertedCall, Zenon
<1> HIDE DEF new
<1>4. /\ DOMAIN registered' = DOMAIN registered \ {token}
      /\ registered' \in [DOMAIN registered' -> Sessions]
      /\ \A t \in DOMAIN registered' : registered'[t] = registered[t]
  BY DEF Unregister, TypeOK
<1>5. TypeOK'
  BY <1>3, <1>4 DEF TypeOK
<1>6. RegistrationsAreOwned' /\ \A r \in Sessions : handler'[r] \cap to_cancel' = {}
  <2>1. DOMAIN registered' = to_cancel' \cup UNION {handler'[r] : r \in Sessions}
    BY <1>4 DEF TokenInv, RegistrationsAreOwned
  <2>2. \A r \in Sessions : \A t \in handler'[r] : registered'[t] = r /\ r \notin ended
    BY <1>4, <2>1 DEF TokenInv, RegistrationsAreOwned
  <2>3. \A r \in Sessions : handler'[r] \cap to_cancel' = {}
    BY DEF TokenInv
  <2> QED
    BY <2>1, <2>2, <2>3 DEF RegistrationsAreOwned
<1>7. \A g \in DOMAIN calls : Forward(g) /\ ~Returned(g) => calls[g].token # token
  BY DEF TokenInv
<1>8. TokenInv'
  <2>1. \A id \in DOMAIN calls' :
            calls'[id].kind \in {"forward", "cancel"} => calls'[id].token < next_forward_token
    BY <1>2, <1>3 DEF Forward, Cancel, TokenInv
  <2>2. \A i, j \in DOMAIN calls' :
            calls'[i].kind = "forward" /\ calls'[j].kind = "forward"
            /\ calls'[i].token = calls'[j].token => i = j
    BY <1>3 DEF Forward, TokenInv
  <2>3. \A id \in DOMAIN calls' : calls'[id].kind = "forward" /\ calls'[id].at # "returned" =>
            /\ calls'[id].session \in Sessions \ ended
            /\ calls'[id].token \notin DOMAIN registered'
    BY <1>3, <1>4 DEF Forward, TokenInv, Returned
  <2>4. \A id \in DOMAIN calls' : calls'[id].kind = "cancel" =>
            /\ calls'[id].token \notin DOMAIN registered'
            /\ \A g \in DOMAIN calls' : calls'[g].kind = "forward" /\ calls'[g].at # "returned" =>
                  calls'[g].token # calls'[id].token
    BY <1>3, <1>4, <1>7 DEF Forward, Cancel, TokenInv, Returned
  <2>5. \A t \in DOMAIN registered' : \E id \in DOMAIN calls' :
            /\ calls'[id].kind = "forward" /\ calls'[id].token = t
            /\ calls'[id].session = registered'[t]
    BY <1>3, <1>4 DEF Forward, TokenInv
  <2> QED
    BY <1>6, <2>1, <2>2, <2>3, <2>4, <2>5 DEF TokenInv, Forward, Cancel, Returned
<1> QED
  BY <1>2, <1>4, <1>5, <1>8, InsertChannel

\* The steps of the sessions: requests, and the end of one.
LEMMA RequestsIInv ==
    ASSUME IInv, Requests
    PROVE  IInv'
<1> USE DEF IInv
<1>0. UNCHANGED <<to_executor, to_listener, listening, executor, reader>>
  BY DEF Requests
<1>1. ASSUME NEW s \in Sessions, StartService(s) PROVE IInv'
  <2>1. Insert("service", s, NoToken) /\ UNCHANGED listener_vars
        /\ NoToken \in Nat /\ s \in Sessions \cup {NoSession}
    BY <1>1 DEF StartService, NoToken
  <2> DEFINE new == Len(calls) + 1
  <2>2. /\ calls' \in Seq(Call)
        /\ DOMAIN calls' = DOMAIN calls \cup {new}
        /\ calls'[new] = [kind |-> "service", session |-> s, token |-> NoToken,
                          at |-> "inserted", reply |-> "none"]
        /\ \A id \in DOMAIN calls : calls'[id] = calls[id]
        /\ pending' \subseteq DOMAIN calls' /\ to_executor \in Seq(DOMAIN calls')
    BY <2>1, InsertedCall, Zenon
  <2> HIDE DEF new
  <2>3. TypeOK'
    BY <1>0, <2>1, <2>2 DEF TypeOK, listener_vars
  <2>4. TokenInv'
    <3>1. calls'[new].kind # "forward" /\ calls'[new].kind # "cancel"
      BY <2>2
    <3>2. \A id \in DOMAIN calls' : calls'[id].kind \in {"forward", "cancel"} =>
              id \in DOMAIN calls /\ calls'[id] = calls[id]
      BY <2>2, <3>1
    <3>3. \A t \in DOMAIN registered : \E id \in DOMAIN calls' :
              /\ calls'[id].kind = "forward" /\ calls'[id].token = t
              /\ calls'[id].session = registered[t]
      BY <2>2 DEF Forward, TokenInv
    <3>4. RegistrationsAreOwned'
      BY <2>1 DEF TokenInv, RegistrationsAreOwned, listener_vars
    <3> QED
      BY <2>1, <3>2, <3>3, <3>4 DEF TokenInv, Forward, Cancel, Returned, listener_vars
  <2> QED
    BY <1>0, <2>1, <2>3, <2>4, InsertChannel DEF listener_vars
<1>2. ASSUME NEW s \in Sessions, StartRemoteForward(s) PROVE IInv'
  <2>1. /\ Insert("forward", s, next_forward_token) /\ next_forward_token \in Nat
        /\ next_forward_token' = next_forward_token + 1 /\ s \notin ended
        /\ UNCHANGED <<registered, handler, ended, to_cancel>>
    BY <1>2 DEF StartRemoteForward, MayCall, TypeOK
  <2> DEFINE new == Len(calls) + 1
  <2>2. /\ calls' \in Seq(Call)
        /\ DOMAIN calls' = DOMAIN calls \cup {new} /\ new \notin DOMAIN calls
        /\ calls'[new] = [kind |-> "forward", session |-> s, token |-> next_forward_token,
                          at |-> "inserted", reply |-> "none"]
        /\ \A id \in DOMAIN calls : calls'[id] = calls[id]
        /\ pending' \subseteq DOMAIN calls' /\ to_executor \in Seq(DOMAIN calls')
    BY <2>1, InsertedCall, Zenon
  <2> HIDE DEF new
  <2>3. TypeOK'
    BY <1>0, <2>1, <2>2 DEF TypeOK
  <2>4. next_forward_token \notin DOMAIN registered
    BY <2>1 DEF TokenInv
  <2>5. \A id \in DOMAIN calls : (Forward(id) \/ Cancel(id)) =>
            calls[id].token \in Nat /\ calls[id].token < next_forward_token
    BY CallTypes DEF TokenInv
  <2>6. TokenInv'
    <3>1. \A id \in DOMAIN calls' :
              (Forward(id) \/ Cancel(id))' => calls'[id].token < next_forward_token'
      BY <2>1, <2>2, <2>5 DEF Forward, Cancel
    <3>2. \A i, j \in DOMAIN calls' :
              calls'[i].kind = "forward" /\ calls'[j].kind = "forward"
              /\ calls'[i].token = calls'[j].token => i = j
      BY <2>1, <2>2, <2>5 DEF Forward, TokenInv
    <3>3. \A id \in DOMAIN calls' : calls'[id].kind = "forward" /\ calls'[id].at # "returned" =>
              /\ calls'[id].session \in Sessions \ ended
              /\ calls'[id].token \notin DOMAIN registered
      BY <2>1, <2>2, <2>4 DEF Forward, TokenInv, Returned
    <3>4. \A id \in DOMAIN calls' : calls'[id].kind = "cancel" =>
              /\ calls'[id].token \notin DOMAIN registered
              /\ \A f \in DOMAIN calls' : calls'[f].kind = "forward" /\ calls'[f].at # "returned" =>
                    calls'[f].token # calls'[id].token
      BY <2>1, <2>2, <2>5 DEF Forward, Cancel, TokenInv, Returned
    <3>5. \A t \in DOMAIN registered : \E id \in DOMAIN calls' :
              /\ calls'[id].kind = "forward" /\ calls'[id].token = t
              /\ calls'[id].session = registered[t]
      BY <2>2 DEF Forward, TokenInv
    <3> QED
      BY <2>1, <3>1, <3>2, <3>3, <3>4, <3>5
         DEF TokenInv, Forward, Cancel, Returned, RegistrationsAreOwned
  <2> QED
    BY <1>0, <2>1, <2>3, <2>6, InsertChannel
<1>3. ASSUME NEW s \in Sessions, SessionEnds(s) PROVE IInv'
  <2>1. /\ ended' = ended \cup {s} /\ to_cancel' = to_cancel \cup handler[s]
        /\ handler' = [handler EXCEPT ![s] = {}] /\ ~Busy(s)
        /\ UNCHANGED <<calls, pending, next_forward_token, registered>>
    BY <1>3 DEF SessionEnds
  <2>2. TypeOK'
    BY <1>0, <2>1 DEF TypeOK
  <2>3. \A r \in Sessions : handler'[r] = IF r = s THEN {} ELSE handler[r]
    BY <2>1 DEF TypeOK
  <2>4. RegistrationsAreOwned'
    BY <2>1, <2>3 DEF RegistrationsAreOwned, TokenInv
  <2>5. \A r \in Sessions : handler'[r] \cap to_cancel' = {}
    BY <2>1, <2>3 DEF RegistrationsAreOwned, TokenInv
  <2>6. \A id \in DOMAIN calls : Forward(id) /\ ~Returned(id) =>
            calls[id].session \in Sessions \ ended'
    BY <2>1 DEF TokenInv, Busy
  <2>7. TokenInv'
    BY <2>1, <2>4, <2>5, <2>6 DEF TokenInv, Forward, Cancel, Returned
  <2> QED
    BY <1>0, <2>1, <2>2, <2>7, ChannelStays
<1>4. ASSUME NEW s \in Sessions, NEW token, CancelRemoteForward(s, token) PROVE IInv'
  <2>1. /\ token \in handler[s] /\ handler' = [handler EXCEPT ![s] = @ \ {token}]
        /\ Unregister(token) /\ Insert("cancel", s, token)
        /\ UNCHANGED <<next_forward_token, ended, to_cancel>>
    BY <1>4 DEF CancelRemoteForward
  <2>2. token \in DOMAIN registered
    BY <2>1 DEF TokenInv, RegistrationsAreOwned
  <2>3. \A r \in Sessions \ {s} : token \notin handler[r]
    BY <2>1 DEF TokenInv, RegistrationsAreOwned
  <2>4. token \notin to_cancel
    BY <2>1 DEF TokenInv
  <2>5. \A r \in Sessions : handler'[r] = handler[r] \ {token}
    BY <2>1, <2>3 DEF TypeOK
  <2>6. handler' \in [Sessions -> SUBSET Nat]
    BY <2>1 DEF TypeOK
  <2> QED
    BY <1>0, <2>1, <2>2, <2>4, <2>5, <2>6, CancelledIInv
<1>5. ASSUME NEW token, CancelAfterDrop(token) PROVE IInv'
  <2>1. /\ token \in to_cancel /\ to_cancel' = to_cancel \ {token}
        /\ Unregister(token) /\ Insert("cancel", NoSession, token)
        /\ UNCHANGED <<next_forward_token, handler, ended>>
    BY <1>5 DEF CancelAfterDrop
  <2>2. token \in DOMAIN registered
    BY <2>1 DEF TokenInv, RegistrationsAreOwned
  <2>3. \A r \in Sessions : token \notin handler[r]
    BY <2>1 DEF TokenInv
  <2> QED
    BY <1>0, <2>1, <2>2, <2>3, CancelledIInv, Zenon DEF TypeOK
<1> QED
  BY <1>1, <1>2, <1>3, <1>4, <1>5 DEF Requests

-----------------------------------------------------------------------------
\* The second half of a request goes out on a channel that works, or fails.
LEMMA SendIInv ==
    ASSUME IInv, NEW id, Send(id),
           UNCHANGED <<to_listener, listening, executor, reader>>
    PROVE  IInv'
<1> USE DEF IInv
<1>1. id \in DOMAIN calls /\ calls[id].at = "inserted" /\ UNCHANGED listener_vars
  BY DEF Send
<1>2. calls[id] \in Call
  BY <1>1, CallTypes
<1>3. CASE executor = "up"
  <2> DEFINE c == [calls[id] EXCEPT !.at = "waiting"]
  <2>1. c \in Call /\ calls' = [calls EXCEPT ![id] = c] /\ pending' = pending
        /\ to_executor' = Append(to_executor, id)
    BY <1>1, <1>2, <1>3 DEF Send, Call
  <2>2. c.kind = calls[id].kind /\ c.session = calls[id].session /\ c.token = calls[id].token
        /\ c.reply = calls[id].reply /\ c.at = "waiting"
    BY <1>2 DEF Call
  <2> HIDE DEF c
  <2>3. /\ calls' \in Seq(Call) /\ DOMAIN calls' = DOMAIN calls /\ calls'[id] = c
        /\ \A k \in DOMAIN calls \ {id} : calls'[k] = calls[k]
    BY <1>1, <2>1, ReplacedCall DEF TypeOK
  <2>4. /\ to_executor' \in Seq(DOMAIN calls)
        /\ DOMAIN to_executor' = DOMAIN to_executor \cup {Len(to_executor) + 1}
        /\ Len(to_executor) + 1 \notin DOMAIN to_executor
        /\ to_executor'[Len(to_executor) + 1] = id
        /\ \A k \in DOMAIN to_executor : to_executor'[k] = to_executor[k]
    BY <1>1, <2>1, AppendElements DEF TypeOK
  <2>5. TypeOK'
    BY <1>1, <2>1, <2>3, <2>4 DEF TypeOK, listener_vars
  <2>6. TokenInv'
    BY <1>1, <2>2, <2>3, TokensStay
  <2>7. ASSUME reader = "up" PROVE ChannelInv'
    <3>1. ChannelInv
      BY <2>7
    <3>2. calls[id].reply = "none" /\ (Forward(id) => IsClosed(id))
      BY <1>1, <3>1 DEF ChannelInv, CallInv
    <3>3. \A k \in DOMAIN calls' :
              /\ calls'[k].kind = calls[k].kind /\ calls'[k].token = calls[k].token
              /\ calls'[k].reply = calls[k].reply
              /\ calls'[k].at = IF k = id THEN "waiting" ELSE calls[k].at
      BY <2>2, <2>3
    <3>4. \A k \in DOMAIN to_executor : to_executor[k] \in DOMAIN calls /\ to_executor[k] # id
      BY <1>1, <3>1 DEF ChannelInv, RequestInv, TypeOK
    <3>5. \A k : Sent(k)' <=> Sent(k) \/ k = id
      BY <2>4 DEF Sent
    <3>6. RequestInv'
      BY <1>1, <2>3, <2>4, <3>1, <3>2, <3>3, <3>4 DEF ChannelInv, RequestInv
    <3>7. CallInv'
      BY <2>3, <3>1, <3>2, <3>3, <3>5 DEF ChannelInv, CallInv, Forward, Cancel, IsClosed
    <3>8. ResponseInv'
      BY <1>1, <2>3, <3>1, <3>3, <3>5 DEF ChannelInv, ResponseInv, Forward, Cancel, IsClosed
    <3>9. PortInv' /\ KnownInv'
      BY <1>1, <2>3, <3>1, <3>3
         DEF ChannelInv, PortInv, KnownInv, Forward, Cancel, Returned, listener_vars
    <3> QED
      BY <3>6, <3>7, <3>8, <3>9 DEF ChannelInv
  <2> QED
    BY <1>3, <2>5, <2>6, <2>7
<1>4. CASE executor = "down"
  <2> DEFINE c == [calls[id] EXCEPT !.at = "returned", !.reply = "err"]
  <2>1. c \in Call /\ calls' = [calls EXCEPT ![id] = c] /\ pending' \subseteq pending
        /\ to_executor' = to_executor
    BY <1>1, <1>2, <1>4 DEF Send, Call
  <2>2. c.kind = calls[id].kind /\ c.session = calls[id].session /\ c.token = calls[id].token
        /\ c.reply = "err" /\ c.at = "returned"
    BY <1>2 DEF Call
  <2> HIDE DEF c
  <2>3. /\ calls' \in Seq(Call) /\ DOMAIN calls' = DOMAIN calls /\ calls'[id] = c
        /\ \A k \in DOMAIN calls \ {id} : calls'[k] = calls[k]
    BY <1>1, <2>1, ReplacedCall DEF TypeOK
  <2>4. TypeOK'
    BY <1>1, <2>1, <2>3 DEF TypeOK, listener_vars
  <2>5. TokenInv'
    BY <1>1, <2>2, <2>3, TokensStay
  <2>6. listening' = {} /\ DOMAIN to_executor' = {}
    BY <1>4, <2>1
  <2>7. ASSUME reader = "up" PROVE ChannelInv'
    <3>1. ChannelInv
      BY <2>7
    <3>2. RequestInv' /\ PortInv' /\ KnownInv'
      BY <2>6 DEF RequestInv, PortInv, KnownInv
    <3>3. CallInv'
      BY <2>2, <2>3, <2>6, <3>1 DEF ChannelInv, CallInv, IsClosed
    <3>4. ResponseInv'
      BY <1>1, <2>2, <2>3, <2>6, <3>1 DEF ChannelInv, ResponseInv, IsClosed, Sent
    <3> QED
      BY <3>2, <3>3, <3>4 DEF ChannelInv
  <2> QED
    BY <1>4, <2>1, <2>4, <2>5, <2>7
<1> QED
  BY <1>3, <1>4 DEF TypeOK

\* A request returns: the token of a forward that was set up is registered, and any other
\* token it spoke for is of a closed port.
LEMMA ReturnIInv ==
    ASSUME IInv, NEW id, Return(id),
           UNCHANGED <<to_listener, listening, executor, reader>>
    PROVE  IInv'
<1> USE DEF IInv
<1> DEFINE c == [calls[id] EXCEPT !.at = "returned"]
           kept == Forward(id) /\ calls[id].reply = "ok"
<1>1. /\ id \in DOMAIN calls /\ calls[id].at = "waiting" /\ calls[id].reply # "none"
      /\ UNCHANGED <<pending, next_forward_token, ended, to_cancel, to_executor>>
  BY DEF Return
<1>2. /\ kept =>
            /\ registered' = [t \in DOMAIN registered \cup {calls[id].token} |->
                                 IF t = calls[id].token THEN calls[id].session ELSE registered[t]]
            /\ handler' = [handler EXCEPT ![calls[id].session] = @ \cup {calls[id].token}]
      /\ ~kept => UNCHANGED <<registered, handler>>
  BY DEF Return, Forward
<1>3. calls[id] \in Call
  BY <1>1, CallTypes
<1>4. c \in Call /\ calls' = [calls EXCEPT ![id] = c]
  BY <1>1, <1>3 DEF Call, Return
<1>5. c.kind = calls[id].kind /\ c.session = calls[id].session /\ c.token = calls[id].token
      /\ c.reply = calls[id].reply /\ c.at = "returned"
  BY <1>3 DEF Call
<1> HIDE DEF c, kept
<1>6. /\ calls' \in Seq(Call) /\ DOMAIN calls' = DOMAIN calls /\ calls'[id] = c
      /\ \A k \in DOMAIN calls \ {id} : calls'[k] = calls[k]
  BY <1>1, <1>4, ReplacedCall DEF TypeOK
<1>7. \A k \in DOMAIN calls' :
          /\ calls'[k].kind = calls[k].kind /\ calls'[k].token = calls[k].token
          /\ calls'[k].session = calls[k].session /\ calls'[k].reply = calls[k].reply
          /\ calls'[k].at = IF k = id THEN "returned" ELSE calls[k].at
  BY <1>5, <1>6
<1>8. TypeOK' /\ TokenInv' /\ DOMAIN registered \subseteq DOMAIN registered'
      /\ (kept => calls[id].token \in DOMAIN registered')
  <2>1. CASE ~kept
    <3>1. UNCHANGED listener_vars
      BY <1>1, <1>2, <2>1 DEF listener_vars
    <3>2. TypeOK'
      BY <1>1, <1>6, <3>1 DEF TypeOK, listener_vars
    <3> QED
      BY <1>6, <1>7, <2>1, <3>1, <3>2, TokensStay DEF listener_vars
  <2>2. CASE kept
    <3> DEFINE token == calls[id].token
               s == calls[id].session
    <3>1. /\ s \in Sessions \ ended /\ token \in Nat /\ token \notin DOMAIN registered
          /\ token < next_forward_token
      BY <1>1, <2>2, CallTypes DEF TokenInv, Returned, kept
    <3>2. \A k \in DOMAIN calls \ {id} : Forward(k) => calls[k].token # token
      BY <1>1, <2>2 DEF TokenInv, kept
    <3>3. \A k \in DOMAIN calls : Cancel(k) => calls[k].token # token
      BY <1>1, <2>2 DEF TokenInv, Returned, kept
    <3> HIDE DEF token, s
    <3>4. /\ DOMAIN registered' = DOMAIN registered \cup {token}
          /\ registered'[token] = s
          /\ \A t \in DOMAIN registered : registered'[t] = registered[t]
          /\ registered' \in [DOMAIN registered' -> Sessions]
      BY <1>2, <2>2, <3>1 DEF TypeOK, token, s
    <3>5. /\ handler' \in [Sessions -> SUBSET Nat]
          /\ \A r \in Sessions : handler'[r] = IF r = s THEN handler[r] \cup {token} ELSE handler[r]
      <4>1. handler' = [handler EXCEPT ![s] = @ \cup {token}]
        BY <1>2, <2>2 DEF token, s
      <4> QED
        BY <3>1, <4>1, Zenon DEF TypeOK
    <3>6. TypeOK'
      BY <1>1, <1>6, <3>4, <3>5 DEF TypeOK
    <3>7. RegistrationsAreOwned' /\ \A r \in Sessions : handler'[r] \cap to_cancel' = {}
      <4>1. DOMAIN registered = to_cancel \cup UNION {handler[r] : r \in Sessions}
        BY DEF TokenInv, RegistrationsAreOwned
      <4>2. UNION {handler'[r] : r \in Sessions} = (UNION {handler[r] : r \in Sessions}) \cup {token}
        BY <3>1, <3>5
      <4>3. \A r \in Sessions : \A t \in handler'[r] : registered'[t] = r /\ r \notin ended'
        BY <1>1, <3>1, <3>4, <3>5, <4>1 DEF TokenInv, RegistrationsAreOwned
      <4>4. \A r \in Sessions : handler'[r] \cap to_cancel' = {}
        BY <1>1, <3>1, <3>5, <4>1 DEF TokenInv
      <4> QED
        BY <1>1, <3>4, <4>1, <4>2, <4>3, <4>4, Zenon DEF RegistrationsAreOwned
    <3>8. TokenInv'
      <4>1. \A k \in DOMAIN calls' : calls'[k].kind \in {"forward", "cancel"} =>
                calls'[k].token < next_forward_token'
        BY <1>1, <1>6, <1>7 DEF TokenInv, Forward, Cancel
      <4>2. \A i, j \in DOMAIN calls' :
                calls'[i].kind = "forward" /\ calls'[j].kind = "forward"
                /\ calls'[i].token = calls'[j].token => i = j
        BY <1>6, <1>7 DEF TokenInv, Forward
      <4>3. \A k \in DOMAIN calls' : calls'[k].kind = "forward" /\ calls'[k].at # "returned" =>
                /\ calls'[k].session \in Sessions \ ended'
                /\ calls'[k].token \notin DOMAIN registered'
        BY <1>1, <1>6, <1>7, <3>2, <3>4 DEF TokenInv, Forward, Returned
      <4>4. \A k \in DOMAIN calls' : calls'[k].kind = "cancel" =>
                /\ calls'[k].token \notin DOMAIN registered'
                /\ \A f \in DOMAIN calls' : calls'[f].kind = "forward" /\ calls'[f].at # "returned" =>
                      calls'[f].token # calls'[k].token
        BY <1>6, <1>7, <3>3, <3>4 DEF TokenInv, Forward, Cancel, Returned
      <4>5. \A t \in DOMAIN registered' : \E k \in DOMAIN calls' :
                /\ calls'[k].kind = "forward" /\ calls'[k].token = t
                /\ calls'[k].session = registered'[t]
        <5> SUFFICES ASSUME NEW t \in DOMAIN registered'
                     PROVE  \E k \in DOMAIN calls : /\ Forward(k) /\ calls[k].token = t
                                                    /\ calls[k].session = registered'[t]
          BY <1>6, <1>7 DEF Forward
        <5>1. CASE t = token
          BY <1>1, <2>2, <3>4, <5>1 DEF token, s, kept
        <5>2. CASE t \in DOMAIN registered
          BY <3>4, <5>2 DEF TokenInv
        <5> QED
          BY <3>4, <5>1, <5>2
      <4> QED
        BY <3>7, <4>1, <4>2, <4>3, <4>4, <4>5 DEF TokenInv, Forward, Cancel, Returned
    <3> QED
      BY <3>4, <3>6, <3>8 DEF token
  <2> QED
    BY <2>1, <2>2
<1>9. ASSUME reader = "up" PROVE ChannelInv'
  <2>1. ChannelInv
    BY <1>9
  <2>2. \A k \in DOMAIN to_executor : to_executor[k] \in DOMAIN calls /\ to_executor[k] # id
    BY <1>1, <2>1 DEF ChannelInv, RequestInv, TypeOK
  <2>3. RequestInv'
    BY <1>1, <1>6, <1>7, <2>1, <2>2 DEF ChannelInv, RequestInv
  <2>4. CallInv'
    BY <1>1, <1>6, <1>7, <2>1 DEF ChannelInv, CallInv, Forward, Cancel, IsClosed, Sent
  <2>5. ResponseInv'
    BY <1>1, <1>6, <1>7, <2>1 DEF ChannelInv, ResponseInv, Forward, Cancel, IsClosed, Sent
  <2>6. PortInv'
    BY <1>1, <2>1 DEF ChannelInv, PortInv
  <2>7. KnownInv'
    <3>1. calls[id].reply \in {"ok", "err"}
      BY <1>1, <1>3, <2>1 DEF ChannelInv, CallInv, Call
    <3>2. (Forward(id) \/ Cancel(id)) /\ ~kept => IsClosed(id)
      BY <1>1, <2>1, <3>1 DEF ChannelInv, CallInv, kept
    <3> SUFFICES ASSUME NEW t \in listening, t \notin DOMAIN registered'
                 PROVE  \E k \in DOMAIN calls' : /\ calls'[k].kind \in {"forward", "cancel"}
                                                 /\ calls'[k].token = t
                                                 /\ calls'[k].at # "returned"
      BY DEF KnownInv, Forward, Cancel, Returned
    <3>3. PICK k \in DOMAIN calls : (Forward(k) \/ Cancel(k)) /\ calls[k].token = t /\ ~Returned(k)
      BY <1>8, <2>1 DEF ChannelInv, KnownInv
    <3>4. k # id
      BY <1>8, <3>2, <3>3 DEF IsClosed
    <3> QED
      BY <1>6, <1>7, <3>3, <3>4 DEF Forward, Cancel, Returned
  <2> QED
    BY <2>3, <2>4, <2>5, <2>6, <2>7 DEF ChannelInv
<1> QED
  BY <1>1, <1>8, <1>9

-----------------------------------------------------------------------------
\* The executor carries out a request: it opens the port of a forward that has not been
\* answered, or closes one, and answers.
LEMMA ExecuteIInv ==
    ASSUME IInv, NEW result \in {"ok", "err"}, Execute(result),
           UNCHANGED <<calls, pending, reader>>, UNCHANGED listener_vars
    PROVE  IInv'
<1> USE DEF IInv
<1>1. executor = "up" /\ executor' = "up" /\ to_executor # <<>> /\ to_executor' = Tail(to_executor)
  BY DEF Execute
<1>0. PICK id \in DOMAIN calls : id = Head(to_executor)
  BY <1>1, TailElements DEF TypeOK
<1>2. /\ to_executor' \in Seq(DOMAIN calls)
      /\ 1 \in DOMAIN to_executor /\ id = to_executor[1] /\ id \in DOMAIN calls
      /\ \A k \in DOMAIN to_executor' :
            /\ k \in Nat /\ k + 1 \in DOMAIN to_executor /\ k + 1 # 1
            /\ to_executor'[k] = to_executor[k + 1]
  BY <1>0, <1>1, TailElements DEF TypeOK
<1> DEFINE response == [of |-> "response", id |-> id, result |-> result]
<1>3. id \in Nat /\ calls[id].kind \in {"service", "forward", "cancel"} /\ calls[id].token \in Nat
  BY <1>2, CallTypes DEF TypeOK
<1>4. /\ to_listener' = Append(to_listener, response)
      /\ calls[id].kind = "service" => listening' = listening
      /\ Forward(id) => listening' = IF result = "ok" THEN listening \cup {calls[id].token}
                                     ELSE listening
      /\ Cancel(id) => listening' = listening \ {calls[id].token}
  <2>1. CASE calls[id].kind = "service"
    BY <1>0, <2>1 DEF Execute, Respond, Forward, Cancel
  <2>2. CASE Forward(id)
    BY <1>0, <2>2 DEF Execute, Respond, Forward, Cancel
  <2>3. CASE Cancel(id)
    BY <1>0, <2>3 DEF Execute, Respond, Forward, Cancel
  <2> QED
    BY <1>3, <2>1, <2>2, <2>3 DEF Forward, Cancel
<1>5. response \in Message /\ response.of = "response" /\ response.id = id
      /\ response.result = result
  BY <1>3 DEF Message
<1> HIDE DEF response
<1>6. /\ to_listener' \in Seq(Message)
      /\ DOMAIN to_listener' = DOMAIN to_listener \cup {Len(to_listener) + 1}
      /\ to_listener'[Len(to_listener) + 1] = response
      /\ \A m \in DOMAIN to_listener : to_listener'[m] = to_listener[m]
  BY <1>4, <1>5, AppendElements DEF TypeOK
<1>7. TypeOK'
  BY <1>1, <1>2, <1>6 DEF TypeOK, listener_vars
<1>8. TokenInv'
  BY TokensStay
<1>9. ASSUME reader = "up" PROVE ChannelInv'
  <2>1. ChannelInv
    BY <1>9
  <2>2. calls[id].at = "waiting" /\ calls[id].reply = "none" /\ Sent(id)
    BY <1>2, <2>1 DEF ChannelInv, RequestInv, Sent
  <2>3. \A k : Sent(k)' => Sent(k) /\ k # id
    BY <1>2, <2>1 DEF ChannelInv, RequestInv, Sent
  <2>4. \A k \in DOMAIN calls : k # id /\ IsClosed(k) /\ (Forward(k) \/ Cancel(k)) => IsClosed(k)'
    <3>1. Forward(id) => \A k \in DOMAIN calls :
              k # id /\ (Forward(k) \/ Cancel(k)) => calls[k].token # calls[id].token
      BY <1>2, <2>2 DEF TokenInv, Returned
    <3> QED
      BY <1>3, <1>4, <3>1 DEF IsClosed, Forward, Cancel
  <2>5. (Forward(id) /\ result = "err") \/ Cancel(id) => IsClosed(id)'
    BY <1>2, <1>4, <2>1, <2>2 DEF ChannelInv, CallInv, IsClosed
  <2>6. RequestInv'
    <3>1. \A k \in DOMAIN to_executor' :
              calls[to_executor'[k]].at = "waiting" /\ calls[to_executor'[k]].reply = "none"
      BY <1>2, <2>1 DEF ChannelInv, RequestInv
    <3>2. ASSUME NEW j \in DOMAIN to_executor', NEW k \in DOMAIN to_executor',
                 to_executor'[j] = to_executor'[k]
          PROVE  j = k
      <4>1. j + 1 = k + 1
        BY <1>2, <2>1, <3>2 DEF ChannelInv, RequestInv
      <4> QED
        BY <1>2, <4>1
    <3> QED
      BY <3>1, <3>2 DEF RequestInv
  <2>7. CallInv'
    <3> SUFFICES ASSUME NEW k \in DOMAIN calls
                 PROVE  /\ calls[k].at = "inserted" => calls[k].reply = "none"
                        /\ Forward(k) /\ (calls[k].at = "inserted" \/ Sent(k)'
                                          \/ calls[k].reply = "err") => IsClosed(k)'
                        /\ Cancel(k) /\ calls[k].reply # "none" => IsClosed(k)'
                        /\ calls[k].reply # "closed"
      BY DEF CallInv, Forward, Cancel
    <3>1. CASE k = id
      BY <2>2, <2>3, <3>1
    <3>2. CASE k # id
      BY <2>1, <2>3, <2>4, <3>2 DEF ChannelInv, CallInv
    <3> QED
      BY <3>1, <3>2
  <2>8. ResponseInv'
    <3> SUFFICES ASSUME NEW m \in DOMAIN to_listener', to_listener'[m].of = "response",
                        NEW k, k = to_listener'[m].id
                 PROVE  /\ k \in DOMAIN calls /\ calls[k].at # "inserted" /\ ~Sent(k)'
                        /\ Forward(k) /\ to_listener'[m].result = "err" => IsClosed(k)'
                        /\ Cancel(k) => IsClosed(k)'
      BY DEF ResponseInv, Forward, Cancel
    <3>1. CASE m \in DOMAIN to_listener
      BY <1>6, <2>1, <2>2, <2>3, <2>4, <3>1 DEF ChannelInv, ResponseInv
    <3>2. CASE to_listener'[m] = response
      BY <1>2, <1>5, <2>2, <2>3, <2>5, <3>2
    <3> QED
      BY <1>6, <3>1, <3>2
  <2>9. listening' \subseteq listening \cup (IF Forward(id) THEN {calls[id].token} ELSE {})
    BY <1>3, <1>4 DEF Forward, Cancel
  <2>10. PortInv'
    BY <1>2, <1>3, <2>1, <2>9 DEF ChannelInv, PortInv, TokenInv, listener_vars
  <2>11. KnownInv'
    BY <1>2, <2>1, <2>2, <2>9 DEF ChannelInv, KnownInv, Forward, Cancel, Returned, listener_vars
  <2> QED
    BY <2>6, <2>7, <2>8, <2>10, <2>11 DEF ChannelInv
<1> QED
  BY <1>1, <1>7, <1>8, <1>9

\* A connection to a forwarded port, and the end of the executor.
LEMMA ExecutorEventsIInv ==
    ASSUME IInv, ExecutorEvents
    PROVE  IInv'
<1> USE DEF IInv
<1>1. UNCHANGED <<calls, pending, reader>> /\ UNCHANGED listener_vars
  BY DEF ExecutorEvents
<1>2. TokenInv'
  BY <1>1, TokensStay
<1>3. ASSUME NEW token \in Tokens, Accept(token) PROVE IInv'
  <2> DEFINE event == [of |-> "incoming", token |-> token]
  <2>1. /\ executor = "up" /\ UNCHANGED <<to_executor, listening, executor>>
        /\ to_listener' = Append(to_listener, event)
    BY <1>3 DEF Accept
  <2>2. event \in Message /\ event.of # "response"
    BY DEF Message, Tokens
  <2> HIDE DEF event
  <2>3. /\ to_listener' \in Seq(Message)
        /\ DOMAIN to_listener' = DOMAIN to_listener \cup {Len(to_listener) + 1}
        /\ to_listener'[Len(to_listener) + 1] = event
        /\ \A m \in DOMAIN to_listener : to_listener'[m] = to_listener[m]
    BY <2>1, <2>2, AppendElements DEF TypeOK
  <2>4. TypeOK'
    BY <1>1, <2>1, <2>3 DEF TypeOK, listener_vars
  <2>5. \A m \in DOMAIN to_listener' : to_listener'[m].of = "response" =>
            m \in DOMAIN to_listener /\ to_listener'[m] = to_listener[m]
    BY <2>2, <2>3
  <2>6. ChannelInv => ChannelInv'
    <3> SUFFICES ASSUME ChannelInv PROVE ChannelInv'
      OBVIOUS
    <3>1. RequestInv' /\ PortInv'
      BY <1>1, <2>1 DEF ChannelInv, RequestInv, PortInv, listener_vars
    <3>2. CallInv'
      BY <1>1, <2>1 DEF ChannelInv, CallInv, Forward, Cancel, Sent, IsClosed
    <3>3. KnownInv'
      BY <1>1, <2>1, Zenon DEF ChannelInv, KnownInv, Forward, Cancel, Returned, listener_vars
    <3>4. \A id : /\ Forward(id)' = Forward(id) /\ Cancel(id)' = Cancel(id)
                  /\ Sent(id)' = Sent(id) /\ IsClosed(id)' = IsClosed(id)
      BY <1>1, <2>1, Zenon DEF Forward, Cancel, Sent, IsClosed
    <3>5. ResponseInv'
      BY <1>1, <2>5, <3>4 DEF ChannelInv, ResponseInv
    <3> QED
      BY <3>1, <3>2, <3>3, <3>5 DEF ChannelInv
  <2> QED
    BY <1>1, <1>2, <2>1, <2>4, <2>6
<1>4. ASSUME ExecutorStops PROVE IInv'
  <2>1. executor' = "down" /\ to_executor' = <<>> /\ listening' = {} /\ UNCHANGED to_listener
    BY <1>4 DEF ExecutorStops
  <2>2. TypeOK'
    BY <1>1, <2>1 DEF TypeOK, listener_vars
  <2>3. DOMAIN to_executor' = {}
    BY <2>1
  <2>4. ChannelInv => ChannelInv'
    <3> SUFFICES ASSUME ChannelInv PROVE ChannelInv'
      OBVIOUS
    <3>1. RequestInv' /\ PortInv' /\ KnownInv'
      BY <2>1, <2>3 DEF RequestInv, PortInv, KnownInv
    <3>2. CallInv'
      BY <1>1, <2>1 DEF ChannelInv, CallInv, IsClosed
    <3>3. ResponseInv'
      BY <1>1, <2>1, <2>3 DEF ChannelInv, ResponseInv, IsClosed, Sent
    <3> QED
      BY <3>1, <3>2, <3>3 DEF ChannelInv
  <2> QED
    BY <1>1, <1>2, <2>1, <2>2, <2>4
<1> QED
  BY <1>3, <1>4 DEF ExecutorEvents

-----------------------------------------------------------------------------
\* The control reader thread.
LEMMA ReaderIInv ==
    ASSUME IInv, Reader
    PROVE  IInv'
<1> USE DEF IInv
<1>1. UNCHANGED <<to_executor, listening, executor>> /\ UNCHANGED listener_vars
  BY DEF Reader
<1>2. ASSUME to_listener # <<>>, to_listener' = Tail(to_listener)
      PROVE  /\ to_listener' \in Seq(Message)
             /\ 1 \in DOMAIN to_listener /\ Head(to_listener) = to_listener[1]
             /\ Head(to_listener) \in Message
             /\ \A m \in DOMAIN to_listener' :
                   m + 1 \in DOMAIN to_listener /\ to_listener'[m] = to_listener[m + 1]
  BY <1>2, TailElements DEF TypeOK
<1>3. ASSUME ReadResponse PROVE IInv'
  <2>0. PICK message \in Message : message = Head(to_listener)
    BY <1>2, <1>3 DEF ReadResponse
  <2>1. /\ reader = "up" /\ reader' = reader /\ message.of = "response"
        /\ to_listener # <<>> /\ to_listener' = Tail(to_listener)
    BY <1>3, <2>0 DEF ReadResponse
  <2>2. ChannelInv /\ message = to_listener[1] /\ 1 \in DOMAIN to_listener
    BY <1>2, <2>0, <2>1
  <2>3. PICK id \in DOMAIN calls : id = message.id
    BY <2>1, <2>2 DEF ChannelInv, ResponseInv
  <2>4. /\ calls[id].at # "inserted" /\ ~Sent(id)
        /\ Forward(id) /\ message.result = "err" => IsClosed(id)
        /\ Cancel(id) => IsClosed(id)
    BY <2>1, <2>2, <2>3 DEF ChannelInv, ResponseInv
  <2>5. message.result \in {"ok", "err"}
    BY <2>1 DEF Message
  <2>6. /\ pending' = pending \ {id}
        /\ calls' = IF id \in pending THEN [calls EXCEPT ![id].reply = message.result] ELSE calls
    BY <1>3, <2>0, <2>3 DEF ReadResponse
  <2>7. /\ calls' \in Seq(Call) /\ DOMAIN calls' = DOMAIN calls
        /\ \A k \in DOMAIN calls :
              /\ calls'[k].kind = calls[k].kind /\ calls'[k].session = calls[k].session
              /\ calls'[k].token = calls[k].token /\ calls'[k].at = calls[k].at
              /\ calls'[k].reply = IF k = id /\ id \in pending THEN message.result
                                   ELSE calls[k].reply
    <3>1. CASE id \notin pending
      BY <2>6, <3>1 DEF TypeOK
    <3>2. CASE id \in pending
      <4> DEFINE c == [calls[id] EXCEPT !.reply = message.result]
      <4>1. calls[id] \in Call
        BY CallTypes
      <4>2. c \in Call /\ calls' = [calls EXCEPT ![id] = c]
        BY <2>5, <2>6, <3>2, <4>1 DEF Call
      <4>3. /\ c.kind = calls[id].kind /\ c.session = calls[id].session
            /\ c.token = calls[id].token /\ c.at = calls[id].at /\ c.reply = message.result
        BY <4>1 DEF Call
      <4> HIDE DEF c
      <4>4. /\ calls' \in Seq(Call) /\ DOMAIN calls' = DOMAIN calls /\ calls'[id] = c
            /\ \A k \in DOMAIN calls \ {id} : calls'[k] = calls[k]
        BY <4>2, ReplacedCall DEF TypeOK
      <4> QED
        BY <3>2, <4>3, <4>4
    <3> QED
      BY <3>1, <3>2
  <2>8. TypeOK'
    BY <1>1, <1>2, <2>1, <2>6, <2>7 DEF TypeOK, listener_vars
  <2>9. TokenInv'
    BY <1>1, <2>7, TokensStay
  <2>10. ChannelInv'
    <3>1. \A k \in DOMAIN to_executor : to_executor[k] \in DOMAIN calls /\ to_executor[k] # id
      BY <2>4 DEF TypeOK, Sent
    <3>2. RequestInv'
      BY <1>1, <2>2, <2>7, <3>1 DEF ChannelInv, RequestInv
    <3>3. CallInv'
      BY <1>1, <2>2, <2>4, <2>5, <2>7 DEF ChannelInv, CallInv, Forward, Cancel, Sent, IsClosed
    <3>4. ResponseInv'
      BY <1>1, <1>2, <2>1, <2>2, <2>7 DEF ChannelInv, ResponseInv, Forward, Cancel, Sent, IsClosed
    <3>5. PortInv' /\ KnownInv'
      BY <1>1, <2>2, <2>7 DEF ChannelInv, PortInv, KnownInv, Forward, Cancel, Returned, listener_vars
    <3> QED
      BY <3>2, <3>3, <3>4, <3>5 DEF ChannelInv
  <2> QED
    BY <1>1, <2>8, <2>9, <2>10
<1>4. ASSUME ReadIncoming PROVE IInv'
  <2>1. /\ to_listener # <<>> /\ to_listener' = Tail(to_listener)
        /\ UNCHANGED <<calls, pending, reader>>
    BY <1>4 DEF ReadIncoming
  <2>2. TypeOK'
    BY <1>1, <1>2, <2>1 DEF TypeOK, listener_vars
  <2>3. TokenInv'
    BY <1>1, <2>1, TokensStay
  <2>4. ChannelInv => ChannelInv'
    <3> SUFFICES ASSUME ChannelInv PROVE ChannelInv'
      OBVIOUS
    <3>1. RequestInv' /\ CallInv' /\ PortInv' /\ KnownInv'
      BY <1>1, <2>1 DEF ChannelInv, RequestInv, CallInv, PortInv, KnownInv, Forward, Cancel, Sent,
                        IsClosed, Returned, listener_vars
    <3>2. ResponseInv'
      BY <1>1, <1>2, <2>1 DEF ChannelInv, ResponseInv, Forward, Cancel, Sent, IsClosed
    <3> QED
      BY <3>1, <3>2 DEF ChannelInv
  <2> QED
    BY <1>1, <2>1, <2>2, <2>3, <2>4
<1>5. ASSUME ReaderStops PROVE IInv'
  <2>1. /\ reader' = "stopped" /\ pending' = {} /\ UNCHANGED to_listener
        /\ calls' = [id \in DOMAIN calls |->
                        IF id \in pending THEN [calls[id] EXCEPT !.reply = "closed"] ELSE calls[id]]
    BY <1>5 DEF ReaderStops
  <2>2. \A id \in DOMAIN calls :
            /\ calls'[id] \in Call
            /\ calls'[id].kind = calls[id].kind /\ calls'[id].session = calls[id].session
            /\ calls'[id].token = calls[id].token /\ calls'[id].at = calls[id].at
    <3> SUFFICES ASSUME NEW id \in DOMAIN calls
                 PROVE  /\ calls'[id] \in Call
                        /\ calls'[id].kind = calls[id].kind /\ calls'[id].session = calls[id].session
                        /\ calls'[id].token = calls[id].token /\ calls'[id].at = calls[id].at
      OBVIOUS
    <3>1. calls[id] \in Call
      BY CallTypes
    <3> QED
      BY <2>1, <3>1 DEF Call
  <2>3. DOMAIN calls' = DOMAIN calls /\ calls' \in Seq(Call)
    <3>1. Len(calls) \in Nat /\ DOMAIN calls = 1 .. Len(calls)
      BY DEF TypeOK
    <3>2. calls' \in [1 .. Len(calls) -> Call]
      BY <2>1, <2>2, <3>1
    <3> QED
      BY <3>1, <3>2
  <2>4. TypeOK'
    BY <1>1, <2>1, <2>3 DEF TypeOK, listener_vars
  <2>5. TokenInv'
    BY <1>1, <2>2, <2>3, TokensStay
  <2> QED
    BY <1>1, <2>1, <2>4, <2>5
<1> QED
  BY <1>3, <1>4, <1>5 DEF Reader

-----------------------------------------------------------------------------
LEMMA NextIInv == IInv /\ [Next]_vars => IInv'
<1> SUFFICES ASSUME IInv, [Next]_vars PROVE IInv'
  OBVIOUS
<1>1. ASSUME UNCHANGED <<calls, pending, to_executor, to_listener, listening, executor, reader>>,
             UNCHANGED listener_vars
      PROVE  IInv'
  <2>1. TypeOK' /\ TokenInv'
    BY <1>1, TokensStay DEF IInv, TypeOK, listener_vars
  <2> QED
    BY <1>1, <2>1, ChannelStays DEF IInv, listener_vars
<1>2. CASE Requests
  BY <1>2, RequestsIInv
<1>3. CASE Replies
  BY <1>3, SendIInv, ReturnIInv DEF Replies
<1>4. CASE Executor
  BY <1>4, ExecuteIInv DEF Executor
<1>5. CASE ExecutorEvents
  BY <1>5, ExecutorEventsIInv
<1>6. CASE Reader
  BY <1>6, ReaderIInv
<1>7. CASE Dispatcher
  BY <1>1, <1>7 DEF Dispatcher
<1>8. CASE UNCHANGED vars
  BY <1>1, <1>8 DEF vars, listener_vars
<1> QED
  BY <1>2, <1>3, <1>4, <1>5, <1>6, <1>7, <1>8 DEF Next

\* The invariant holds in every reachable state.
THEOREM Invariance == Spec => []IInv
BY InitIInv, NextIInv, PTL DEF Spec

\* However requests, responses and the ends of sessions interleave, a token is registered
\* exactly while a live session holds it or its cancel is about to run, and for that
\* session (start_remote_forward, cancel_remote_forward, Drop for ClientHandler).
THEOREM OwnedRegistrations == Spec => []RegistrationsAreOwned
<1>1. IInv => RegistrationsAreOwned
  BY DEF IInv, TokenInv
<1> QED
  BY <1>1, Invariance, PTL

\* While the control channel works the executor listens on no port that the listener
\* process has forgotten (start_remote_forward, cancel_remote_forward, run_from_control_stdin).
THEOREM NoLeakedForward == Spec => []NoForwardLeaks
<1>1. IInv => NoForwardLeaks
  BY DEF IInv, ChannelInv, KnownInv, NoForwardLeaks
<1> QED
  BY <1>1, Invariance, PTL

\* A connection to a forwarded port is offered only to the session that asked for the
\* forward, and never after its cancel has begun (dispatch_remote_forward_event).
THEOREM ForwardsToTheirSession == Spec => ForwardsReachTheirSession
<1> DEFINE Offered ==
      opening' # opening /\ opening' # Nothing =>
          /\ \E id \in DOMAIN calls :
                /\ calls[id].kind = "forward"
                /\ calls[id].token = opening'.token
                /\ calls[id].session = opening'.session
          /\ ~\E id \in DOMAIN calls :
                calls[id].kind = "cancel" /\ calls[id].token = opening'.token
<1>1. IInv /\ [Next]_vars => [Offered]_vars
  <2> SUFFICES ASSUME IInv, [Next]_vars, opening' # opening, opening' # Nothing
               PROVE  Offered
    OBVIOUS
  <2>1. Dispatch
    BY DEF Next, Requests, Replies, Executor, ExecutorEvents, Reader, Dispatcher, ChannelOpenEnds,
           vars
  <2>2. PICK t \in DOMAIN registered : opening' = [token |-> t, session |-> registered[t]]
    BY <2>1 DEF Dispatch
  <2>3. opening'.token = t /\ opening'.session = registered[t]
    BY <2>2
  <2> QED
    BY <2>3 DEF IInv, TokenInv, Forward, Cancel
<1> QED
  BY <1>1, Invariance, PTL DEF Spec, ForwardsReachTheirSession
=============================================================================
