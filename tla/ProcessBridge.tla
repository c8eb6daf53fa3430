---------------------------- MODULE ProcessBridge ----------------------------
(***************************************************************************)
(* The listener's half of a shell or exec request: the service stream to   *)
(* the executor, a Unix socket pair, and the bridge between it and the SSH *)
(* channel (bridge_process_channel, handle_process_input).  The executor's *)
(* half is ProcessService or PtyService; an action says nothing of the     *)
(* variables those modules add.                                            *)
(*                                                                         *)
(* A chunk of output is its number in its stream.  Input is data, eof or   *)
(* close; signals and window changes are one kind of message, "other":     *)
(* what a signal does to the child is covered by the child ending at any   *)
(* time.                                                                   *)
(***************************************************************************)
EXTENDS Naturals, Sequences

CONSTANTS
    Inputs,      \* kinds of message the client sends, besides the close
    MaxInput,    \* messages the client sends before it closes
    StreamCap,   \* messages a direction of the service stream holds
    Window       \* chunks the client lets the server send ahead of it

ASSUME BridgeAssumption ==
    /\ Inputs \subseteq {"data", "Eof", "other"}
    /\ MaxInput \in Nat
    /\ {StreamCap, Window} \subseteq Nat \ {0}

VARIABLES
    service,    \* the service task in the executor
    to_bridge,  \* service stream, executor to listener
    to_service, \* service stream, listener to executor
    bridge,     \* the bridge task in the listener
    inbox,      \* what the client sent that the bridge has not handled
    delivered,  \* what the server sent to the client on the channel
    client      \* the client: its side of the channel and its window

stream == <<to_bridge, to_service>>
channel == <<inbox, delivered, client>>
bridge_vars == <<service, stream, bridge, channel>>

NoMessage == [kind |-> "none", n |-> 0]
Output(s, n) == [kind |-> s, n |-> n]
ExitStatus == [kind |-> "ExitStatus", n |-> 0]
Eof == [kind |-> "Eof", n |-> 0]
Close == [kind |-> "Close", n |-> 0]

BridgeInit ==
    /\ service = [at |-> "select", message |-> NoMessage, child_exit |-> FALSE,
                  output_closed |-> FALSE, input |-> TRUE]
    /\ to_bridge = [queue |-> <<>>, open |-> TRUE, reset |-> FALSE]
    /\ to_service = [queue |-> <<>>, open |-> TRUE, reset |-> FALSE]
    /\ bridge = [at |-> "read", message |-> NoMessage, exit_status |-> FALSE,
                 input |-> TRUE]
    /\ inbox = <<>>
    /\ delivered = <<>>
    /\ client = [session |-> "open", sent |-> 0, eof |-> FALSE, unread |-> 0]

-----------------------------------------------------------------------------
(* What the executor's service task does with the stream. *)

(* The bridge has dropped its end of the service stream. *)
BridgeGone == bridge.at = "closed"

Writable == Len(to_bridge.queue) < StreamCap

SendMessage ==
    /\ service.at = "send" /\ ~BridgeGone /\ Writable
    /\ to_bridge' = [to_bridge EXCEPT !.queue = Append(@, service.message)]
    /\ service' = [service EXCEPT !.at = "select", !.message = NoMessage]
    /\ UNCHANGED <<to_service, bridge, channel>>

(* A write to the closed socket fails, with the pending error if there is one. *)
SendRefused ==
    /\ service.at = "send" /\ BridgeGone
    /\ service' = [service EXCEPT !.at = "finish", !.message = NoMessage]
    /\ to_service' = [to_service EXCEPT !.reset = FALSE]
    /\ UNCHANGED <<to_bridge, bridge, channel>>

(* The exit status, when there is one, then shutdown. *)
SendStatusAndShutdown ==
    /\ \/ /\ service.child_exit /\ ~BridgeGone /\ Writable
          /\ to_bridge' = [to_bridge EXCEPT !.open = FALSE,
                                            !.queue = Append(@, ExitStatus)]
       \/ /\ BridgeGone \/ ~service.child_exit
          /\ to_bridge' = [to_bridge EXCEPT !.open = FALSE]
    /\ service' = [service EXCEPT !.at = "abort"]
    /\ UNCHANGED <<to_service, bridge, channel>>

(* The input task is aborted and both halves of the stream are dropped: input *)
(* still in the socket makes the close a reset for the other side.            *)
AbortInputAndDrop ==
    /\ service.at = "abort"
    /\ service' = [service EXCEPT !.at = "done", !.input = FALSE]
    /\ to_bridge' = [to_bridge EXCEPT !.reset = to_service.queue # <<>>]
    /\ UNCHANGED <<to_service, bridge, channel>>

-----------------------------------------------------------------------------
(* The listener's bridge. *)

ServiceGone == service.at = "done"

ReadMessage ==
    /\ bridge.at = "read" /\ to_bridge.queue # <<>>
    /\ LET message == Head(to_bridge.queue) IN
       bridge' = IF message = ExitStatus
                   THEN [bridge EXCEPT !.exit_status = TRUE]
                   ELSE [bridge EXCEPT !.at = "send", !.message = message]
    /\ to_bridge' = [to_bridge EXCEPT !.queue = Tail(@)]
    /\ UNCHANGED <<service, to_service, channel>>

(* data_bytes and extended_data_bytes wait for the window of an open channel; *)
(* what is sent on a closed one is discarded.                                 *)
SendData ==
    /\ bridge.at = "send"
    /\ \/ /\ client.session = "open" /\ client.unread < Window
          /\ delivered' = Append(delivered, bridge.message)
          /\ client' = [client EXCEPT !.unread = @ + 1]
       \/ /\ client.session = "closed"
          /\ UNCHANGED <<delivered, client>>
    /\ bridge' = [bridge EXCEPT !.at = "read", !.message = NoMessage]
    /\ UNCHANGED <<service, stream, inbox>>

StreamEnded == bridge.at = "read" /\ to_bridge.queue = <<>> /\ ~to_bridge.open

(* The input task is aborted, then exit status, eof and close are sent and the *)
(* stream is dropped: output still in it makes that a reset for the executor.  *)
CloseChannel ==
    /\ \/ StreamEnded /\ ~to_bridge.reset
       \/ bridge.at = "send" /\ client.session = "dropped"
    /\ bridge' = [bridge EXCEPT !.at = "closed", !.input = FALSE, !.message = NoMessage]
    /\ to_service' = [to_service EXCEPT !.open = FALSE, !.reset = to_bridge.queue # <<>>]
    /\ delivered' = IF client.session # "open" THEN delivered
                    ELSE delivered \o (IF bridge.exit_status THEN <<ExitStatus>> ELSE <<>>)
                                   \o <<Eof, Close>>
    /\ UNCHANGED <<service, to_bridge, inbox, client>>

(* A reset of the stream is a read error: `?` leaves the bridge at once. *)
ReadFails ==
    /\ StreamEnded /\ to_bridge.reset
    /\ bridge' = [bridge EXCEPT !.at = "failed"]
    /\ UNCHANGED <<service, stream, channel>>

(* handle_process_input: one message of the client.  A failed write takes the *)
(* pending error of the socket with it.                                       *)
ForwardInput ==
    /\ bridge.input /\ inbox # <<>>
    /\ LET message == Head(inbox) IN
       \/ /\ ServiceGone
          /\ bridge' = [bridge EXCEPT !.input = FALSE]
          /\ to_bridge' = [to_bridge EXCEPT !.reset = FALSE]
          /\ UNCHANGED to_service
       \/ /\ ~ServiceGone /\ Len(to_service.queue) < StreamCap
          /\ bridge' = [bridge EXCEPT !.input = message # "Close"]
          /\ to_service' = [to_service EXCEPT !.queue = Append(@, message),
                                              !.open = message # "Close"]
          /\ UNCHANGED to_bridge
    /\ inbox' = Tail(inbox)
    /\ UNCHANGED <<service, delivered, client>>

ForwardEnds ==
    /\ bridge.input /\ inbox = <<>> /\ client.session = "dropped"
    /\ bridge' = [bridge EXCEPT !.input = FALSE]
    /\ to_service' = [to_service EXCEPT !.open = FALSE]
    /\ UNCHANGED <<service, to_bridge, channel>>

-----------------------------------------------------------------------------
(* The SSH client. *)

ClientSends(message) ==
    /\ client.session = "open" /\ client.sent < MaxInput
    /\ ~(client.eof /\ message \in {"data", "Eof"})
    /\ inbox' = Append(inbox, message)
    /\ client' = [client EXCEPT !.sent = @ + 1, !.eof = @ \/ message = "Eof"]
    /\ UNCHANGED <<service, stream, bridge, delivered>>

ClientCloses ==
    /\ client.session = "open"
    /\ inbox' = Append(inbox, "Close")
    /\ client' = [client EXCEPT !.session = "closed"]
    /\ UNCHANGED <<service, stream, bridge, delivered>>

ClientDrops ==
    /\ client.session # "dropped"
    /\ client' = [client EXCEPT !.session = "dropped"]
    /\ UNCHANGED <<service, stream, bridge, inbox, delivered>>

ClientReads ==
    /\ client.unread > 0
    /\ client' = [client EXCEPT !.unread = @ - 1]
    /\ UNCHANGED <<service, stream, bridge, inbox, delivered>>

BridgeTask == ReadMessage \/ SendData \/ CloseChannel \/ ReadFails
ForwardTask == ForwardInput \/ ForwardEnds

Client ==
    \/ \E message \in Inputs : ClientSends(message)
    \/ ClientCloses \/ ClientDrops \/ ClientReads

(* How the session stands for the client, for the refinement of ProcessSession. *)
SessionState ==
    IF bridge.at = "closed" /\ delivered # <<>> /\ delivered[Len(delivered)] = Close
    THEN "complete"
    ELSE IF client.session # "open" \/ bridge.at = "failed" THEN "cut"
    ELSE "live"
=============================================================================
