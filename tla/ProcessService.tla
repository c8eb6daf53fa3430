--------------------------- MODULE ProcessService ---------------------------
(***************************************************************************)
(* One shell or exec request without a terminal, end to end: the child     *)
(* process with its three pipes and the executor's service task and its    *)
(* helpers (start_piped_process_service), on top of the service stream and *)
(* the listener's bridge of ProcessBridge.                                 *)
(***************************************************************************)
EXTENDS ProcessBridge

CONSTANTS
    MaxOutput,   \* chunks of output the child writes in all
    PipeCap      \* chunks a pipe of the child holds

ASSUME ProcessServiceAssumption ==
    /\ MaxOutput \in Nat
    /\ PipeCap \in Nat \ {0}

VARIABLES
    child,      \* the process: running, exited, or reaped by the wait task
    wrote,      \* chunks written to each output stream
    pipes,      \* output streams: chunks in the pipe, who holds its two ends
    output_rx,  \* the channel from the two stream readers to the service task
    stdin       \* the input pipe: chunks in it, and whether it has a reader

outside == <<child, wrote, pipes, stdin>>
executor == <<output_rx, service>>
vars == <<outside, output_rx, bridge_vars>>

Streams == {"Stdout", "Stderr"}
TotalWritten == wrote["Stdout"] + wrote["Stderr"]

Init ==
    /\ child = "running"
    /\ wrote = [s \in Streams |-> 0]
    /\ pipes = [s \in Streams |-> [data |-> <<>>, held |-> TRUE, read |-> TRUE]]
    /\ output_rx = <<>>
    /\ stdin = [data |-> 0, read |-> TRUE]
    /\ BridgeInit

-----------------------------------------------------------------------------
(* The child, and any process that inherited its output pipes. *)

(* The end of the child leaves the input pipe without a reader; a background *)
(* process may keep output pipes of the child open.                          *)
ChildEnds ==
    /\ child' = "exited"
    /\ \E kept \in SUBSET {s \in Streams : pipes[s].held} :
         pipes' = [s \in Streams |-> [pipes[s] EXCEPT !.held = s \in kept]]
    /\ stdin' = [data |-> 0, read |-> FALSE]
    /\ UNCHANGED wrote

(* Mutant of Kill: the signal goes to a process that is no longer the child. *)
KillStray == UNCHANGED outside

(* SIGKILL to the child's pid; without effect when the child has ended. *)
Kill ==
    \/ child = "running" /\ ChildEnds
    \/ child # "running" /\ UNCHANGED outside

ChildWrites(s) ==
    /\ pipes[s].held /\ pipes[s].read
    /\ TotalWritten < MaxOutput
    /\ Len(pipes[s].data) < PipeCap
    /\ wrote' = [wrote EXCEPT ![s] = @ + 1]
    /\ pipes' = [pipes EXCEPT ![s].data = Append(@, wrote[s] + 1)]
    /\ UNCHANGED <<child, stdin, executor, stream, bridge, channel>>

ChildReads ==
    /\ stdin.read /\ stdin.data > 0
    /\ stdin' = [stdin EXCEPT !.data = @ - 1]
    /\ UNCHANGED <<child, wrote, pipes, executor, stream, bridge, channel>>

ChildClosesStdin ==
    /\ child = "running" /\ stdin.read
    /\ stdin' = [data |-> 0, read |-> FALSE]
    /\ UNCHANGED <<child, wrote, pipes, executor, stream, bridge, channel>>

ChildExits ==
    /\ child = "running"
    /\ ChildEnds
    /\ UNCHANGED <<executor, stream, bridge, channel>>

PipeReleased(s) ==
    /\ child # "running" /\ pipes[s].held
    /\ pipes' = [pipes EXCEPT ![s].held = FALSE]
    /\ UNCHANGED <<child, wrote, stdin, executor, stream, bridge, channel>>

-----------------------------------------------------------------------------
(* The executor's tasks. *)

(* One chunk to the unbounded channel, or the end of the stream. *)
ReadProcessStream(s) ==
    /\ pipes[s].read
    /\ \/ /\ pipes[s].data # <<>> /\ service.at # "done"
          /\ pipes' = [pipes EXCEPT ![s].data = Tail(@)]
          /\ output_rx' = Append(output_rx, Output(s, Head(pipes[s].data)))
       \/ /\ \/ pipes[s].data # <<>> /\ service.at = "done"
             \/ pipes[s].data = <<>> /\ ~pipes[s].held
          /\ pipes' = [pipes EXCEPT ![s].read = FALSE]
          /\ UNCHANGED output_rx
    /\ UNCHANGED <<child, wrote, stdin, service, stream, bridge, channel>>

(* child.wait() collects the process and exit_tx carries its code. *)
Wait ==
    /\ child = "exited"
    /\ child' = "reaped"
    /\ UNCHANGED <<wrote, pipes, stdin, executor, stream, bridge, channel>>

(* Mutant of OutputEnded: the service task keeps an output_tx of its own. *)
OutputEndedNever == FALSE

OutputEnded == output_rx = <<>> /\ \A s \in Streams : ~pipes[s].read

ReceiveOutput ==
    /\ service.at = "select" /\ ~service.output_closed
    /\ \/ /\ output_rx # <<>>
          /\ service' = [service EXCEPT !.at = "send", !.message = Head(output_rx)]
          /\ output_rx' = Tail(output_rx)
       \/ /\ OutputEnded
          /\ service' = [service EXCEPT !.output_closed = TRUE]
          /\ UNCHANGED output_rx
    /\ UNCHANGED <<outside, stream, bridge, channel>>

ReceiveExit ==
    /\ service.at = "select" /\ ~service.child_exit
    /\ child = "reaped"
    /\ service' = [service EXCEPT !.child_exit = TRUE]
    /\ UNCHANGED <<outside, output_rx, stream, bridge, channel>>

SendOutput == SendMessage /\ UNCHANGED <<outside, output_rx>>

(* Mutant of SendFails: the loop is left without killing the child. *)
SendFailsWithoutKill == SendRefused /\ UNCHANGED <<outside, output_rx>>

SendFails == SendRefused /\ Kill /\ UNCHANGED output_rx

(* Mutant of LoopEnds: the exit of the child ends the loop by itself. *)
LoopEndsOnExit ==
    \/ service.at = "finish"
    \/ service.at = "select" /\ service.child_exit

LoopEnds ==
    \/ service.at = "finish"
    \/ service.at = "select" /\ service.output_closed /\ service.child_exit

ShutdownStream ==
    /\ LoopEnds
    /\ SendStatusAndShutdown
    /\ UNCHANGED <<outside, output_rx>>

DropStream == AbortInputAndDrop /\ output_rx' = <<>> /\ UNCHANGED outside

EndInput == [service EXCEPT !.input = FALSE]

(* handle_piped_service_input: one message of the listener.  What the child *)
(* makes of the end of its input is covered by ChildExits.                  *)
HandleInput ==
    /\ service.input /\ to_service.queue # <<>>
    /\ LET message == Head(to_service.queue) IN
       \/ /\ message = "data" /\ stdin.read /\ stdin.data < PipeCap
          /\ stdin' = [stdin EXCEPT !.data = @ + 1]
          /\ UNCHANGED <<child, wrote, pipes, service>>
       \/ /\ message = "data" /\ ~stdin.read
          /\ service' = EndInput
          /\ UNCHANGED outside
       \/ /\ message \in {"other", "Eof"}
          /\ UNCHANGED <<outside, service>>
       \/ /\ message = "Close"
          /\ Kill
          /\ service' = EndInput
    /\ to_service' = [to_service EXCEPT !.queue = Tail(@)]
    /\ UNCHANGED <<output_rx, to_bridge, bridge, channel>>

(* The stream ended, or was reset, without a Close: the child lives on. *)
InputEnds ==
    /\ service.input /\ to_service.queue = <<>> /\ ~to_service.open
    /\ service' = EndInput
    /\ UNCHANGED <<outside, output_rx, stream, bridge, channel>>

-----------------------------------------------------------------------------
(* The tasks of the executor and of the listener, each one sequential. *)
ServiceTask ==
    \/ ReceiveOutput \/ ReceiveExit \/ SendOutput \/ SendFails \/ ShutdownStream \/ DropStream
InputTask == InputEnds \/ HandleInput
Bridge == BridgeTask /\ UNCHANGED <<outside, output_rx>>
Forward == ForwardTask /\ UNCHANGED <<outside, output_rx>>
ClientReading == ClientReads /\ UNCHANGED <<outside, output_rx>>

Next ==
    \/ ServiceTask \/ InputTask \/ Wait \/ Bridge \/ Forward
    \/ \E s \in Streams : ReadProcessStream(s) \/ ChildWrites(s) \/ PipeReleased(s)
    \/ ChildReads \/ ChildClosesStdin \/ ChildExits
    \/ Client /\ UNCHANGED <<outside, output_rx>>

(* Every spawned task is polled until it ends; the child empties its stdin *)
(* and the client its window.                                              *)
Fairness ==
    /\ WF_vars(ServiceTask) /\ WF_vars(InputTask) /\ WF_vars(Wait)
    /\ WF_vars(Bridge) /\ WF_vars(Forward)
    /\ \A s \in Streams : WF_vars(ReadProcessStream(s))
    /\ WF_vars(ChildReads) /\ WF_vars(ClientReading)

Spec == Init /\ [][Next]_vars /\ Fairness

-----------------------------------------------------------------------------
(* Properties. *)

Session == INSTANCE ProcessSession WITH
    alive <- child # "reaped", shown <- delivered, state <- SessionState

(* The pipes, the readers, the service task, the stream and the bridge        *)
(* together implement ProcessSession: the client is sent what was written to  *)
(* each stream in order, and a channel the server closes while the client is  *)
(* there has carried all of it, then exit status, eof and close, with the     *)
(* child dead (the loop of start_piped_process_service waits for both the end *)
(* of the output and the exit).                                               *)
SessionSpec == Session!Spec

(* The service task never ends with its child alive: it has seen it exit, or  *)
(* has killed it because the listener no longer takes its output.             *)
NoChildLeftBehind == service.at \in {"abort", "done"} => child # "running"

(* A CHANNEL_CLOSE of the client kills the child, however much input is       *)
(* queued ahead of it, unless the connection goes away first or a write to    *)
(* stdin failed and ended the input task (handle_piped_service_input).        *)
CloseKills ==
    client.session = "closed" ~>
        \/ child # "running"
        \/ client.session = "dropped"
        \/ ~stdin.read

(* Once the child is dead and nothing else holds its output pipes, the bridge *)
(* ends: no order of last output, exit, input and close leaves the service    *)
(* task and the bridge waiting for each other.                                *)
SessionEnds ==
    child # "running" /\ (\A s \in Streams : ~pipes[s].held) ~>
        bridge.at \in {"closed", "failed"}

(* A client that stays is told the exit status: when the bridge is over it    *)
(* has sent one (the session tests treat a missing status as a failure).      *)
ExitIsReported ==
    BridgeGone \/ bridge.at = "failed" =>
        client.session # "open" \/ \E i \in DOMAIN delivered : delivered[i] = ExitStatus
=============================================================================
