------------------------------ MODULE PtyService ------------------------------
(***************************************************************************)
(* One shell or exec request with a terminal, on Unix, end to end: the     *)
(* child on its pseudo-terminal, the three threads that serve it (reader,  *)
(* control, wait), the executor's service and input tasks                  *)
(* (start_pty_process_service), on top of the service stream and the       *)
(* listener's bridge of ProcessBridge.                                     *)
(*                                                                         *)
(* The master side of the terminal is open while the control thread or the *)
(* reader thread lives.  Its kill is a hangup signal, which a program may  *)
(* ignore; the kernel sends another when the master side closes.           *)
(***************************************************************************)
EXTENDS ProcessBridge, SequencesExt

CONSTANTS
    MaxOutput,   \* chunks of output written to the terminal in all
    PtyCap       \* chunks each direction of the terminal holds

ASSUME PtyServiceAssumption == MaxOutput \in Nat /\ PtyCap \in Nat \ {0}

VARIABLES
    child,      \* the process: its state, and whether it ignores hangups
    wrote,      \* chunks written to the terminal
    pty,        \* output and input in the terminal, whether a process holds it
    reader,     \* whether run_pty_reader runs
    output_rx,  \* the channel from the reader to the service task
    control,    \* run_pty_control: whether it runs, whether it has its writer
    control_rx  \* the channel to it

outside == <<child, wrote, pty>>
threads == <<reader, output_rx, control, control_rx>>
vars == <<outside, threads, bridge_vars>>

Streams == {"Stdout"}
Running == child.state = "running"

Init ==
    /\ child = [state |-> "running", ignores |-> FALSE]
    /\ wrote = [s \in Streams |-> 0]
    /\ pty = [data |-> <<>>, input |-> 0, held |-> TRUE]
    /\ reader = TRUE
    /\ output_rx = <<>>
    /\ control = [runs |-> TRUE, writer |-> TRUE]
    /\ control_rx = <<>>
    /\ BridgeInit

-----------------------------------------------------------------------------
(* The child and the kernel. *)

(* A background process may keep the terminal open. *)
ChildEnds ==
    /\ child' = [child EXCEPT !.state = "exited"]
    /\ \E kept \in {pty.held, FALSE} : pty' = [pty EXCEPT !.held = kept]
    /\ UNCHANGED wrote

(* A hangup: without effect when the child has ended or ignores it. *)
Hangup ==
    \/ Running /\ ~child.ignores /\ ChildEnds
    \/ (~Running \/ child.ignores) /\ UNCHANGED outside

MasterOpen == control.runs \/ reader

ChildWrites ==
    /\ pty.held /\ MasterOpen
    /\ wrote["Stdout"] < MaxOutput /\ Len(pty.data) < PtyCap
    /\ wrote' = [wrote EXCEPT !["Stdout"] = @ + 1]
    /\ pty' = [pty EXCEPT !.data = Append(@, wrote["Stdout"] + 1)]
    /\ UNCHANGED <<child, threads, bridge_vars>>

ChildReads ==
    /\ pty.held /\ pty.input > 0
    /\ pty' = [pty EXCEPT !.input = @ - 1]
    /\ UNCHANGED <<child, wrote, threads, bridge_vars>>

ChildIgnoresHangup ==
    /\ Running /\ ~child.ignores
    /\ child' = [child EXCEPT !.ignores = TRUE]
    /\ UNCHANGED <<wrote, pty, threads, bridge_vars>>

ChildExits ==
    /\ Running
    /\ ChildEnds
    /\ UNCHANGED <<threads, bridge_vars>>

(* The last process that holds the terminal lets go of it: a background *)
(* process, or a child that goes on without it.                         *)
TerminalReleased ==
    /\ pty.held
    /\ pty' = [pty EXCEPT !.held = FALSE]
    /\ UNCHANGED <<child, wrote, threads, bridge_vars>>

MasterCloses ==
    /\ ~MasterOpen /\ Running /\ ~child.ignores
    /\ ChildEnds
    /\ UNCHANGED <<threads, bridge_vars>>

-----------------------------------------------------------------------------
(* The three threads. *)

(* Mutant of ReadEnds: an error of the terminal is retried like EINTR. *)
ReadEndsNever == FALSE

(* The read fails once no process holds the terminal and it is drained. *)
ReadEnds == pty.data = <<>> /\ ~pty.held

RunPtyReader ==
    /\ reader
    /\ \/ /\ pty.data # <<>>
          /\ pty' = [pty EXCEPT !.data = Tail(@)]
          /\ IF service.at = "done"
               THEN reader' = FALSE /\ UNCHANGED output_rx
               ELSE /\ output_rx' = Append(output_rx, Output("Stdout", Head(pty.data)))
                    /\ UNCHANGED reader
       \/ /\ ReadEnds
          /\ reader' = FALSE
          /\ UNCHANGED <<pty, output_rx>>
    /\ UNCHANGED <<child, wrote, control, control_rx, bridge_vars>>

ControlEnds == [runs |-> FALSE, writer |-> FALSE]

(* run_pty_control: one message.  A write waits for room in the terminal and *)
(* fails when no process holds it; dropping the writer ends the input.       *)
RunPtyControl ==
    /\ control.runs /\ control_rx # <<>>
    /\ LET message == Head(control_rx) IN
       \/ /\ message = "data" /\ control.writer /\ pty.held
          /\ pty.input < PtyCap
          /\ pty' = [pty EXCEPT !.input = @ + 1]
          /\ UNCHANGED <<child, wrote, control>>
       \/ /\ message = "data" /\ control.writer /\ ~pty.held
          /\ control' = ControlEnds
          /\ UNCHANGED outside
       \/ /\ message = "other" \/ (message = "data" /\ ~control.writer)
          /\ UNCHANGED <<outside, control>>
       \/ /\ message = "Eof"
          /\ control' = [control EXCEPT !.writer = FALSE]
          /\ UNCHANGED outside
       \/ /\ message = "Close"
          /\ control' = ControlEnds
          /\ Hangup
    /\ control_rx' = IF control'.runs THEN Tail(control_rx) ELSE <<>>
    /\ UNCHANGED <<reader, output_rx, bridge_vars>>

(* Both senders are gone: the input task's and the service task's. *)
ControlDisconnected ==
    /\ control.runs /\ control_rx = <<>>
    /\ service.at = "done"
    /\ control' = ControlEnds
    /\ UNCHANGED <<outside, reader, output_rx, control_rx, bridge_vars>>

Wait ==
    /\ child.state = "exited"
    /\ child' = [child EXCEPT !.state = "reaped"]
    /\ UNCHANGED <<wrote, pty, threads, bridge_vars>>

-----------------------------------------------------------------------------
(* The executor's tasks. *)

(* A send to a control thread that has ended is an error and leaves nothing. *)
Control(messages) ==
    control_rx' = IF control.runs THEN control_rx \o messages ELSE control_rx

ReceiveOutput ==
    /\ service.at = "select" /\ ~service.output_closed
    /\ \/ /\ output_rx # <<>>
          /\ service' = [service EXCEPT !.at = "send", !.message = Head(output_rx)]
          /\ output_rx' = Tail(output_rx)
       \/ /\ output_rx = <<>> /\ ~reader
          /\ service' = [service EXCEPT !.output_closed = TRUE]
          /\ UNCHANGED output_rx
    /\ UNCHANGED <<outside, reader, control, control_rx, stream, bridge, channel>>

(* The exit closes the control side and aborts the input task. *)
ReceiveExit ==
    /\ service.at = "select" /\ ~service.child_exit
    /\ child.state = "reaped"
    /\ service' = [service EXCEPT !.child_exit = TRUE, !.input = FALSE]
    /\ Control(<<"Close">>)
    /\ UNCHANGED <<outside, reader, output_rx, control, stream, bridge, channel>>

SendOutput == SendMessage /\ UNCHANGED <<outside, threads>>

(* The loop is left; the child is not signalled. *)
SendFails == SendRefused /\ UNCHANGED <<outside, threads>>

(* Mutant of LoopEnds: the exit of the child ends the loop by itself, as it *)
(* does on Windows.                                                         *)
LoopEndsOnExit ==
    \/ service.at = "finish"
    \/ service.at = "select" /\ service.child_exit

LoopEnds ==
    \/ service.at = "finish"
    \/ service.at = "select" /\ service.output_closed /\ service.child_exit

ShutdownStream ==
    /\ LoopEnds
    /\ SendStatusAndShutdown
    /\ UNCHANGED <<outside, threads>>

DropStream ==
    /\ AbortInputAndDrop
    /\ output_rx' = <<>>
    /\ UNCHANGED <<outside, reader, control, control_rx>>

EndInput == [service EXCEPT !.input = FALSE]

(* handle_pty_service_input: one message of the listener; after the loop a *)
(* Close follows in any case.                                              *)
HandleInput ==
    /\ service.input /\ to_service.queue # <<>>
    /\ LET message == Head(to_service.queue) IN
       \/ /\ message = "data" /\ ~control.runs
          /\ service' = EndInput
          /\ UNCHANGED control_rx
       \/ /\ message \in {"other", "Eof"} \/ (message = "data" /\ control.runs)
          /\ Control(<<message>>)
          /\ UNCHANGED service
       \/ /\ message = "Close"
          /\ Control(<<"Close", "Close">>)
          /\ service' = EndInput
    /\ to_service' = [to_service EXCEPT !.queue = Tail(@)]
    /\ UNCHANGED <<outside, reader, output_rx, control, to_bridge, bridge, channel>>

(* Mutant of InputEnds: only a Close of the client closes the terminal. *)
InputEndsQuietly ==
    /\ service.input /\ to_service.queue = <<>> /\ ~to_service.open
    /\ service' = EndInput
    /\ UNCHANGED <<outside, threads, stream, bridge, channel>>

(* The stream ends, and the Close follows; a reset of it is an error, and the *)
(* task ends without one.                                                     *)
InputEnds ==
    /\ service.input /\ to_service.queue = <<>> /\ ~to_service.open
    /\ service' = EndInput
    /\ Control(IF to_service.reset THEN <<>> ELSE <<"Close">>)
    /\ to_service' = [to_service EXCEPT !.reset = FALSE]
    /\ UNCHANGED <<outside, reader, output_rx, control, to_bridge, bridge, channel>>

-----------------------------------------------------------------------------
ServiceTask ==
    \/ ReceiveOutput \/ ReceiveExit \/ SendOutput \/ SendFails \/ ShutdownStream \/ DropStream
InputTask == HandleInput \/ InputEnds
ControlThread == RunPtyControl \/ ControlDisconnected
Bridge == BridgeTask /\ UNCHANGED <<outside, threads>>
Forward == ForwardTask /\ UNCHANGED <<outside, threads>>
ClientReading == ClientReads /\ UNCHANGED <<outside, threads>>

Next ==
    \/ ServiceTask \/ InputTask \/ Bridge \/ Forward
    \/ RunPtyReader \/ ControlThread \/ Wait
    \/ ChildWrites \/ ChildReads \/ ChildIgnoresHangup \/ ChildExits
    \/ TerminalReleased \/ MasterCloses
    \/ Client /\ UNCHANGED <<outside, threads>>

(* Tasks and threads run until they end; the kernel delivers its hangup; the *)
(* holder of the terminal reads its input and the client its window.         *)
Fairness ==
    /\ WF_vars(ServiceTask) /\ WF_vars(InputTask)
    /\ WF_vars(Bridge) /\ WF_vars(Forward)
    /\ WF_vars(RunPtyReader) /\ WF_vars(ControlThread) /\ WF_vars(Wait)
    /\ WF_vars(MasterCloses) /\ WF_vars(ChildReads) /\ WF_vars(ClientReading)

Spec == Init /\ [][Next]_vars /\ Fairness

-----------------------------------------------------------------------------
(* Properties. *)

Session == INSTANCE ProcessSession WITH
    alive <- child.state # "reaped", shown <- delivered, state <- SessionState

(* The terminal, its threads, the service task, the stream and the bridge     *)
(* together implement ProcessSession: although the exit of the child closes   *)
(* the control side while output is still in the terminal, the client is sent *)
(* all of it, in order, before exit status, eof and close.                    *)
PtySessionSpec == Session!Spec

(* Once the child is dead and nothing holds the terminal, the bridge ends: no *)
(* order of last output, exit, input and close leaves the three threads, the  *)
(* service task and the bridge waiting for each other.                        *)
PtySessionEnds ==
    ~Running /\ ~pty.held ~> bridge.at \in {"closed", "failed"}

(* Neither the input task nor the service task will send the control thread   *)
(* a Close before the child ends: the bridge went away with output on its     *)
(* way, and its reset, or the failed send of that output, came first.         *)
CloseIsLost ==
    client.session = "dropped" /\ BridgeGone /\ ~service.input /\ ~Contains(control_rx, "Close")

(* A client that closes its channel or goes away takes the program with it,   *)
(* whatever input waits ahead of the close, unless the program ignores        *)
(* hangups or lets go of its terminal (run_pty_control, handle_pty_service_   *)
(* input); only a connection lost while output is on its way to it may leave  *)
(* a program that writes nothing more running.                                *)
LeavingHangsUp ==
    client.session # "open" ~>
        ~Running \/ child.ignores \/ ~pty.held \/ CloseIsLost
=============================================================================
