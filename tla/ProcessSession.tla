---------------------------- MODULE ProcessSession ----------------------------
(***************************************************************************)
(* What a shell or exec request promises the client, whatever carries the  *)
(* output: what it is shown is, stream by stream, what the processes wrote *)
(* so far and in their order; and the session is either complete, with all *)
(* of it shown, the program dead, and the exit status, eof and close after *)
(* it, or it is cut, and then nothing more is shown.                       *)
(***************************************************************************)
EXTENDS Naturals, Sequences, FiniteSets

CONSTANT Streams

VARIABLES
    wrote,      \* chunks written to each stream
    alive,      \* whether the program runs
    shown,      \* what the client has been sent
    state       \* live, complete, or cut

session_vars == <<wrote, alive, shown, state>>

Message(kind, n) == [kind |-> kind, n |-> n]
Shown(s) == Cardinality({i \in DOMAIN shown : shown[i].kind = s})
Ending == <<Message("ExitStatus", 0), Message("Eof", 0), Message("Close", 0)>>

Init ==
    /\ wrote = [s \in Streams |-> 0]
    /\ alive = TRUE
    /\ shown = <<>>
    /\ state = "live"

Write(s) ==
    /\ state # "complete"
    /\ wrote' = [wrote EXCEPT ![s] = @ + 1]
    /\ UNCHANGED <<alive, shown, state>>

Exit ==
    /\ alive /\ alive' = FALSE
    /\ UNCHANGED <<wrote, shown, state>>

Show(s) ==
    /\ state = "live"
    /\ Shown(s) < wrote[s]
    /\ shown' = Append(shown, Message(s, Shown(s) + 1))
    /\ UNCHANGED <<wrote, alive, state>>

Complete ==
    /\ state = "live" /\ ~alive
    /\ \A s \in Streams : Shown(s) = wrote[s]
    /\ shown' = shown \o Ending
    /\ state' = "complete"
    /\ UNCHANGED <<wrote, alive>>

Cut ==
    /\ state = "live" /\ state' = "cut"
    /\ UNCHANGED <<wrote, alive, shown>>

Next ==
    \/ \E s \in Streams : Write(s) \/ Show(s)
    \/ Exit \/ Complete \/ Cut

Spec == Init /\ [][Next]_session_vars
=============================================================================
