------------------------------- MODULE Logging -------------------------------
(***************************************************************************)
(* The two parts of logging together: a warning about a peer goes through  *)
(* the limiter (AppState::warn_limited), and what the limiter lets pass,   *)
(* like every other record, goes to the rotating file.  The limiter is not *)
(* told whether the record was written.                                    *)
(***************************************************************************)
EXTENDS LogLimiter, LogFile

vars == <<limiter_vars, file_vars>>

Init == LimiterInit /\ FileInit

WarnLimited(key, keys, len) ==
    /\ Check(key, keys)
    /\ IF Emits(Only(keys), key) THEN LogRecord(len) ELSE UNCHANGED file_vars

OtherRecord(len) == LogRecord(len) /\ UNCHANGED limiter_vars

Next ==
    \/ Tick /\ UNCHANGED file_vars
    \/ \E key \in LogKeys, keys \in SUBSET LogKeys, len \in Lengths : WarnLimited(key, keys, len)
    \/ \E len \in Lengths : OtherRecord(len)

Spec == Init /\ [][Next]_vars
=============================================================================
