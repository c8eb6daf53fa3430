------------------------------- MODULE LogFile -------------------------------
(***************************************************************************)
(* The rotating log file (RotatingLogFile of src/logging.rs): one file and *)
(* its predecessor, any file operation of which may fail.                  *)
(***************************************************************************)
EXTENDS Integers, FiniteSets

CONSTANTS
    Lengths,    \* the lengths of a log record; write_all writes nothing for an empty one
    MaxBytes,   \* max_bytes
    Absent,     \* a path without a file
    MaxWrites   \* bound on the records

ASSUME LogFileConstants ==
    /\ Lengths \subseteq Nat \ {0}
    /\ {MaxBytes, MaxWrites} \subseteq Nat
    /\ \A records \in SUBSET (0 .. MaxWrites) : records # Absent

VARIABLES
    open,           \* whether file is Some
    current_len,
    main,           \* the records at path, or Absent
    main_len,       \* the length of the file at path
    rotated,        \* the records at rotated_path, or Absent
    writes,         \* the records offered so far
    panicked        \* an expect has failed

file_vars == <<open, current_len, main, main_len, rotated, writes, panicked>>

\* new appends to what an earlier process left, record 0.
FileInit ==
    /\ open = TRUE
    /\ \E len \in Lengths \cup {0} :
          /\ current_len = len /\ main_len = len
          /\ main = IF len = 0 THEN {} ELSE {0}
    /\ rotated \in {Absent, {}}
    /\ writes = 0
    /\ panicked = FALSE

\* Mutant of NeedsRotation: the incoming record is not added.
NeedsRotationAfter(len) == len # 0 /\ current_len # 0 /\ current_len > MaxBytes

NeedsRotation(len) == len # 0 /\ current_len # 0 /\ current_len + len > MaxBytes

\* write after rotate_if_needed returned: it appends, or fails and changes nothing.
Appended(len, records, file_len, tracked_len) ==
    \/ /\ main' = records \cup {writes'}
       /\ main_len' = file_len + len
       /\ current_len' = tracked_len + len
    \/ /\ main' = records
       /\ main_len' = file_len
       /\ current_len' = tracked_len

Offer == writes < MaxWrites /\ ~panicked /\ writes' = writes + 1

Write(len) ==
    /\ Offer
    /\ ~NeedsRotation(len) /\ open
    /\ Appended(len, main, main_len, current_len)
    /\ UNCHANGED <<open, rotated, panicked>>

\* Mutant of WriteRotated: the file is truncated instead of renamed.
WriteTruncated(len) ==
    /\ Offer
    /\ NeedsRotation(len) /\ main # Absent
    /\ rotated' = Absent
    /\ open' = TRUE
    /\ Appended(len, {}, 0, 0)
    /\ UNCHANGED panicked

\* Flush, remove, rename, open and only then write.
WriteRotated(len) ==
    /\ Offer
    /\ NeedsRotation(len) /\ main # Absent
    /\ rotated' = main
    /\ open' = TRUE
    /\ Appended(len, {}, 0, 0)
    /\ UNCHANGED panicked

\* A rotation that fails has closed the file; how far it came is what is left behind.
RotationFails(len) ==
    /\ Offer
    /\ NeedsRotation(len)
    /\ open' = FALSE
    /\ \/ UNCHANGED <<main, main_len, rotated>>                          \* flush or remove
       \/ rotated' = Absent /\ UNCHANGED <<main, main_len>>              \* rename
       \/ main # Absent /\ rotated' = main /\ main' = Absent /\ main_len' = 0   \* open
    /\ UNCHANGED <<current_len, panicked>>

\* expect("log file handle must be open"), in write or in flush.
WritePanics(len) ==
    /\ Offer
    /\ ~NeedsRotation(len) /\ ~open
    /\ panicked' = TRUE
    /\ UNCHANGED <<open, current_len, main, main_len, rotated>>

\* One record, with what rotate_if_needed makes of it.
LogRecord(len) == Write(len) \/ WriteRotated(len) \/ RotationFails(len) \/ WritePanics(len)

-----------------------------------------------------------------------------
\* While the file is open the length that decides on rotation is the file's, and the
\* file has outgrown its limit only if one record alone does (logging.rs:73-107).
SizeIsBounded ==
    open => /\ current_len = main_len
            /\ main_len <= MaxBytes \/ Cardinality(main) <= 1

Stored == UNION ({main, rotated} \ {Absent})

\* A write, whether its rotation succeeds or fails at any point, loses no record but
\* those of the predecessor file (logging.rs:81-93).
OnlyTheOldestAreLost ==
    [][Stored \ Stored' \subseteq (IF rotated = Absent THEN {} ELSE rotated)]_file_vars
=============================================================================
