---------------------------- MODULE LoggingProofs ----------------------------
(***************************************************************************)
(* Theorems about the limiter of warnings and the rotating log file, for   *)
(* every set of keys, window, table size, file size and record length.     *)
(***************************************************************************)
EXTENDS Logging, TLAPS, FiniteSetTheorems

\* What the assumptions on the constants say, collected.
LEMMA Constants ==
    /\ IsFiniteSet(LogKeys) /\ NoEntry \notin Entry
    /\ Window \in Nat /\ MaxEntries \in Nat /\ MaxChecks \in Nat /\ MaxTime \in Nat
    /\ Lengths \subseteq Nat \ {0} /\ MaxBytes \in Nat /\ MaxWrites \in Nat
    /\ \A records \in SUBSET (0 .. MaxWrites) : records # Absent
BY LimiterConstants, LogFileConstants

-----------------------------------------------------------------------------
\* The limiter.
LimiterTypeOK ==
    /\ now \in Nat
    /\ entries \in [LogKeys -> Entry \cup {NoEntry}]
    /\ last_cleanup \in Nat
    /\ checks \in Nat
    /\ emitted \in [LogKeys -> Nat \cup {NoTime}]
    /\ held \in [LogKeys -> Nat]
    /\ unreported \in [LogKeys -> Int]
    /\ evicted \subseteq LogKeys

\* A key without an entry for reasons of age was last emitted more than two windows ago;
\* the clock does not run backwards past an emission.
LimiterInv ==
    /\ LimiterTypeOK
    /\ TableIsBounded
    /\ EntriesAreExact
    /\ RecentKeysAreKept

\* The sets of keys in play are finite and have a size.
LEMMA KeySets ==
    ASSUME NEW keys \in SUBSET LogKeys
    PROVE  IsFiniteSet(keys) /\ Cardinality(keys) \in Nat
BY Constants, FS_Subset, FS_CardinalityType

\* What maybe_cleanup keeps is part of the table and fits into it.
LEMMA KeptFits ==
    ASSUME LimiterTypeOK, NEW keys \in SUBSET LogKeys, Kept(keys)
    PROVE  /\ keys \subseteq Known(entries)
           /\ Cardinality(keys) <= MaxEntries
<1>1. Known(entries) \subseteq LogKeys /\ Young \subseteq Known(entries)
  BY DEF Known, Young
<1>2. Cardinality(Known(entries)) \in Nat /\ Cardinality(Young) \in Nat
  BY <1>1, KeySets
<1>3. CASE ~NeedsCleanup
  BY <1>2, <1>3, Constants DEF Kept, NeedsCleanup
<1>4. CASE NeedsCleanup
  BY <1>1, <1>2, <1>4, Constants DEF Kept
<1> QED
  BY <1>3, <1>4

\* A check that follows leaves the kept keys and its own in the table.
LEMMA CheckedKnows ==
    ASSUME LimiterTypeOK, NEW keys \in SUBSET Known(entries), NEW key \in LogKeys
    PROVE  /\ Only(keys) \in [LogKeys -> Entry \cup {NoEntry}]
           /\ Checked(Only(keys), key) \in [LogKeys -> Entry \cup {NoEntry}]
           /\ \A k \in LogKeys : Only(keys)[k] = IF k \in keys THEN entries[k] ELSE NoEntry
           /\ \A k \in LogKeys \ {key} : Checked(Only(keys), key)[k] = Only(keys)[k]
           /\ Emits(Only(keys), key) =>
                 Checked(Only(keys), key)[key] = [last_emitted_at |-> now, suppressed |-> 0]
           /\ ~Emits(Only(keys), key) =>
                 /\ key \in keys
                 /\ Checked(Only(keys), key)[key]
                       = [last_emitted_at |-> entries[key].last_emitted_at,
                          suppressed |-> entries[key].suppressed + 1]
           /\ Known(Checked(Only(keys), key)) = keys \cup {key}
<1> DEFINE table == Only(keys)
           after == Checked(table, key)
<1>1. table \in [LogKeys -> Entry \cup {NoEntry}]
  BY DEF Only, LimiterTypeOK
<1>2. \A k \in LogKeys : table[k] = IF k \in keys THEN entries[k] ELSE NoEntry
  BY DEF Only
<1>3. \A k \in keys : entries[k] \in Entry /\ k \in LogKeys
  BY DEF Known, LimiterTypeOK
<1>4. ~Emits(table, key) => key \in keys /\ table[key] = entries[key] /\ table[key] \in Entry
  BY <1>2, <1>3 DEF Emits
<1> HIDE DEF table
<1>5. CASE Emits(table, key)
  <2>1. after = [table EXCEPT ![key] = [last_emitted_at |-> now, suppressed |-> 0]]
    BY <1>5 DEF Checked
  <2>2. [last_emitted_at |-> now, suppressed |-> 0] \in Entry
    BY DEF Entry, LimiterTypeOK
  <2>3. Known(after) = keys \cup {key}
    BY <1>1, <1>2, <1>3, <2>1, <2>2, Constants DEF Known
  <2> QED
    BY <1>1, <1>2, <1>5, <2>1, <2>2, <2>3, Zenon DEF table
<1>6. CASE ~Emits(table, key)
  <2> DEFINE entry == [last_emitted_at |-> entries[key].last_emitted_at,
                       suppressed |-> entries[key].suppressed + 1]
  <2>1. after = [table EXCEPT ![key].suppressed = @ + 1]
    BY <1>6 DEF Checked
  <2>2. entry \in Entry
    BY <1>4, <1>6 DEF Entry
  <2>3. after = [table EXCEPT ![key] = entry]
    BY <1>1, <1>4, <1>6, <2>1, Zenon DEF Entry
  <2> HIDE DEF entry
  <2>4. Known(after) = keys \cup {key}
    BY <1>1, <1>2, <1>3, <1>4, <1>6, <2>2, <2>3, Constants DEF Known
  <2>5. after[key] = entry /\ \A k \in LogKeys \ {key} : after[k] = table[k]
    BY <1>1, <2>3
  <2>6. after \in [LogKeys -> Entry \cup {NoEntry}]
    BY <1>1, <2>2, <2>3
  <2> HIDE DEF after
  <2>7. /\ key \in keys
        /\ after[key] = [last_emitted_at |-> entries[key].last_emitted_at,
                         suppressed |-> entries[key].suppressed + 1]
    BY <1>4, <1>6, <2>5 DEF entry
  <2> QED
    BY <1>1, <1>2, <1>6, <2>4, <2>5, <2>6, <2>7 DEF table, after
<1> QED
  BY <1>5, <1>6

-----------------------------------------------------------------------------
\* Every step of the limiter preserves the invariant: a check is the one step that
\* touches the table.
LEMMA CheckLimiterInv ==
    ASSUME LimiterInv, NEW key \in LogKeys, NEW keys \in SUBSET LogKeys, Check(key, keys)
    PROVE  LimiterInv'
<1> DEFINE table == Only(keys)
           pushed == IF NeedsCleanup THEN evicted \cup (Young \ keys) ELSE evicted
<1> USE DEF LimiterInv
<1>1. keys \subseteq Known(entries) /\ Cardinality(keys) <= MaxEntries
  BY KeptFits DEF Check
<1>2. entries' = Checked(table, key)
  BY DEF Check
<1>3. /\ table \in [LogKeys -> Entry \cup {NoEntry}]
      /\ Checked(table, key) \in [LogKeys -> Entry \cup {NoEntry}]
      /\ \A k \in LogKeys : table[k] = IF k \in keys THEN entries[k] ELSE NoEntry
      /\ \A k \in LogKeys \ {key} : Checked(table, key)[k] = table[k]
      /\ Emits(table, key) =>
            Checked(table, key)[key] = [last_emitted_at |-> now, suppressed |-> 0]
      /\ ~Emits(table, key) =>
            /\ key \in keys
            /\ Checked(table, key)[key]
                  = [last_emitted_at |-> entries[key].last_emitted_at,
                     suppressed |-> entries[key].suppressed + 1]
      /\ Known(Checked(table, key)) = keys \cup {key}
  BY <1>1, CheckedKnows
<1>4. Known(entries)' = keys \cup {key}
  BY <1>2, <1>3 DEF Known
<1>5. pushed \subseteq LogKeys
  BY DEF LimiterTypeOK, Young, Known
<1> HIDE DEF table, pushed
<1>6. /\ checks' = checks + 1 /\ now' = now
      /\ last_cleanup' = IF NeedsCleanup THEN now ELSE last_cleanup
      /\ IF Emits(table, key)
         THEN /\ emitted' = [emitted EXCEPT ![key] = now]
              /\ held' = [held EXCEPT ![key] = 0]
              /\ unreported' = [unreported EXCEPT ![key] = held[key] - Reports(table, key)]
              /\ evicted' = pushed \ {key}
         ELSE /\ held' = [held EXCEPT ![key] = @ + 1]
              /\ evicted' = pushed
              /\ UNCHANGED <<emitted, unreported>>
  BY DEF Check, table, pushed
<1>7. Reports(table, key) \in Nat
  BY <1>3 DEF Reports, Entry
<1>8. LimiterTypeOK'
  <2>1. entries' \in [LogKeys -> Entry \cup {NoEntry}]
    BY <1>2, <1>3
  <2>2. /\ now' \in Nat /\ last_cleanup' \in Nat /\ checks' \in Nat
        /\ evicted' \subseteq LogKeys
    BY <1>5, <1>6 DEF LimiterTypeOK
  <2>3. /\ emitted' \in [LogKeys -> Nat \cup {NoTime}]
        /\ held' \in [LogKeys -> Nat]
        /\ unreported' \in [LogKeys -> Int]
    BY <1>6, <1>7 DEF LimiterTypeOK
  <2> QED
    BY <2>1, <2>2, <2>3 DEF LimiterTypeOK
<1>9. TableIsBounded'
  <2>1. IsFiniteSet(keys) /\ Cardinality(keys) \in Nat
    BY KeySets
  <2>2. Cardinality(keys \cup {key}) <= Cardinality(keys) + 1
    BY <2>1, FS_AddElement
  <2>3. Cardinality(keys \cup {key}) \in Nat
    BY KeySets
  <2> QED
    BY <1>1, <1>4, <2>1, <2>2, <2>3, Constants DEF TableIsBounded
<1>10. EntriesAreExact'
  <2> SUFFICES ASSUME NEW k \in keys \cup {key}
               PROVE  /\ entries'[k].last_emitted_at = emitted'[k]
                      /\ entries'[k].suppressed = held'[k]
    BY <1>4 DEF EntriesAreExact
  <2>1. CASE k # key
    BY <1>1, <1>2, <1>3, <1>6, <2>1 DEF EntriesAreExact, LimiterTypeOK
  <2>2. CASE k = key /\ Emits(table, key)
    BY <1>2, <1>3, <1>6, <2>2 DEF LimiterTypeOK
  <2>3. CASE k = key /\ ~Emits(table, key)
    BY <1>1, <1>2, <1>3, <1>6, <2>3 DEF EntriesAreExact, LimiterTypeOK
  <2> QED
    BY <2>1, <2>2, <2>3
<1>11. RecentKeysAreKept'
  <2> SUFFICES ASSUME NEW k \in LogKeys, emitted'[k] # NoTime,
                      now' - emitted'[k] <= 2 * Window, k \notin evicted', k # key
               PROVE  k \in keys
    BY <1>4 DEF RecentKeysAreKept, Known
  <2>1. emitted'[k] = emitted[k] /\ k \notin pushed
    BY <1>6 DEF LimiterTypeOK
  <2>2. k \notin evicted /\ (NeedsCleanup => k \notin Young \ keys)
    BY <2>1 DEF pushed
  <2>3. k \in Known(entries)
    BY <1>6, <2>1, <2>2 DEF RecentKeysAreKept, Known
  <2>4. k \in Young
    BY <1>6, <2>1, <2>3 DEF Young, EntriesAreExact
  <2> QED
    BY <2>2, <2>3, <2>4 DEF Check, Kept
<1> QED
  BY <1>8, <1>9, <1>10, <1>11

-----------------------------------------------------------------------------
\* The log file.
FileTypeOK ==
    /\ open \in BOOLEAN
    /\ current_len \in Nat
    /\ main_len \in Nat
    /\ writes \in 0 .. MaxWrites
    /\ main \in (SUBSET (0 .. writes)) \cup {Absent}
    /\ rotated \in (SUBSET (0 .. writes)) \cup {Absent}

\* An open handle has a file behind it, and a length of zero means an empty one: without
\* this a first record longer than the limit could join others.
FileInv ==
    /\ FileTypeOK
    /\ open => main # Absent
    /\ open /\ current_len = 0 => main = {}
    /\ SizeIsBounded

LEMMA InitFileInv == FileInit => FileInv
<1> SUFFICES ASSUME FileInit PROVE FileInv
  OBVIOUS
<1>1. PICK len \in Lengths \cup {0} :
          current_len = len /\ main_len = len /\ main = IF len = 0 THEN {} ELSE {0}
  BY DEF FileInit
<1>2. writes = 0 /\ rotated \in {Absent, {}} /\ open = TRUE
  BY DEF FileInit
<1>3. main \in SUBSET (0 .. 0) /\ main # Absent
  BY <1>1, Constants
<1>4. Cardinality(main) <= 1
  BY <1>1, FS_EmptySet, FS_Singleton
<1> QED
  BY <1>1, <1>2, <1>3, <1>4, Constants DEF FileInv, FileTypeOK, SizeIsBounded

\* One record, whatever becomes of it.
LEMMA LogRecordFileInv ==
    ASSUME FileInv, NEW len \in Lengths, LogRecord(len)
    PROVE  FileInv'
<1> USE Constants DEF FileInv
<1>1. writes' = writes + 1 /\ writes' \in 0 .. MaxWrites
  BY DEF LogRecord, Write, WriteRotated, RotationFails, WritePanics, Offer, FileTypeOK
<1>2. SUBSET (0 .. writes) \subseteq SUBSET (0 .. writes')
  BY <1>1 DEF FileTypeOK
<1>3. Cardinality({writes'}) = 1 /\ {} \cup {writes'} = {writes'}
  BY FS_Singleton
<1>4. CASE Write(len)
  <2>1. open' = open /\ open /\ rotated' = rotated
    BY <1>4 DEF Write
  <2>2. main \in SUBSET (0 .. writes) /\ main # Absent
    BY <2>1 DEF FileTypeOK
  <2>3. current_len = 0 \/ current_len + len <= MaxBytes
    BY <1>4 DEF Write, NeedsRotation, FileTypeOK
  <2>4. CASE /\ main' = main \cup {writes'}
             /\ main_len' = main_len + len
             /\ current_len' = current_len + len
    <3>1. FileTypeOK'
      BY <1>1, <1>2, <2>1, <2>2, <2>4 DEF FileTypeOK
    <3>2. main' \in SUBSET (0 .. writes')
      BY <1>1, <2>2, <2>4 DEF FileTypeOK
    <3>3. main' # Absent /\ current_len' # 0
      BY <1>1, <2>4, <3>2 DEF FileTypeOK
    <3>4. current_len' = main_len'
      BY <2>1, <2>4 DEF SizeIsBounded
    <3>5. CASE current_len = 0
      <4>1. main' = {writes'}
        BY <2>1, <2>4, <3>5
      <4> QED
        BY <1>3, <3>1, <3>3, <3>4, <4>1 DEF SizeIsBounded
    <3>6. CASE current_len + len <= MaxBytes
      BY <2>4, <3>1, <3>3, <3>4, <3>6 DEF SizeIsBounded
    <3> QED
      BY <2>3, <3>5, <3>6
  <2>5. CASE main' = main /\ main_len' = main_len /\ current_len' = current_len
    BY <1>1, <1>2, <2>1, <2>2, <2>5 DEF FileTypeOK, SizeIsBounded
  <2> QED
    BY <1>4, <2>4, <2>5 DEF Write, Appended
<1>5. CASE WriteRotated(len)
  <2>1. open' = TRUE /\ rotated' = main /\ main # Absent
    BY <1>5 DEF WriteRotated
  <2>2. CASE main' = {} \cup {writes'} /\ main_len' = 0 + len /\ current_len' = 0 + len
    <3>1. main' \in SUBSET (0 .. writes') /\ main' # Absent
      BY <1>1, <2>2
    <3> QED
      BY <1>1, <1>2, <1>3, <2>1, <2>2, <3>1 DEF FileTypeOK, SizeIsBounded
  <2>3. CASE main' = {} /\ main_len' = 0 /\ current_len' = 0
    BY <1>1, <1>2, <2>1, <2>3 DEF FileTypeOK, SizeIsBounded
  <2> QED
    BY <1>5, <2>2, <2>3 DEF WriteRotated, Appended
<1>6. CASE RotationFails(len)
  <2>1. open' = FALSE /\ current_len' = current_len
    BY <1>6 DEF RotationFails
  <2>2. main' \in {main, Absent} /\ rotated' \in {rotated, main, Absent}
        /\ main_len' \in {main_len, 0}
    BY <1>6 DEF RotationFails
  <2>3. FileTypeOK'
    <3>1. /\ main' \in (SUBSET (0 .. writes')) \cup {Absent}
          /\ rotated' \in (SUBSET (0 .. writes')) \cup {Absent}
      BY <1>2, <2>2 DEF FileTypeOK
    <3>2. current_len' \in Nat /\ main_len' \in Nat
      BY <2>1, <2>2 DEF FileTypeOK
    <3> QED
      BY <1>1, <2>1, <3>1, <3>2, Zenon DEF FileTypeOK
  <2> QED
    BY <2>1, <2>3 DEF SizeIsBounded
<1>7. CASE WritePanics(len)
  BY <1>1, <1>2, <1>7 DEF WritePanics, FileTypeOK, SizeIsBounded
<1> QED
  BY <1>4, <1>5, <1>6, <1>7 DEF LogRecord

-----------------------------------------------------------------------------
\* The two together.
IInv == LimiterInv /\ FileInv

LEMMA InitIInv == Init => IInv
<1> SUFFICES ASSUME Init PROVE IInv
  OBVIOUS
<1>1. LimiterTypeOK
  BY Constants DEF Init, LimiterInit, LimiterTypeOK, NoTime
<1>2. Known(entries) = {}
  BY DEF Init, LimiterInit, Known
<1>3. TableIsBounded
  BY <1>2, FS_EmptySet, Constants DEF TableIsBounded
<1>4. EntriesAreExact /\ RecentKeysAreKept
  BY <1>2 DEF Init, LimiterInit, EntriesAreExact, RecentKeysAreKept
<1> QED
  BY <1>1, <1>3, <1>4, InitFileInv DEF Init, IInv, LimiterInv

LEMMA NextIInv == IInv /\ [Next]_vars => IInv'
<1> SUFFICES ASSUME IInv, [Next]_vars PROVE IInv'
  OBVIOUS
<1>1. UNCHANGED limiter_vars => LimiterInv'
  BY DEF IInv, LimiterInv, LimiterTypeOK, TableIsBounded, EntriesAreExact, RecentKeysAreKept,
         Known, limiter_vars
<1>2. UNCHANGED file_vars => FileInv'
  BY DEF IInv, FileInv, FileTypeOK, SizeIsBounded, file_vars
<1>3. ASSUME Tick, UNCHANGED file_vars PROVE IInv'
  <2>1. now \in Nat /\ now' = now + 1
        /\ UNCHANGED <<entries, last_cleanup, checks, emitted, held, unreported, evicted>>
    BY <1>3 DEF Tick, IInv, LimiterInv, LimiterTypeOK
  <2>2. LimiterTypeOK' /\ TableIsBounded' /\ EntriesAreExact'
    BY <2>1 DEF IInv, LimiterInv, LimiterTypeOK, TableIsBounded, EntriesAreExact, Known
  <2>3. RecentKeysAreKept'
    <3> SUFFICES ASSUME NEW k \in LogKeys, emitted'[k] # NoTime,
                        now' - emitted'[k] <= 2 * Window, k \notin evicted'
                 PROVE  entries'[k] # NoEntry
      BY DEF RecentKeysAreKept
    <3>1. emitted'[k] = emitted[k] /\ emitted[k] \in Nat
      BY <2>1 DEF IInv, LimiterInv, LimiterTypeOK
    <3>2. now - emitted[k] <= 2 * Window
      BY <2>1, <3>1, Constants
    <3> QED
      BY <2>1, <3>1, <3>2 DEF IInv, LimiterInv, RecentKeysAreKept
  <2> QED
    BY <1>2, <1>3, <2>2, <2>3 DEF IInv, LimiterInv
<1>4. ASSUME NEW key \in LogKeys, NEW keys \in SUBSET LogKeys, NEW len \in Lengths,
             WarnLimited(key, keys, len)
      PROVE  IInv'
  BY <1>2, <1>4, CheckLimiterInv, LogRecordFileInv DEF WarnLimited, IInv
<1>5. ASSUME NEW len \in Lengths, OtherRecord(len) PROVE IInv'
  BY <1>1, <1>5, LogRecordFileInv DEF OtherRecord, IInv
<1>6. CASE UNCHANGED vars
  BY <1>1, <1>2, <1>6 DEF vars, IInv
<1> QED
  BY <1>3, <1>4, <1>5, <1>6 DEF Next

\* The invariant holds in every reachable state.
THEOREM Invariance == Spec => []IInv
BY InitIInv, NextIInv, PTL DEF Spec

\* For every limit, the table of the limiter never holds more than one entry more
\* (LogLimiter::check and maybe_cleanup).
THEOREM TableBound == Spec => []TableIsBounded
<1>1. IInv => TableIsBounded
  BY DEF IInv, LimiterInv
<1> QED
  BY <1>1, Invariance, PTL

\* Every entry of the limiter says when its key was last emitted and how many messages
\* were held back since, through every clean-up (LogLimiter::check).
THEOREM ExactEntries == Spec => []EntriesAreExact
<1>1. IInv => EntriesAreExact
  BY DEF IInv, LimiterInv
<1> QED
  BY <1>1, Invariance, PTL

\* A key emitted within two windows is in the table unless it was evicted for room
\* (maybe_cleanup retains by age before it evicts by number).
THEOREM RecentKeysStay == Spec => []RecentKeysAreKept
<1>1. IInv => RecentKeysAreKept
  BY DEF IInv, LimiterInv
<1> QED
  BY <1>1, Invariance, PTL

\* Whatever fails in a rotation, an open log file has the length its handle is accounted
\* with, and exceeds the limit only by a single record (RotatingLogFile::write).
THEOREM FileBound == Spec => []SizeIsBounded
<1>1. IInv => SizeIsBounded
  BY DEF IInv, FileInv
<1> QED
  BY <1>1, Invariance, PTL

\* No write, and no rotation that fails at whatever point, loses a record that is not in
\* the predecessor file (RotatingLogFile::rotate_if_needed).
THEOREM OldestLost == Spec => OnlyTheOldestAreLost
<1> DEFINE Lost == Stored \ Stored' \subseteq (IF rotated = Absent THEN {} ELSE rotated)
<1>1. ASSUME FileInv, NEW len \in Lengths, LogRecord(len) PROVE Lost
  <2>1. FileInv'
    BY <1>1, LogRecordFileInv
  <2>2. ASSUME NEW r, r \in Stored, r \notin rotated \/ rotated = Absent
        PROVE  r \in main /\ main # Absent
    BY <2>2 DEF Stored
  <2>3. CASE Write(len)
    <3>1. main # Absent /\ main \subseteq main' /\ main' # Absent
      BY <1>1, <2>1, <2>3 DEF Write, FileInv, Appended
    <3> QED
      BY <2>2, <3>1 DEF Stored
  <2>4. CASE WriteRotated(len)
    BY <2>2, <2>4 DEF WriteRotated, Stored
  <2>5. CASE RotationFails(len)
    BY <2>2, <2>5 DEF RotationFails, Stored
  <2>6. CASE WritePanics(len)
    BY <2>6 DEF WritePanics, Stored
  <2> QED
    BY <1>1, <2>3, <2>4, <2>5, <2>6 DEF LogRecord
<1>2. IInv /\ [Next]_vars => [Lost]_file_vars
  <2> SUFFICES ASSUME IInv, [Next]_vars, ~UNCHANGED file_vars PROVE Lost
    OBVIOUS
  <2>1. PICK len \in Lengths : LogRecord(len)
    BY DEF Next, WarnLimited, OtherRecord, vars
  <2> QED
    BY <1>1, <2>1 DEF IInv
<1> QED
  BY <1>2, Invariance, PTL DEF Spec, OnlyTheOldestAreLost
=============================================================================
