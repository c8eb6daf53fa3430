---------------------------- MODULE AuthorizedKeys ----------------------------
(***************************************************************************)
(* The authorized_keys cache (src/authorized_keys.rs) under the attempts   *)
(* that consult it (is_authorized of src/sshd.rs), while an administrator  *)
(* writes, replaces, removes and restores the file.                        *)
(*                                                                         *)
(* A reload looks at the file three times: it stats the path, opens it     *)
(* (and stats what it opened) and reads it.  The daemon runs one attempt   *)
(* at a time, but the administrator may act between these three steps.     *)
(***************************************************************************)
EXTENDS Integers, Sequences, FiniteSets

CONSTANTS
    Keys,               \* public keys
    Texts,              \* what the file may contain: sequences of lines
    MaxSize,            \* authorized_keys_max_size, in lines
    MaxEntries,         \* authorized_keys_max_entries
    ReloadInterval,     \* authorized_keys_reload_interval
    FileSystems,        \* fine: two writes always differ in mtime or length; keeps: a file
                        \* may be put back, or be made readable, and keep its mtime
    MaxVersions,        \* bound on the files written
    MaxTime             \* bound on the clock

ASSUME AuthorizedKeysConstants ==
    /\ \A text \in Texts : text \in Seq(Keys \cup {"options", "comment", "garbage"})
    /\ {MaxSize, MaxEntries, ReloadInterval, MaxVersions, MaxTime} \subseteq Nat
    /\ FileSystems \subseteq [fine : BOOLEAN, keeps : BOOLEAN]

VARIABLES
    now,        \* the clock, also the file system's
    stamps,     \* which of FileSystems this is
    file,       \* what is at the path
    store,      \* AuthorizedKeysState
    attempt,    \* where the running attempt is, and what it has seen of the file
    metrics,    \* the two reload counters
    versions,   \* history: every file there has been
    checked     \* history: a whole check ran since the file last changed

vars == <<now, stamps, file, store, attempt, metrics, versions, checked>>

\* Besides a regular file [modified, text, readable]: none, or a path that cannot be
\* stat'ed.
MISSING == [missing |-> TRUE]
BLOCKED == [blocked |-> TRUE]
NoFingerprint == [none |-> TRUE]
IsVersion(f) == f \notin {MISSING, BLOCKED}

Fingerprint(v) == [modified |-> v.modified, len |-> Len(v.text)]
FingerprintOf(f) == IF f = MISSING THEN MISSING ELSE Fingerprint(f)

-----------------------------------------------------------------------------
\* AuthorizedKeysCache
Entries(text) == SelectSeq(text, LAMBDA line : line # "comment")
Plain(text) == {i \in DOMAIN Entries(text) : Entries(text)[i] \in Keys}
Ignored(text) == {i \in DOMAIN Entries(text) : Entries(text)[i] = "options"}

\* Whether from_text returns Ok, and what it then returns.
Parses(text) ==
    /\ Len(Entries(text)) <= MaxEntries
    /\ \A i \in DOMAIN Entries(text) : Entries(text)[i] # "garbage"
    /\ \A i, j \in Plain(text) : Entries(text)[i] = Entries(text)[j] => i = j

FromText(text) ==
    [accepted_keys |-> {Entries(text)[i] : i \in Plain(text)},
     ignored_entries |-> Cardinality(Ignored(text))]

Loadable(text) == Len(text) <= MaxSize /\ Parses(text)

EmptyCache == [accepted_keys |-> {}, ignored_entries |-> 0]

-----------------------------------------------------------------------------
Idle == [at |-> "idle", answer |-> "none"]

Loaded(v) ==
    [cache |-> FromText(v.text), generation |-> 1, observed_fingerprint |-> Fingerprint(v),
     last_failed |-> NoFingerprint, last_reload_status |-> "loaded",
     next_reload_check_at |-> ReloadInterval]

Missing ==
    [cache |-> EmptyCache, generation |-> 0, observed_fingerprint |-> MISSING,
     last_failed |-> NoFingerprint, last_reload_status |-> "missing",
     next_reload_check_at |-> ReloadInterval]

\* bootstrap loads the file, or starts empty when there is none.
Init ==
    /\ now = 0
    /\ stamps \in FileSystems
    /\ \/ \E v \in [modified : {0}, text : {t \in Texts : Loadable(t)}, readable : {TRUE}] :
             file = v /\ versions = {v} /\ store = Loaded(v)
       \/ file = MISSING /\ versions = {} /\ store = Missing
    /\ attempt = Idle
    /\ metrics = [successes |-> 0, failures |-> 0]
    /\ checked = TRUE

-----------------------------------------------------------------------------
\* The attempt ends: contains(key), or the error of the stat.
Answered(key, cache) ==
    [at |-> "idle", answer |-> IF key \in cache.accepted_keys THEN "accept" ELSE "reject"]

\* refresh_if_due up to the load.
NotDue(key) ==
    /\ attempt.at = "idle" /\ now < store.next_reload_check_at
    /\ attempt' = Answered(key, store.cache)
    /\ UNCHANGED <<now, stamps, file, store, metrics, versions, checked>>

CheckFails(key) ==
    /\ attempt.at = "idle" /\ now >= store.next_reload_check_at
    /\ file = BLOCKED
    /\ store' = [store EXCEPT !.next_reload_check_at = now + ReloadInterval]
    /\ attempt' = [at |-> "idle", answer |-> "error"]
    /\ UNCHANGED <<now, stamps, file, metrics, versions, checked>>

Unchanged(f) == FingerprintOf(f) \in {store.observed_fingerprint, store.last_failed}

CheckUnchanged(key) ==
    /\ attempt.at = "idle" /\ now >= store.next_reload_check_at
    /\ file # BLOCKED /\ Unchanged(file)
    /\ store' = [store EXCEPT !.next_reload_check_at = now + ReloadInterval]
    /\ attempt' = Answered(key, store.cache)
    /\ checked' = TRUE
    /\ UNCHANGED <<now, stamps, file, metrics, versions>>

CheckChanged(key) ==
    /\ attempt.at = "idle" /\ now >= store.next_reload_check_at
    /\ file # BLOCKED /\ ~Unchanged(file)
    /\ store' = [store EXCEPT !.next_reload_check_at = now + ReloadInterval]
    /\ attempt' = [at |-> "open", key |-> key, current_fingerprint |-> FingerprintOf(file)]
    /\ checked' = TRUE
    /\ UNCHANGED <<now, stamps, file, metrics, versions>>

\* Mutant of LoadFails: a file that has gone empties the cache.
LoadFailsClears ==
    /\ store' = IF attempt.current_fingerprint = MISSING
                THEN [store EXCEPT !.observed_fingerprint = MISSING,
                                   !.cache = EmptyCache,
                                   !.last_failed = NoFingerprint,
                                   !.last_reload_status = "missing"]
                ELSE [store EXCEPT !.last_failed = attempt.current_fingerprint,
                                   !.last_reload_status = "failed"]
    /\ metrics' = [metrics EXCEPT !.failures = @ + 1]
    /\ attempt' = Answered(attempt.key, store.cache)

\* The two Err arms of the match, the first for a path that was missing at the stat.
LoadFails ==
    /\ store' = IF attempt.current_fingerprint = MISSING
                THEN [store EXCEPT !.observed_fingerprint = MISSING,
                                   !.last_failed = NoFingerprint,
                                   !.last_reload_status = "missing"]
                ELSE [store EXCEPT !.last_failed = attempt.current_fingerprint,
                                   !.last_reload_status = "failed"]
    /\ metrics' = [metrics EXCEPT !.failures = @ + 1]
    /\ attempt' = Answered(attempt.key, store.cache)

\* AuthorizedKeysCache::load: open and stat, then read and parse.
Opens(f) == IsVersion(f) /\ f.readable /\ Len(f.text) <= MaxSize

OpenFails ==
    /\ attempt.at = "open"
    /\ ~Opens(file)
    /\ LoadFails
    /\ UNCHANGED <<now, stamps, file, versions, checked>>

OpenFile ==
    /\ attempt.at = "open"
    /\ Opens(file)
    /\ attempt' = [at |-> "read", key |-> attempt.key, opened |-> file,
                   current_fingerprint |-> attempt.current_fingerprint]
    /\ UNCHANGED <<now, stamps, file, store, metrics, versions, checked>>

\* The opened file is read as it was, or as it has been rewritten since.
TextRead(text) ==
    text = attempt.opened.text \/ (IsVersion(file) /\ text = file.text)

ReadFails(text) ==
    /\ attempt.at = "read" /\ TextRead(text) /\ ~Parses(text)
    /\ LoadFails
    /\ UNCHANGED <<now, stamps, file, versions, checked>>

\* Mutants of ReadFile: new keys are added to the old ones; the file is stat'ed after
\* it was read.
ReadFileMerges(text) ==
    /\ attempt.at = "read" /\ TextRead(text) /\ Parses(text)
    /\ store' = [store EXCEPT !.cache.accepted_keys = @ \cup FromText(text).accepted_keys,
                              !.generation = @ + 1,
                              !.observed_fingerprint = Fingerprint(attempt.opened),
                              !.last_failed = NoFingerprint,
                              !.last_reload_status = "loaded"]
    /\ metrics' = [metrics EXCEPT !.successes = @ + 1]
    /\ attempt' = Answered(attempt.key, FromText(text))
    /\ UNCHANGED <<now, stamps, file, versions, checked>>

ReadFileStatsLate(text) ==
    /\ attempt.at = "read" /\ TextRead(text) /\ Parses(text)
    /\ store' = [store EXCEPT !.cache = FromText(text),
                              !.generation = @ + 1,
                              !.observed_fingerprint =
                                  Fingerprint(IF IsVersion(file) THEN file ELSE attempt.opened),
                              !.last_failed = NoFingerprint,
                              !.last_reload_status = "loaded"]
    /\ metrics' = [metrics EXCEPT !.successes = @ + 1]
    /\ attempt' = Answered(attempt.key, FromText(text))
    /\ UNCHANGED <<now, stamps, file, versions, checked>>

ReadFile(text) ==
    /\ attempt.at = "read" /\ TextRead(text) /\ Parses(text)
    /\ store' = [store EXCEPT !.cache = FromText(text),
                              !.generation = @ + 1,
                              !.observed_fingerprint = Fingerprint(attempt.opened),
                              !.last_failed = NoFingerprint,
                              !.last_reload_status = "loaded"]
    /\ metrics' = [metrics EXCEPT !.successes = @ + 1]
    /\ attempt' = Answered(attempt.key, FromText(text))
    /\ UNCHANGED <<now, stamps, file, versions, checked>>

-----------------------------------------------------------------------------
\* The administrator.
FileBecomes(f) ==
    /\ f # file
    /\ file' = f
    /\ checked' = FALSE
    /\ UNCHANGED <<now, stamps, store, attempt, metrics>>

WriteFile(text, readable) ==
    LET v == [modified |-> now, text |-> text, readable |-> readable] IN
    /\ Cardinality(versions) < MaxVersions
    /\ stamps.fine => \A old \in versions : Fingerprint(old) # Fingerprint(v)
    /\ FileBecomes(v)
    /\ versions' = versions \cup {v}

RestoreFile(v) == stamps.keeps /\ FileBecomes(v) /\ UNCHANGED versions

ChangeMode ==
    /\ stamps.keeps /\ IsVersion(file)
    /\ LET v == [file EXCEPT !.readable = ~@]
       IN  FileBecomes(v) /\ versions' = versions \cup {v}

RemoveFile == FileBecomes(MISSING) /\ UNCHANGED versions

BlockFile == FileBecomes(BLOCKED) /\ UNCHANGED versions

Tick ==
    /\ now < MaxTime
    /\ now' = now + 1
    /\ UNCHANGED <<stamps, file, store, attempt, metrics, versions, checked>>

Next ==
    \/ \E key \in Keys : NotDue(key) \/ CheckFails(key) \/ CheckUnchanged(key) \/ CheckChanged(key)
    \/ OpenFails \/ OpenFile
    \/ \E text \in Texts : ReadFails(text) \/ ReadFile(text)
    \/ \E text \in Texts, readable \in BOOLEAN : WriteFile(text, readable)
    \/ \E v \in versions : RestoreFile(v)
    \/ ChangeMode
    \/ RemoveFile \/ BlockFile \/ Tick

Spec == Init /\ [][Next]_vars

-----------------------------------------------------------------------------
\* The keys in memory are, all of them and no others, the plain keys of one text the
\* file really had, and one from_text accepts whole: a reload never mixes two
\* versions nor keeps a part of a broken one (authorized_keys.rs:171-180, 208-232).
CacheIsOneVersion ==
    \/ store.generation = 0 /\ store.cache = EmptyCache
    \/ \E v \in versions : Parses(v.text) /\ store.cache = FromText(v.text)

\* "If reload fails, keep the last known-good cache": the cache changes only in a step
\* that loads a whole file and starts a new generation (authorized_keys.rs:171-196).
LastGoodIsKept ==
    [][store'.cache # store.cache =>
          /\ store'.last_reload_status = "loaded"
          /\ store'.generation = store.generation + 1
          /\ metrics'.failures = metrics.failures]_vars

\* Where every edit changes modification time or length: once a check has run on a file
\* that no longer changes, and the file is sound, its keys are the ones in memory; the
\* fingerprints remembered of the earlier stats and failures do not hide it
\* (authorized_keys.rs:161-196).
FreshAfterCheck ==
    stamps.fine /\ ~stamps.keeps /\ checked /\ attempt.at = "idle" /\ IsVersion(file) =>
        (Opens(file) /\ Parses(file.text) => store.cache = FromText(file.text))
=============================================================================
