------------------------------ MODULE LogLimiter ------------------------------
(***************************************************************************)
(* The limiter of repeated warnings (src/log_limiter.rs): per address and  *)
(* reason one message a window, with the number of those held back.        *)
(***************************************************************************)
EXTENDS Integers, FiniteSets

CONSTANTS
    LogKeys,        \* an address and a reason
    Window,         \* window
    MaxEntries,     \* max_entries
    NoEntry,        \* a key without an entry
    MaxChecks,      \* bound on the messages
    MaxTime         \* bound on the clock

Entry == [last_emitted_at : Nat, suppressed : Nat]

ASSUME LimiterConstants ==
    /\ IsFiniteSet(LogKeys)
    /\ NoEntry \notin Entry
    /\ {Window, MaxEntries, MaxChecks, MaxTime} \subseteq Nat

VARIABLES
    now,            \* the clock
    entries,        \* the table: [last_emitted_at, suppressed] or NoEntry
    last_cleanup,
    checks,         \* the messages so far
    emitted,        \* history: when each key was last emitted, NoTime before
    held,           \* history: the messages held back since
    unreported,     \* history: the messages held back that the key's last emission left out
    evicted         \* history: the keys evicted for room since their last emission

limiter_vars == <<now, entries, last_cleanup, checks, emitted, held, unreported, evicted>>

NoTime == -1
Known(table) == {k \in LogKeys : table[k] # NoEntry}

-----------------------------------------------------------------------------
\* maybe_cleanup: what is retained by age, and the tables it may leave.  Entries of
\* the same age are evicted in any order.
\* Mutant of NeedsCleanup: the size of the table is not looked at.
NeedsCleanupByTime == now - last_cleanup >= Window

NeedsCleanup ==
    Cardinality(Known(entries)) > MaxEntries \/ now - last_cleanup >= Window

\* Mutant of Young: one window of retention.
YoungOneWindow == {k \in Known(entries) : now - entries[k].last_emitted_at <= Window}

Young == {k \in Known(entries) : now - entries[k].last_emitted_at <= 2 * Window}

Oldest(removed, kept) ==
    \A r \in removed, k \in kept : entries[r].last_emitted_at <= entries[k].last_emitted_at

Kept(keys) ==
    IF ~NeedsCleanup THEN keys = Known(entries)
    ELSE IF Cardinality(Young) <= MaxEntries THEN keys = Young
    ELSE /\ keys \subseteq Young /\ Cardinality(keys) = MaxEntries
         /\ Oldest(Young \ keys, keys)

Only(keys) == [k \in LogKeys |-> IF k \in keys THEN entries[k] ELSE NoEntry]

\* What a look-up of the key in the cleaned table decides, and the table it leaves.
Emits(table, key) ==
    table[key] = NoEntry \/ now - table[key].last_emitted_at >= Window

Reports(table, key) == IF table[key] = NoEntry THEN 0 ELSE table[key].suppressed

\* Mutant of Checked: the count is not reset.
CheckedNotReset(table, key) ==
    IF Emits(table, key)
    THEN [table EXCEPT ![key] = [last_emitted_at |-> now, suppressed |-> Reports(table, key)]]
    ELSE [table EXCEPT ![key].suppressed = @ + 1]

Checked(table, key) ==
    IF Emits(table, key)
    THEN [table EXCEPT ![key] = [last_emitted_at |-> now, suppressed |-> 0]]
    ELSE [table EXCEPT ![key].suppressed = @ + 1]

-----------------------------------------------------------------------------
LimiterInit ==
    /\ now = 0
    /\ entries = [k \in LogKeys |-> NoEntry]
    /\ last_cleanup = 0
    /\ checks = 0
    /\ emitted = [k \in LogKeys |-> NoTime]
    /\ held = [k \in LogKeys |-> 0]
    /\ unreported = [k \in LogKeys |-> 0]
    /\ evicted = {}

\* check, of warn_limited: clean up, then decide.
Check(key, keys) ==
    LET table == Only(keys)
        pushed == IF NeedsCleanup THEN evicted \cup (Young \ keys) ELSE evicted
    IN
    /\ checks < MaxChecks
    /\ Kept(keys)
    /\ checks' = checks + 1
    /\ last_cleanup' = IF NeedsCleanup THEN now ELSE last_cleanup
    /\ entries' = Checked(table, key)
    /\ IF Emits(table, key)
       THEN /\ emitted' = [emitted EXCEPT ![key] = now]
            /\ held' = [held EXCEPT ![key] = 0]
            /\ unreported' = [unreported EXCEPT ![key] = held[key] - Reports(table, key)]
            /\ evicted' = pushed \ {key}
       ELSE /\ held' = [held EXCEPT ![key] = @ + 1]
            /\ evicted' = pushed
            /\ UNCHANGED <<emitted, unreported>>
    /\ UNCHANGED now

Tick ==
    /\ now < MaxTime
    /\ now' = now + 1
    /\ UNCHANGED <<entries, last_cleanup, checks, emitted, held, unreported, evicted>>

-----------------------------------------------------------------------------
\* The table holds at most one entry more than its limit, because a check cleans up
\* before it inserts (log_limiter.rs:67-122).
TableIsBounded == Cardinality(Known(entries)) <= MaxEntries + 1

\* Every entry tells the truth: when its key was last emitted and how many messages
\* were held back since, through any clean-up in between (log_limiter.rs:67-93).
EntriesAreExact ==
    \A k \in Known(entries) :
        /\ entries[k].last_emitted_at = emitted[k]
        /\ entries[k].suppressed = held[k]

\* For two windows after its emission a key is in the table unless it was evicted for
\* room: the clean-up by age neither lets a message through early nor forgets a count
\* the next message would report (log_limiter.rs:95-122).
RecentKeysAreKept ==
    \A k \in LogKeys :
        emitted[k] # NoTime /\ now - emitted[k] <= 2 * Window /\ k \notin evicted =>
            entries[k] # NoEntry
=============================================================================
