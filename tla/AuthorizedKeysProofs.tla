------------------------ MODULE AuthorizedKeysProofs ------------------------
(***************************************************************************)
(* Theorems about the authorized_keys cache, for every set of keys and of  *)
(* files and every configuration: what is in memory is one version of the  *)
(* file, and on a file system that tells two edits apart a check brings it *)
(* up to date.                                                             *)
(***************************************************************************)
EXTENDS AuthorizedKeys, TLAPS

\* The fingerprints that have been seen, or could have been.
Prints == {MISSING} \cup {Fingerprint(v) : v \in versions}

TypeInv ==
    /\ DOMAIN store = {"cache", "generation", "observed_fingerprint", "last_failed",
                       "last_reload_status", "next_reload_check_at"}
    /\ DOMAIN metrics = {"successes", "failures"}
    /\ IsVersion(file) => file \in versions
    /\ store.observed_fingerprint \in Prints
    /\ store.last_failed \in Prints \cup {NoFingerprint}
    /\ attempt.at \in {"idle", "open", "read"}
    /\ attempt.at # "idle" => attempt.current_fingerprint \in Prints
    /\ attempt.at = "read" => attempt.opened \in versions

\* Modification time and length tell the versions of the file apart, and none comes back.
Fine == stamps.fine /\ ~stamps.keeps

Distinct == \A v, w \in versions : Fingerprint(v) = Fingerprint(w) => v = w

\* A fingerprint that is remembered of the file that is there says what a load of it gives.
Remembered ==
    IsVersion(file) =>
        /\ store.observed_fingerprint = Fingerprint(file) => store.cache = FromText(file.text)
        /\ store.last_failed = Fingerprint(file) => ~(Opens(file) /\ Parses(file.text))
        /\ attempt.at = "read" /\ attempt.current_fingerprint = Fingerprint(file) =>
              attempt.opened = file

\* A file that was checked is the one that is being loaded, or its fingerprint is remembered.
Noticed ==
    checked /\ IsVersion(file) =>
        IF attempt.at = "idle"
          THEN Fingerprint(file) \in {store.observed_fingerprint, store.last_failed}
          ELSE attempt.current_fingerprint = Fingerprint(file)

IInv ==
    /\ TypeInv
    /\ CacheIsOneVersion
    /\ Fine => Distinct /\ Remembered /\ Noticed

-----------------------------------------------------------------------------
LEMMA PrintsDiffer == \A v : Fingerprint(v) # MISSING /\ Fingerprint(v) # NoFingerprint
<1> SUFFICES ASSUME NEW v PROVE Fingerprint(v) # MISSING /\ Fingerprint(v) # NoFingerprint
  OBVIOUS
<1>1. DOMAIN Fingerprint(v) = {"modified", "len"}
  BY DEF Fingerprint
<1>2. DOMAIN MISSING = {"missing"} /\ DOMAIN NoFingerprint = {"none"}
  BY DEF MISSING, NoFingerprint
<1> QED
  BY <1>1, <1>2

LEMMA InitIInv == Init => IInv
<1> SUFFICES ASSUME Init PROVE IInv
  OBVIOUS
<1>1. attempt.at = "idle" /\ DOMAIN metrics = {"successes", "failures"}
  BY DEF Init, Idle
<1>2. CASE file = MISSING /\ versions = {} /\ store = Missing
  <2>1. /\ DOMAIN store = {"cache", "generation", "observed_fingerprint", "last_failed",
                           "last_reload_status", "next_reload_check_at"}
        /\ store.observed_fingerprint = MISSING /\ store.last_failed = NoFingerprint
        /\ store.cache = EmptyCache /\ store.generation = 0
    BY <1>2 DEF Missing
  <2>2. ~IsVersion(file)
    BY <1>2 DEF IsVersion
  <2> QED
    BY <1>1, <1>2, <2>1, <2>2
       DEF IInv, TypeInv, CacheIsOneVersion, Distinct, Remembered, Noticed, Prints
<1>3. ASSUME NEW v \in [modified : {0}, text : {t \in Texts : Loadable(t)}, readable : {TRUE}],
             file = v, versions = {v}, store = Loaded(v)
      PROVE  IInv
  <2>1. /\ DOMAIN store = {"cache", "generation", "observed_fingerprint", "last_failed",
                           "last_reload_status", "next_reload_check_at"}
        /\ store.observed_fingerprint = Fingerprint(v) /\ store.last_failed = NoFingerprint
        /\ store.cache = FromText(v.text)
    BY <1>3 DEF Loaded
  <2>2. Parses(v.text)
    BY <1>3 DEF Loadable
  <2>3. CacheIsOneVersion
    BY <1>3, <2>1, <2>2 DEF CacheIsOneVersion
  <2> QED
    BY <1>1, <1>3, <2>1, <2>3, PrintsDiffer
       DEF IInv, TypeInv, Distinct, Remembered, Noticed, Prints
<1> QED
  BY <1>2, <1>3, Zenon DEF Init

\* A check that remembers nothing new, or does not look.
LEMMA CheckIInv ==
    ASSUME IInv, NEW key \in Keys,
           NotDue(key) \/ CheckFails(key) \/ CheckUnchanged(key) \/ CheckChanged(key)
    PROVE  IInv'
<1>1. /\ UNCHANGED <<stamps, file, metrics, versions>> /\ attempt.at = "idle"
      /\ \/ store' = store
         \/ store' = [store EXCEPT !.next_reload_check_at = now + ReloadInterval]
  BY DEF NotDue, CheckFails, CheckUnchanged, CheckChanged
<1>2. /\ DOMAIN store = {"cache", "generation", "observed_fingerprint", "last_failed",
                         "last_reload_status", "next_reload_check_at"}
  BY DEF IInv, TypeInv
<1>3. /\ DOMAIN store' = DOMAIN store /\ store'.cache = store.cache
      /\ store'.generation = store.generation
      /\ store'.observed_fingerprint = store.observed_fingerprint
      /\ store'.last_failed = store.last_failed
  BY <1>1, <1>2
<1>4. CacheIsOneVersion'
  BY <1>1, <1>3 DEF IInv, CacheIsOneVersion
<1>5. Prints' = Prints /\ Distinct' = Distinct
  BY <1>1 DEF Prints, Distinct
<1>6. CASE NotDue(key) \/ CheckFails(key) \/ CheckUnchanged(key)
  <2>1. attempt'.at = "idle"
    BY <1>6 DEF NotDue, CheckFails, CheckUnchanged, Answered
  <2>2. checked' /\ IsVersion(file) =>
          Fingerprint(file) \in {store.observed_fingerprint, store.last_failed} \/ ~Fine
    <3>1. CASE CheckUnchanged(key)
      BY <3>1 DEF CheckUnchanged, Unchanged, FingerprintOf, IsVersion
    <3>2. CASE NotDue(key) \/ CheckFails(key)
      BY <1>1, <3>2, Zenon DEF NotDue, CheckFails, IInv, Noticed
    <3> QED
      BY <1>6, <3>1, <3>2
  <2> QED
    BY <1>1, <1>3, <1>4, <1>5, <2>1, <2>2 DEF IInv, TypeInv, Fine, Remembered, Noticed
<1>7. CASE CheckChanged(key)
  <2>1. attempt'.at = "open" /\ attempt'.current_fingerprint = FingerprintOf(file) /\ file # BLOCKED
    BY <1>7 DEF CheckChanged
  <2>2. FingerprintOf(file) \in Prints
    BY <2>1 DEF IInv, TypeInv, Prints, FingerprintOf, IsVersion
  <2>3. IsVersion(file) => FingerprintOf(file) = Fingerprint(file)
    BY DEF IsVersion, FingerprintOf
  <2> QED
    BY <1>1, <1>3, <1>4, <1>5, <2>1, <2>2, <2>3 DEF IInv, TypeInv, Fine, Remembered, Noticed
<1> QED
  BY <1>6, <1>7

LEMMA OpenFileIInv == IInv /\ OpenFile => IInv'
<1> SUFFICES ASSUME IInv, OpenFile PROVE IInv'
  OBVIOUS
<1>1. /\ UNCHANGED <<stamps, file, store, metrics, versions, checked>>
      /\ attempt.at = "open" /\ IsVersion(file)
      /\ attempt'.at = "read" /\ attempt'.opened = file
      /\ attempt'.current_fingerprint = attempt.current_fingerprint
  BY DEF OpenFile, Opens
<1> QED
  BY <1>1 DEF IInv, TypeInv, CacheIsOneVersion, Fine, Distinct, Remembered, Noticed, Prints

\* A load that fails leaves the cache, and remembers the file only if it could not be loaded.
LEMMA LoadFailsIInv ==
    ASSUME IInv, LoadFails, attempt.at # "idle", UNCHANGED <<stamps, file, versions, checked>>,
           Fine /\ IsVersion(file) /\ attempt.current_fingerprint = Fingerprint(file) =>
               ~(Opens(file) /\ Parses(file.text))
    PROVE  IInv'
<1>1. /\ DOMAIN store = {"cache", "generation", "observed_fingerprint", "last_failed",
                         "last_reload_status", "next_reload_check_at"}
      /\ DOMAIN metrics = {"successes", "failures"} /\ attempt.current_fingerprint \in Prints
  BY DEF IInv, TypeInv
<1>2. attempt'.at = "idle" /\ DOMAIN metrics' = DOMAIN metrics
  BY <1>1 DEF LoadFails, Answered
<1>3. /\ DOMAIN store' = DOMAIN store /\ store'.cache = store.cache
      /\ store'.generation = store.generation
  BY <1>1 DEF LoadFails
<1>4. CacheIsOneVersion'
  BY <1>3 DEF IInv, CacheIsOneVersion
<1>5. Prints' = Prints /\ Distinct' = Distinct /\ MISSING \in Prints
  BY DEF Prints, Distinct
<1>6. CASE attempt.current_fingerprint = MISSING
  <2>1. store'.observed_fingerprint = MISSING /\ store'.last_failed = NoFingerprint
    BY <1>1, <1>6 DEF LoadFails
  <2> QED
    BY <1>1, <1>2, <1>3, <1>4, <1>5, <1>6, <2>1, PrintsDiffer
       DEF IInv, TypeInv, Fine, Remembered, Noticed
<1>7. CASE attempt.current_fingerprint # MISSING
  <2>1. /\ store'.observed_fingerprint = store.observed_fingerprint
        /\ store'.last_failed = attempt.current_fingerprint
    BY <1>1, <1>7 DEF LoadFails
  <2> QED
    BY <1>1, <1>2, <1>3, <1>4, <1>5, <1>7, <2>1
       DEF IInv, TypeInv, Fine, Remembered, Noticed
<1> QED
  BY <1>6, <1>7

LEMMA ReadFileIInv ==
    ASSUME IInv, NEW text \in Texts, ReadFile(text)
    PROVE  IInv'
<1>1. /\ UNCHANGED <<stamps, file, versions, checked>>
      /\ attempt.at = "read" /\ TextRead(text) /\ Parses(text) /\ attempt.opened \in versions
  BY DEF ReadFile, IInv, TypeInv
<1>2. /\ DOMAIN store = {"cache", "generation", "observed_fingerprint", "last_failed",
                         "last_reload_status", "next_reload_check_at"}
      /\ DOMAIN metrics = {"successes", "failures"}
  BY DEF IInv, TypeInv
<1>3. attempt'.at = "idle" /\ DOMAIN metrics' = DOMAIN metrics
  BY <1>2 DEF ReadFile, Answered
<1>4. /\ DOMAIN store' = DOMAIN store /\ store'.cache = FromText(text)
      /\ store'.observed_fingerprint = Fingerprint(attempt.opened)
      /\ store'.last_failed = NoFingerprint
  BY <1>2 DEF ReadFile
<1>5. CacheIsOneVersion'
  <2>1. \E v \in versions : text = v.text
    BY <1>1 DEF TextRead, IInv, TypeInv
  <2> QED
    BY <1>1, <1>4, <2>1 DEF CacheIsOneVersion
<1>6. TypeInv'
  BY <1>1, <1>2, <1>3, <1>4 DEF IInv, TypeInv, Prints
<1>7. ASSUME Fine PROVE Distinct' /\ Remembered' /\ Noticed'
  <2>1. Distinct /\ Distinct'
    BY <1>1, <1>7 DEF IInv, Distinct
  <2>2. IsVersion(file) /\ Fingerprint(attempt.opened) = Fingerprint(file) => text = file.text
    BY <1>1, <2>1 DEF IInv, TypeInv, Distinct, TextRead
  <2>3. Remembered'
    BY <1>1, <1>3, <1>4, <2>2, PrintsDiffer DEF Remembered
  <2>4. checked /\ IsVersion(file) => attempt.opened = file
    BY <1>1, <1>7 DEF IInv, Remembered, Noticed
  <2>5. Noticed'
    BY <1>1, <1>3, <1>4, <2>4 DEF Noticed
  <2> QED
    BY <2>1, <2>3, <2>5
<1> QED
  BY <1>1, <1>5, <1>6, <1>7 DEF IInv, Fine

\* Another file, new where edits can be told apart: nothing is remembered of it.
LEMMA FileBecomesIInv ==
    ASSUME IInv, NEW f, FileBecomes(f), versions \subseteq versions', IsVersion(f) => f \in versions',
           Fine => Distinct' /\ (IsVersion(f) => \A old \in versions : Fingerprint(old) # Fingerprint(f))
    PROVE  IInv'
<1>1. UNCHANGED <<stamps, store, attempt, metrics>> /\ file' = f /\ checked' = FALSE
  BY DEF FileBecomes
<1>2. Prints \subseteq Prints'
  BY DEF Prints
<1>3. TypeInv'
  BY <1>1, <1>2 DEF IInv, TypeInv
<1>4. CacheIsOneVersion'
  BY <1>1 DEF IInv, CacheIsOneVersion
<1>5. ASSUME Fine PROVE Remembered'
  <2>1. IsVersion(f) => Fingerprint(f) \notin Prints \cup {NoFingerprint}
    BY <1>5, PrintsDiffer DEF Prints
  <2> QED
    BY <1>1, <2>1 DEF IInv, TypeInv, Remembered
<1>6. Noticed'
  BY <1>1 DEF Noticed
<1> QED
  BY <1>1, <1>3, <1>4, <1>5, <1>6 DEF IInv, Fine

LEMMA AdministratorIInv ==
    ASSUME IInv,
           \/ \E text \in Texts, readable \in BOOLEAN : WriteFile(text, readable)
           \/ \E v \in versions : RestoreFile(v)
           \/ ChangeMode \/ RemoveFile \/ BlockFile
    PROVE  IInv'
<1>1. ASSUME NEW text \in Texts, NEW readable \in BOOLEAN, WriteFile(text, readable) PROVE IInv'
  <2>1. PICK v : /\ FileBecomes(v) /\ versions' = versions \cup {v}
                 /\ stamps.fine => \A old \in versions : Fingerprint(old) # Fingerprint(v)
    BY <1>1 DEF WriteFile
  <2>2. Fine => Distinct'
    BY <2>1 DEF IInv, Fine, Distinct
  <2> QED
    BY <2>1, <2>2, FileBecomesIInv DEF Fine
<1>2. ASSUME NEW v \in versions, RestoreFile(v) PROVE IInv'
  BY <1>2, FileBecomesIInv DEF RestoreFile, Fine
<1>3. CASE ChangeMode
  BY <1>3, FileBecomesIInv DEF ChangeMode, Fine
<1>4. CASE RemoveFile \/ BlockFile
  <2>1. PICK f \in {MISSING, BLOCKED} : FileBecomes(f) /\ versions' = versions
    BY <1>4 DEF RemoveFile, BlockFile
  <2>2. ~IsVersion(f) /\ (Fine => Distinct')
    BY <2>1 DEF IsVersion, IInv, Distinct
  <2> QED
    BY <2>1, <2>2, FileBecomesIInv
<1> QED
  BY <1>1, <1>2, <1>3, <1>4

LEMMA NextIInv == IInv /\ [Next]_vars => IInv'
<1> SUFFICES ASSUME IInv, [Next]_vars PROVE IInv'
  OBVIOUS
<1>1. ASSUME NEW key \in Keys,
             NotDue(key) \/ CheckFails(key) \/ CheckUnchanged(key) \/ CheckChanged(key)
      PROVE  IInv'
  BY <1>1, CheckIInv
<1>2. CASE OpenFails
  BY <1>2, LoadFailsIInv DEF OpenFails
<1>3. CASE OpenFile
  BY <1>3, OpenFileIInv
<1>4. ASSUME NEW text \in Texts, ReadFails(text) PROVE IInv'
  <2>1. Fine /\ IsVersion(file) /\ attempt.current_fingerprint = Fingerprint(file) =>
          ~Parses(file.text)
    BY <1>4 DEF ReadFails, TextRead, IInv, Remembered
  <2> QED
    BY <1>4, <2>1, LoadFailsIInv DEF ReadFails
<1>5. ASSUME NEW text \in Texts, ReadFile(text) PROVE IInv'
  BY <1>5, ReadFileIInv
<1>6. CASE \/ \E text \in Texts, readable \in BOOLEAN : WriteFile(text, readable)
           \/ \E v \in versions : RestoreFile(v)
           \/ ChangeMode \/ RemoveFile \/ BlockFile
  BY <1>6, AdministratorIInv
<1>7. CASE Tick \/ UNCHANGED vars
  BY <1>7 DEF Tick, vars, IInv, TypeInv, CacheIsOneVersion, Fine, Distinct, Remembered, Noticed,
              Prints
<1> QED
  BY <1>1, <1>2, <1>3, <1>4, <1>5, <1>6, <1>7 DEF Next

(* The inductive invariant of the cache, for any number of files and reloads. *)
THEOREM Invariance == Spec => []IInv
BY InitIInv, NextIInv, PTL DEF Spec

(* refresh_if_due never mixes two versions of the file, whatever is written   *)
(* between its stat, its open and its read.                                   *)
THEOREM OneVersion == Spec => []CacheIsOneVersion
<1>1. IInv => CacheIsOneVersion
  BY DEF IInv
<1> QED
  BY <1>1, Invariance, PTL

(* The fingerprints refresh_if_due keeps of the last load and of the last     *)
(* failure never hide a sound file, where each edit changes mtime or length.  *)
THEOREM FreshCache == Spec => []FreshAfterCheck
<1>1. IInv => FreshAfterCheck
  BY DEF IInv, FreshAfterCheck, Fine, Remembered, Noticed
<1> QED
  BY <1>1, Invariance, PTL

(* The cache is replaced only by a whole load: every other way through        *)
(* refresh_if_due leaves the last good one.                                   *)
THEOREM LastGood == Spec => LastGoodIsKept
<1> DEFINE Step == store'.cache # store.cache =>
                       /\ store'.last_reload_status = "loaded"
                       /\ store'.generation = store.generation + 1
                       /\ metrics'.failures = metrics.failures
<1>1. IInv /\ [Next]_vars => [Step]_vars
  <2> SUFFICES ASSUME IInv, Next PROVE Step
    OBVIOUS
  <2>1. /\ DOMAIN store = {"cache", "generation", "observed_fingerprint", "last_failed",
                           "last_reload_status", "next_reload_check_at"}
        /\ DOMAIN metrics = {"successes", "failures"}
    BY DEF IInv, TypeInv
  <2>2. CASE \E text \in Texts : ReadFile(text)
    BY <2>1, <2>2 DEF ReadFile
  <2>3. CASE ~\E text \in Texts : ReadFile(text)
    <3>1. CASE OpenFails \/ \E text \in Texts : ReadFails(text)
      <4>1. store'.cache = store.cache
        BY <2>1, <3>1, Zenon DEF OpenFails, ReadFails, LoadFails
      <4> QED
        BY <4>1
    <3>2. CASE \E key \in Keys :
                 NotDue(key) \/ CheckFails(key) \/ CheckUnchanged(key) \/ CheckChanged(key)
      <4>1. store'.cache = store.cache
        BY <2>1, <3>2 DEF NotDue, CheckFails, CheckUnchanged, CheckChanged
      <4> QED
        BY <4>1
    <3>3. CASE \/ OpenFile \/ Tick \/ ChangeMode \/ RemoveFile \/ BlockFile
               \/ \E text \in Texts, readable \in BOOLEAN : WriteFile(text, readable)
               \/ \E v \in versions : RestoreFile(v)
      BY <3>3, Zenon DEF OpenFile, Tick, ChangeMode, RemoveFile, BlockFile, WriteFile, RestoreFile,
                  FileBecomes
    <3> QED
      BY <2>3, <3>1, <3>2, <3>3 DEF Next
  <2> QED
    BY <2>2, <2>3
<1> QED
  BY <1>1, Invariance, PTL DEF Spec, LastGoodIsKept
=============================================================================
