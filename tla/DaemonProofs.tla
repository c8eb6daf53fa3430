---------------------------- MODULE DaemonProofs ----------------------------
(***************************************************************************)
(* Theorems about the life of the daemon, for any number of instances,     *)
(* starts and crashes: the host key clients see, the confinement a daemon  *)
(* that accepts is under, and that the confinement does not kill it.       *)
(***************************************************************************)
EXTENDS Daemon, TLAPS, FiniteSetTheorems

\* The phases by what they need: before the host key is looked for, with the host key in
\* memory and on disk, and without a process.
Early == {"register", "load", "log", "running", "check_key", "read"}
Keyed == {"authorized_keys", "spawn", "bind", "no_new_privs", "landlock", "errno",
          "allowlist", "serve"}
Nowhere == {"off", "killed"}
Phases == Early \cup {"generate", "write"} \cup Keyed \cup Nowhere

TypeOK ==
    /\ os \in {"linux", "windows"}
    /\ phase \in [Instances -> Phases]
    /\ DOMAIN key_file = {"content", "key", "algorithm", "private"}
    /\ key_file.content \in {"none", "partial", "whole"} /\ key_file.key \in Nat
    /\ host_key \in [Instances -> Nat]
    /\ generated \in Nat
    /\ sandbox \in [Instances -> SUBSET DOMAIN After]
    /\ executor \in [Instances -> BOOLEAN]
    /\ raced \in BOOLEAN

\* The host key file is created once: while a first start writes it, nobody has a key.
KeyInv ==
    raced \/
    /\ key_file.content # "whole" => served = {} /\ \A i \in Instances : phase[i] \notin Keyed
    /\ served \subseteq {key_file.key}
    /\ \A i \in Instances : phase[i] \in Keyed => host_key[i] = key_file.key
    /\ \A i \in Instances : phase[i] = "write" => key_file.content = "partial"
    /\ \A i \in Instances : phase[i] = "generate" => key_file.content = "none"
    /\ \A i, j \in Instances :
          phase[i] \in {"generate", "write"} /\ phase[j] \in {"generate", "write"} => i = j

\* What confines an instance in each phase; on Windows nothing does.
Installed(p) ==
    CASE p = "landlock" -> {"no_new_privs"}
      [] p = "errno" -> {"no_new_privs", "landlock"}
      [] p = "allowlist" -> {"no_new_privs", "landlock", "errno"}
      [] p = "serve" -> {"no_new_privs", "landlock", "errno", "allowlist"}
      [] OTHER -> {}

ConfinedInv ==
    \A i \in Instances :
        /\ os = "linux" => sandbox[i] = Installed(phase[i])
        /\ os = "windows" => sandbox[i] = {} /\ phase[i] \notin DOMAIN After
        /\ os = "linux" /\ phase[i] \in DOMAIN After \cup {"bind", "serve"} => executor[i]

IInv == TypeOK /\ KeyInv /\ ConfinedInv

-----------------------------------------------------------------------------
\* The kinds of steps, by what they do to the state the invariant speaks of.

\* The process of i ends.
Leaves(i) ==
    /\ \E p \in Nowhere : phase' = [phase EXCEPT ![i] = p]
    /\ host_key' = [host_key EXCEPT ![i] = NoKey]
    /\ sandbox' = [sandbox EXCEPT ![i] = {}]
    /\ executor' = [executor EXCEPT ![i] = FALSE]
    /\ UNCHANGED <<os, key_file, generated, served, raced>>

\* i goes on from one phase to another in which it has and needs the same.
Moves(i) ==
    /\ \E p \in Phases :
          /\ phase' = [phase EXCEPT ![i] = p]
          /\ \/ phase[i] \in Early \cup Nowhere /\ p \in Early
             \/ phase[i] = "authorized_keys" /\ p = "spawn"
    /\ UNCHANGED <<os, key_vars, sandbox, executor>>

Elsewhere == UNCHANGED <<os, phase, key_vars, sandbox, executor>>

LEMMA Kinds ==
    ASSUME TypeOK, NEW i \in Instances,
           \/ Start(i) \/ RegisterHandler(i) \/ LoadConfig(i) \/ InitLogging(i)
           \/ CheckConfig(i) \/ ReportRunning(i) \/ LoadAuthorizedKeys(i) \/ StartFails(i)
           \/ AcceptFails(i) \/ Shutdown(i) \/ Crash(i) \/ HandleStop(i) \/ SendShutdown(i)
    PROVE  Leaves(i) \/ Moves(i) \/ Elsewhere
<1>1. ASSUME NEW p \in Nowhere, Gone(i, p) PROVE Leaves(i)
  BY <1>1, Zenon DEF Gone, Goto, Leaves
<1>2. CASE CheckConfig(i) \/ StartFails(i) \/ AcceptFails(i) \/ Shutdown(i) \/ Crash(i)
  BY <1>1, <1>2 DEF CheckConfig, StartFails, AcceptFails, Shutdown, Crash, Ends, Nowhere
<1>3. CASE Start(i)
  BY <1>3, Zenon DEF Start, Goto, Moves, Early, Nowhere, Phases, process_vars
<1>4. CASE RegisterHandler(i)
  BY <1>4, Zenon DEF RegisterHandler, Goto, Moves, Early, Phases, process_vars
<1>5. CASE LoadConfig(i)
  BY <1>5, Zenon DEF LoadConfig, Goto, Moves, Early, Phases, process_vars
<1>6. CASE InitLogging(i)
  BY <1>6, Zenon DEF InitLogging, Goto, Moves, Early, Phases, process_vars
<1>7. CASE ReportRunning(i)
  BY <1>7, Zenon DEF ReportRunning, Goto, Moves, Early, Phases, process_vars
<1>8. CASE LoadAuthorizedKeys(i)
  BY <1>8, Zenon DEF LoadAuthorizedKeys, Goto, Moves, Phases, Keyed, process_vars
<1>9. CASE HandleStop(i)
  BY <1>9 DEF HandleStop, Elsewhere, process_vars
<1>10. CASE SendShutdown(i)
  BY <1>10 DEF SendShutdown, Elsewhere, process_vars
<1> QED
  BY <1>2, <1>3, <1>4, <1>5, <1>6, <1>7, <1>8, <1>9, <1>10

\* Every other step is one of these.
LEMMA Steps ==
    ASSUME TypeOK, Next
    PROVE  \E i \in Instances :
              \/ Leaves(i) \/ Moves(i) \/ Elsewhere
              \/ FindHostKey(i) \/ ReadHostKey(i) \/ GenerateHostKey(i) \/ WriteHostKey(i)
              \/ SpawnExecutor(i) \/ Bind(i) \/ Confine(i) \/ Accept(i)
BY Kinds DEF Next, Bootstrap

-----------------------------------------------------------------------------
\* How the stacked filters answer: with none every call passes, with the first the calls
\* of its list fail, and with both a call of neither list is fatal.
LEMMA NoFilter ==
    ASSUME NEW i, "errno" \notin sandbox[i], "allowlist" \notin sandbox[i], NEW call
    PROVE  Verdict(i, call) = "allow"
BY DEF Verdict

LEMMA FirstFilter ==
    ASSUME NEW i, "errno" \in sandbox[i], "allowlist" \notin sandbox[i], NEW call
    PROVE  Verdict(i, call) = IF call \in errno_syscalls THEN "errno" ELSE "allow"
BY DEF Verdict, ErrnoFilter

LEMMA BothFilters ==
    ASSUME NEW i, "errno" \in sandbox[i], "allowlist" \in sandbox[i], NEW call
    PROVE  Verdict(i, call) = IF call \in errno_syscalls THEN "errno"
                              ELSE IF call \in allowed_syscalls THEN "allow" ELSE "kill"
BY DEF Verdict, ErrnoFilter, AllowlistFilter

\* No filter installed so far kills a step of the confinement.
LEMMA ConfineSurvives ==
    ASSUME TypeOK, ConfinedInv, NEW i \in Instances, phase[i] \in DOMAIN After
    PROVE  ~Kills(i, Calls(phase[i]))
<1>1. os = "linux" /\ sandbox[i] = Installed(phase[i])
  BY DEF ConfinedInv, TypeOK
<1>2. phase[i] \in {"no_new_privs", "landlock", "errno", "allowlist"}
  BY DEF After
<1>3. CASE phase[i] = "allowlist"
  <2>1. Calls(phase[i]) = {"seccomp"}
    BY <1>3 DEF Calls
  <2>2. Verdict(i, "seccomp") = "allow"
    BY <1>1, <1>3, FirstFilter DEF Installed, errno_syscalls
  <2> QED
    BY <2>1, <2>2 DEF Kills
<1>4. CASE phase[i] \in {"no_new_privs", "landlock", "errno"}
  <2>1. "errno" \notin sandbox[i] /\ "allowlist" \notin sandbox[i]
    BY <1>1, <1>4 DEF Installed
  <2> QED
    BY <2>1, NoFilter DEF Kills
<1> QED
  BY <1>2, <1>3, <1>4

\* Nor does one kill the accept loop, unless it rotates a log file.
LEMMA AcceptSurvives ==
    ASSUME TypeOK, ConfinedInv, NEW i \in Instances, phase[i] = "serve"
    PROVE  ~Kills(i, Calls("serve"))
<1>1. Calls("serve") = {"accept4", "read", "write", "openat", "statx", "sendmsg", "recvmsg"}
  BY DEF Calls
<1>2. CASE os = "linux"
  <2>1. "errno" \in sandbox[i] /\ "allowlist" \in sandbox[i]
    BY <1>2 DEF ConfinedInv, Installed
  <2> QED
    BY <1>1, <2>1, BothFilters DEF Kills, errno_syscalls, allowed_syscalls
<1>3. CASE os = "windows"
  BY <1>3, NoFilter DEF ConfinedInv, Kills
<1> QED
  BY <1>2, <1>3 DEF TypeOK

-----------------------------------------------------------------------------
LEMMA InitIInv == Init => IInv
<1> SUFFICES ASSUME Init PROVE IInv
  OBVIOUS
<1>1. TypeOK
  <2>1. /\ DOMAIN key_file = {"content", "key", "algorithm", "private"}
        /\ key_file.content \in {"none", "partial", "whole"} /\ key_file.key \in Nat
    <3>1. ASSUME NEW c \in {"none", "partial", "whole"}, NEW k \in Nat, NEW a, NEW m
          PROVE  /\ DOMAIN KeyFile(c, k, a, m) = {"content", "key", "algorithm", "private"}
                 /\ KeyFile(c, k, a, m).content = c /\ KeyFile(c, k, a, m).key = k
      BY DEF KeyFile
    <3> DEFINE IsKeyFile == \E c \in {"none", "partial", "whole"}, k \in Nat : \E a, m :
                                key_file = KeyFile(c, k, a, m)
    <3>2. IsKeyFile
      <4>1. CASE key_file = NoFile \/ key_file = KeyFile("partial", NoKey, "", TRUE)
        BY <4>1, Zenon, 0 \in Nat DEF NoFile, NoKey
      <4>2. ASSUME NEW a, NEW m, key_file = KeyFile("whole", 1, a, m) PROVE IsKeyFile
        BY <4>2, Zenon, 1 \in Nat
      <4> QED
        BY <4>1, <4>2, Zenon DEF Init
    <3> QED
      BY <3>1, <3>2
  <2>2. "off" \in Phases /\ NoKey \in Nat
    BY DEF Phases, Nowhere, NoKey
  <2>3. raced \in BOOLEAN /\ executor \in [Instances -> BOOLEAN]
    BY Zenon DEF Init
  <2> QED
    BY <2>1, <2>2, <2>3, Zenon DEF Init, TypeOK
<1>2. KeyInv
  BY Zenon DEF Init, KeyInv, Keyed
<1>3. ConfinedInv
  BY Zenon DEF Init, ConfinedInv, Installed, After
<1> QED
  BY <1>1, <1>2, <1>3 DEF IInv

LEMMA NextTypeOK ==
    ASSUME IInv, [Next]_vars
    PROVE  TypeOK'
<1> USE DEF IInv
<1>1. ASSUME NEW i \in Instances, Leaves(i) PROVE TypeOK'
  BY <1>1 DEF TypeOK, Leaves, Phases, Nowhere, NoKey
<1>2. ASSUME NEW i \in Instances, Moves(i) PROVE TypeOK'
  BY <1>2 DEF TypeOK, Moves, key_vars
<1>3. ASSUME Elsewhere PROVE TypeOK'
  BY <1>3 DEF TypeOK, Elsewhere, key_vars
<1>4. ASSUME NEW i \in Instances, FindHostKey(i) PROVE TypeOK'
  BY <1>4 DEF TypeOK, FindHostKey, Goto, Phases, Early, process_vars
<1>5. ASSUME NEW i \in Instances, ReadHostKey(i) PROVE TypeOK'
  BY <1>5 DEF TypeOK, ReadHostKey, Goto, Phases, Keyed, process_vars
<1>6. ASSUME NEW i \in Instances, GenerateHostKey(i) PROVE TypeOK'
  BY <1>6 DEF TypeOK, GenerateHostKey, Goto, Phases, process_vars, NoKey
<1>7. ASSUME NEW i \in Instances, WriteHostKey(i) PROVE TypeOK'
  BY <1>7 DEF TypeOK, WriteHostKey, Goto, Phases, Keyed, process_vars, KeyFile
<1>8. ASSUME NEW i \in Instances, SpawnExecutor(i) PROVE TypeOK'
  BY <1>8 DEF TypeOK, SpawnExecutor, Goto, Phases, Keyed, key_vars
<1>9. ASSUME NEW i \in Instances, Bind(i) PROVE TypeOK'
  BY <1>9 DEF TypeOK, Bind, Goto, Phases, Keyed, key_vars
<1>10. ASSUME NEW i \in Instances, Confine(i) PROVE TypeOK'
  <2>1. phase[i] \in DOMAIN After /\ ~Kills(i, Calls(phase[i]))
    BY <1>10, ConfineSurvives DEF Confine
  <2>2. After[phase[i]] \in Phases
    BY <2>1 DEF After, Phases, Keyed
  <2> QED
    BY <1>10, <2>1, <2>2 DEF TypeOK, Confine, Goto, key_vars
<1>11. ASSUME NEW i \in Instances, Accept(i) PROVE TypeOK'
  <2>1. CASE Dies(i)
    BY <1>1, <2>1, Zenon DEF Dies, Gone, Goto, Leaves, Nowhere
  <2> QED
    BY <1>11, <2>1 DEF TypeOK, Accept, process_vars
<1>12. CASE UNCHANGED vars
  BY <1>12 DEF TypeOK, vars, key_vars, process_vars
<1> QED
  BY <1>1, <1>2, <1>3, <1>4, <1>5, <1>6, <1>7, <1>8, <1>9, <1>10, <1>11, <1>12, Steps

-----------------------------------------------------------------------------
\* A step that changes neither the key file nor what was served keeps the key invariant
\* if every instance is, as far as it matters, where it was or has left.
LEMMA KeyFileStays ==
    ASSUME KeyInv, UNCHANGED <<key_file, served, raced>>,
           \A i \in Instances :
              /\ phase'[i] \in Keyed => phase[i] \in Keyed /\ host_key'[i] = host_key[i]
              /\ phase'[i] \in {"generate", "write"} => phase'[i] = phase[i]
    PROVE  KeyInv'
<1> USE DEF KeyInv
<1>1. CASE raced
  BY <1>1
<1>2. CASE ~raced
  <2>1. key_file.content # "whole" => served = {} /\ \A i \in Instances : phase'[i] \notin Keyed
    BY <1>2
  <2>2. \A i \in Instances : phase'[i] \in Keyed => host_key'[i] = key_file.key
    BY <1>2
  <2>3. \A i \in Instances :
            /\ phase'[i] = "write" => key_file.content = "partial"
            /\ phase'[i] = "generate" => key_file.content = "none"
    BY <1>2
  <2>4. \A i, j \in Instances :
          phase'[i] \in {"generate", "write"} /\ phase'[j] \in {"generate", "write"} => i = j
    BY <1>2
  <2> QED
    BY <1>2, <2>1, <2>2, <2>3, <2>4
<1> QED
  BY <1>1, <1>2

LEMMA NextKeyInv ==
    ASSUME IInv, [Next]_vars
    PROVE  KeyInv'
<1> USE DEF IInv
<1>1. ASSUME NEW i \in Instances, Leaves(i) PROVE KeyInv'
  BY <1>1, KeyFileStays DEF TypeOK, Leaves, Nowhere, Keyed
<1>2. ASSUME NEW i \in Instances, Moves(i) PROVE KeyInv'
  <2>1. PICK p \in Phases :
            /\ phase' = [phase EXCEPT ![i] = p]
            /\ \/ phase[i] \in Early \cup Nowhere /\ p \in Early
               \/ phase[i] = "authorized_keys" /\ p = "spawn"
    BY <1>2, Zenon DEF Moves
  <2>2. UNCHANGED <<key_file, host_key, served, raced>>
    BY <1>2 DEF Moves, key_vars
  <2>3. p \notin {"generate", "write"} /\ (p \in Keyed => phase[i] \in Keyed)
    BY <2>1 DEF Early, Keyed
  <2> QED
    BY <2>1, <2>2, <2>3, KeyFileStays DEF TypeOK
<1>3. ASSUME UNCHANGED <<phase, key_file, host_key, served, raced>> PROVE KeyInv'
  BY <1>3 DEF KeyInv
<1>4. ASSUME NEW i \in Instances, FindHostKey(i) PROVE KeyInv'
  <2>1. CASE key_file.content # "none"
    BY <1>4, <2>1, KeyFileStays DEF TypeOK, FindHostKey, Goto, Keyed
  <2>2. CASE key_file.content = "none" /\ ~raced'
    <3>1. \A j \in Instances \ {i} : phase[j] # "generate"
      BY <1>4, <2>2, Zenon DEF FindHostKey
    <3>2. ~raced /\ UNCHANGED <<key_file, served, host_key>>
      BY <1>4, <2>2, Zenon DEF FindHostKey
    <3>3. \A j \in Instances : phase'[j] = IF j = i THEN "generate" ELSE phase[j]
      BY <1>4, <2>2 DEF FindHostKey, Goto, TypeOK
    <3> QED
      BY <2>2, <3>1, <3>2, <3>3 DEF KeyInv, Keyed
  <2>3. CASE raced'
    BY <2>3 DEF KeyInv
  <2> QED
    BY <2>1, <2>2, <2>3
<1>5. ASSUME NEW i \in Instances, ReadHostKey(i) PROVE KeyInv'
  <2>1. /\ key_file.content = "whole" /\ UNCHANGED <<key_file, served, raced>>
        /\ \A j \in Instances : phase'[j] = IF j = i THEN "authorized_keys" ELSE phase[j]
        /\ \A j \in Instances : host_key'[j] = IF j = i THEN key_file.key ELSE host_key[j]
    BY <1>5 DEF ReadHostKey, Goto, TypeOK
  <2> QED
    BY <2>1 DEF KeyInv
<1>6. ASSUME NEW i \in Instances, GenerateHostKey(i) PROVE KeyInv'
  <2>1. /\ phase[i] = "generate" /\ UNCHANGED <<served, raced>>
        /\ key_file'.content = "partial"
        /\ \A j \in Instances : phase'[j] = IF j = i THEN "write" ELSE phase[j]
    BY <1>6 DEF GenerateHostKey, Goto, TypeOK
  <2> QED
    BY <2>1 DEF KeyInv, Keyed
<1>7. ASSUME NEW i \in Instances, WriteHostKey(i) PROVE KeyInv'
  <2>1. /\ phase[i] = "write" /\ UNCHANGED <<served, raced, host_key>>
        /\ key_file'.content = "whole" /\ key_file'.key = host_key[i]
        /\ \A j \in Instances : phase'[j] = IF j = i THEN "authorized_keys" ELSE phase[j]
    BY <1>7 DEF WriteHostKey, Goto, TypeOK, KeyFile
  <2> QED
    BY <2>1 DEF KeyInv, Keyed
<1>8. ASSUME NEW i \in Instances, SpawnExecutor(i) PROVE KeyInv'
  BY <1>8, KeyFileStays DEF TypeOK, SpawnExecutor, Goto, Keyed, key_vars
<1>9. ASSUME NEW i \in Instances, Bind(i) PROVE KeyInv'
  BY <1>9, KeyFileStays DEF TypeOK, Bind, Goto, Keyed, key_vars
<1>10. ASSUME NEW i \in Instances, Confine(i) PROVE KeyInv'
  <2>1. phase[i] \in DOMAIN After /\ ~Kills(i, Calls(phase[i]))
    BY <1>10, ConfineSurvives DEF Confine
  <2>2. After[phase[i]] \in Keyed /\ phase[i] \in Keyed
    BY <2>1 DEF After, Keyed
  <2>3. After[phase[i]] \notin {"generate", "write"}
    BY <2>1 DEF After
  <2> QED
    BY <1>10, <2>1, <2>2, <2>3, KeyFileStays DEF TypeOK, Confine, Goto, key_vars
<1>11. ASSUME NEW i \in Instances, Accept(i) PROVE KeyInv'
  <2>1. CASE Dies(i)
    BY <1>1, <2>1, Zenon DEF Dies, Gone, Goto, Leaves, Nowhere
  <2>2. CASE ~Dies(i)
    <3>1. phase[i] \in Keyed /\ served' = served \cup {host_key[i]}
          /\ UNCHANGED <<phase, key_file, host_key, raced>>
      BY <1>11, <2>2 DEF Accept, Keyed
    <3> QED
      BY <3>1 DEF KeyInv
  <2> QED
    BY <2>1, <2>2
<1>12. CASE UNCHANGED vars
  BY <1>3, <1>12 DEF vars, key_vars
<1> QED
  BY <1>1, <1>2, <1>3, <1>4, <1>5, <1>6, <1>7, <1>8, <1>9, <1>10, <1>11, <1>12, Steps
     DEF Elsewhere, key_vars

-----------------------------------------------------------------------------
LEMMA NextConfinedInv ==
    ASSUME IInv, [Next]_vars
    PROVE  ConfinedInv'
<1> USE DEF IInv
<1>1. ASSUME NEW i \in Instances, Leaves(i) PROVE ConfinedInv'
  BY <1>1, Zenon DEF TypeOK, ConfinedInv, Leaves, Nowhere, Installed, After
<1>2. ASSUME NEW i \in Instances, Moves(i) PROVE ConfinedInv'
  <2>1. PICK p \in Phases :
            /\ phase' = [phase EXCEPT ![i] = p]
            /\ \/ phase[i] \in Early \cup Nowhere /\ p \in Early
               \/ phase[i] = "authorized_keys" /\ p = "spawn"
    BY <1>2, Zenon DEF Moves
  <2>2. Installed(p) = {} /\ Installed(phase[i]) = {} /\ p \notin DOMAIN After \cup {"bind", "serve"}
    BY <2>1 DEF Installed, Early, Nowhere, After
  <2> QED
    BY <1>2, <2>1, <2>2, Zenon DEF Moves, TypeOK, ConfinedInv
<1>3. ASSUME UNCHANGED <<os, phase, sandbox, executor>> PROVE ConfinedInv'
  BY <1>3 DEF ConfinedInv
<1>4. ASSUME NEW i \in Instances, FindHostKey(i) PROVE ConfinedInv'
  BY <1>4 DEF TypeOK, ConfinedInv, FindHostKey, Goto, process_vars, Installed, After
<1>5. ASSUME NEW i \in Instances, ReadHostKey(i) PROVE ConfinedInv'
  BY <1>5 DEF TypeOK, ConfinedInv, ReadHostKey, Goto, process_vars, Installed, After
<1>6. ASSUME NEW i \in Instances, GenerateHostKey(i) PROVE ConfinedInv'
  BY <1>6 DEF TypeOK, ConfinedInv, GenerateHostKey, Goto, process_vars, Installed, After
<1>7. ASSUME NEW i \in Instances, WriteHostKey(i) PROVE ConfinedInv'
  BY <1>7 DEF TypeOK, ConfinedInv, WriteHostKey, Goto, process_vars, Installed, After
<1>8. ASSUME NEW i \in Instances, SpawnExecutor(i) PROVE ConfinedInv'
  <2>1. /\ phase[i] = "spawn" /\ UNCHANGED <<os, sandbox>>
        /\ \A j \in Instances : phase'[j] = IF j = i THEN "bind" ELSE phase[j]
    BY <1>8 DEF SpawnExecutor, Goto, TypeOK
  <2>2. \A j \in Instances : os = "linux" => (executor'[j] <=> (j = i \/ executor[j]))
    BY <1>8, Zenon DEF SpawnExecutor, TypeOK
  <2>3. Installed("bind") = {} /\ Installed("spawn") = {} /\ "bind" \notin DOMAIN After
    BY DEF Installed, After
  <2> QED
    BY <2>1, <2>2, <2>3 DEF ConfinedInv
<1>9. ASSUME NEW i \in Instances, Bind(i) PROVE ConfinedInv'
  <2>1. /\ phase[i] = "bind" /\ UNCHANGED <<os, sandbox, executor>>
        /\ \A j \in Instances : phase'[j] = IF j # i THEN phase[j]
                                ELSE IF os = "linux" THEN "no_new_privs" ELSE "serve"
    BY <1>9 DEF Bind, Goto, TypeOK
  <2>2. /\ Installed("bind") = {} /\ Installed("no_new_privs") = {}
        /\ "no_new_privs" \in DOMAIN After /\ "serve" \notin DOMAIN After
    BY DEF Installed, After
  <2> QED
    BY <2>1, <2>2 DEF ConfinedInv
<1>10. ASSUME NEW i \in Instances, Confine(i) PROVE ConfinedInv'
  <2>1. phase[i] \in DOMAIN After /\ ~Kills(i, Calls(phase[i]))
    BY <1>10, ConfineSurvives DEF Confine
  <2>2. /\ UNCHANGED <<os, executor>>
        /\ \A j \in Instances : phase'[j] = IF j = i THEN After[phase[i]] ELSE phase[j]
        /\ \A j \in Instances :
              sandbox'[j] = IF j = i THEN sandbox[i] \cup {phase[i]} ELSE sandbox[j]
    BY <1>10, <2>1 DEF Confine, Goto, TypeOK
  <2>3. Installed(After[phase[i]]) = Installed(phase[i]) \cup {phase[i]}
    <3>1. DOMAIN After = {"no_new_privs", "landlock", "errno", "allowlist"}
      BY DEF After
    <3>2. CASE phase[i] = "no_new_privs"
      BY <3>2 DEF Installed, After
    <3>3. CASE phase[i] = "landlock"
      BY <3>3 DEF Installed, After
    <3>4. CASE phase[i] = "errno"
      BY <3>4 DEF Installed, After
    <3>5. CASE phase[i] = "allowlist"
      BY <3>5 DEF Installed, After
    <3> QED
      BY <2>1, <3>1, <3>2, <3>3, <3>4, <3>5
  <2> QED
    BY <2>1, <2>2, <2>3 DEF ConfinedInv, TypeOK
<1>11. ASSUME NEW i \in Instances, Accept(i) PROVE ConfinedInv'
  <2>1. CASE Dies(i)
    BY <1>1, <2>1, Zenon DEF Dies, Gone, Goto, Leaves, Nowhere
  <2> QED
    BY <1>3, <1>11, <2>1 DEF Accept, process_vars
<1>12. CASE UNCHANGED vars
  BY <1>3, <1>12 DEF vars, process_vars
<1> QED
  BY <1>1, <1>2, <1>3, <1>4, <1>5, <1>6, <1>7, <1>8, <1>9, <1>10, <1>11, <1>12, Steps
     DEF Elsewhere

LEMMA NextIInv == IInv /\ [Next]_vars => IInv'
BY NextTypeOK, NextKeyInv, NextConfinedInv DEF IInv

-----------------------------------------------------------------------------
\* The invariant holds in every reachable state.
THEOREM Invariance == Spec => []IInv
BY InitIInv, NextIInv, PTL DEF Spec

\* Over any number of crashes and restarts clients see one host key, the one on disk,
\* unless two first starts raced (load_or_generate_host_key).
THEOREM OneHostKey == Spec => []HostKeyIsStable
<1>1. IInv => HostKeyIsStable
  <2> SUFFICES ASSUME IInv, ~raced
               PROVE  /\ Cardinality(served) <= 1
                      /\ \A i \in Instances : phase[i] = "serve" => key_file.key = host_key[i]
    BY DEF HostKeyIsStable
  <2>1. served = {} \/ served = {key_file.key}
    BY DEF IInv, KeyInv
  <2>2. Cardinality(served) <= 1
    <3>1. Cardinality({key_file.key}) = 1 /\ Cardinality({}) = 0
      BY FS_EmptySet, FS_Singleton, Zenon
    <3> QED
      BY <2>1, <3>1
  <2>3. \A i \in Instances : phase[i] = "serve" => key_file.key = host_key[i]
    BY DEF IInv, KeyInv, Keyed
  <2> QED
    BY <2>2, <2>3
<1> QED
  BY <1>1, Invariance, PTL

\* A Linux daemon that accepts has its executor, is under Landlock, and the two stacked
\* filters answer every call as one policy (apply_preauth_sandbox).
THEOREM Confinement == Spec => []ServesConfined
<1>1. IInv => ServesConfined
  <2> SUFFICES ASSUME IInv, NEW i \in Instances, os = "linux", phase[i] = "serve"
               PROVE  /\ {"no_new_privs", "landlock"} \subseteq sandbox[i] /\ executor[i]
                      /\ \A call \in errno_syscalls : Verdict(i, call) = "errno"
                      /\ \A call \in allowed_syscalls : Verdict(i, call) = "allow"
                      /\ \A call \in OtherSyscalls : Verdict(i, call) = "kill"
    BY DEF ServesConfined
  <2>1. sandbox[i] = {"no_new_privs", "landlock", "errno", "allowlist"} /\ executor[i]
    BY DEF IInv, ConfinedInv, Installed
  <2>2. \A call \in allowed_syscalls : call \notin errno_syscalls
    BY DEF allowed_syscalls, errno_syscalls
  <2>3. \A call \in OtherSyscalls : call \notin errno_syscalls /\ call \notin allowed_syscalls
    BY DEF OtherSyscalls, allowed_syscalls, errno_syscalls
  <2>4. \A call : Verdict(i, call) = IF call \in errno_syscalls THEN "errno"
                                     ELSE IF call \in allowed_syscalls THEN "allow" ELSE "kill"
    BY <2>1, BothFilters
  <2> QED
    BY <2>1, <2>2, <2>3, <2>4
<1> QED
  BY <1>1, Invariance, PTL

\* Without a log file to rotate no filter kills the daemon for a call of its own, neither
\* while it installs them nor in the accept loop (apply_preauth_sandbox, run_with_listener).
THEOREM FiltersSpareTheDaemon ==
    ASSUME LogToFile = FALSE
    PROVE  Spec => []NeverKilled
<1>1. Init => NeverKilled
  BY Zenon DEF Init, NeverKilled
<1>2. IInv /\ NeverKilled /\ [Next]_vars => NeverKilled'
  <2> SUFFICES ASSUME IInv, NeverKilled, [Next]_vars PROVE NeverKilled'
    OBVIOUS
  <2> USE DEF IInv, NeverKilled
  <2>1. ASSUME NEW i \in Instances, NEW p, Goto(i, p), p # "killed" PROVE NeverKilled'
    BY <2>1 DEF Goto, TypeOK
  <2>2. ASSUME NEW i \in Instances, Confine(i) PROVE NeverKilled'
    <3>1. phase[i] \in DOMAIN After /\ ~Kills(i, Calls(phase[i]))
      BY <2>2, ConfineSurvives DEF Confine
    <3>2. Goto(i, After[phase[i]]) /\ After[phase[i]] # "killed"
      BY <2>2, <3>1 DEF Confine, After
    <3> QED
      BY <2>1, <3>2
  <2>3. ASSUME NEW i \in Instances, Accept(i) PROVE NeverKilled'
    <3>1. LogSteps = {}
      BY DEF LogSteps
    <3>2. ~Kills(i, Calls("serve"))
      BY <2>3, AcceptSurvives DEF Accept
    <3>3. UNCHANGED phase
      BY <2>3, <3>1, <3>2 DEF Accept
    <3> QED
      BY <3>3
  <2>4. ASSUME NEW i \in Instances,
               \/ RegisterHandler(i) \/ LoadConfig(i) \/ InitLogging(i) \/ CheckConfig(i)
               \/ ReportRunning(i) \/ FindHostKey(i) \/ ReadHostKey(i) \/ GenerateHostKey(i)
               \/ WriteHostKey(i) \/ LoadAuthorizedKeys(i) \/ SpawnExecutor(i) \/ Bind(i)
               \/ StartFails(i)
        PROVE  NeverKilled'
    <3>1. CASE RegisterHandler(i) \/ LoadConfig(i) \/ InitLogging(i) \/ CheckConfig(i)
      <4>1. \E p : Goto(i, p) /\ p # "killed"
        BY <3>1 DEF RegisterHandler, LoadConfig, InitLogging, CheckConfig, Ends, Gone
      <4> QED
        BY <2>1, <4>1
    <3>2. CASE ReportRunning(i) \/ FindHostKey(i) \/ ReadHostKey(i) \/ GenerateHostKey(i)
      <4>1. \E p : Goto(i, p) /\ p # "killed"
        BY <3>2 DEF ReportRunning, FindHostKey, ReadHostKey, GenerateHostKey, Ends, Gone
      <4> QED
        BY <2>1, <4>1
    <3>3. CASE WriteHostKey(i) \/ LoadAuthorizedKeys(i) \/ SpawnExecutor(i)
      <4>1. \E p : Goto(i, p) /\ p # "killed"
        BY <3>3 DEF WriteHostKey, LoadAuthorizedKeys, SpawnExecutor, Ends, Gone
      <4> QED
        BY <2>1, <4>1
    <3>4. CASE Bind(i) \/ StartFails(i)
      <4>1. \E p : Goto(i, p) /\ p # "killed"
        BY <3>4 DEF Bind, StartFails, Ends, Gone
      <4> QED
        BY <2>1, <4>1
    <3> QED
      BY <2>4, <3>1, <3>2, <3>3, <3>4
  <2>5. ASSUME NEW i \in Instances, Start(i) \/ AcceptFails(i) \/ Shutdown(i) \/ Crash(i)
        PROVE  NeverKilled'
    <3>1. \E p : Goto(i, p) /\ p # "killed"
      BY <2>5 DEF Start, AcceptFails, Shutdown, Crash, Ends, Gone
    <3> QED
      BY <2>1, <3>1
  <2>6. ASSUME NEW i \in Instances, HandleStop(i) \/ SendShutdown(i) PROVE NeverKilled'
    BY <2>6 DEF HandleStop, SendShutdown
  <2>7. CASE UNCHANGED vars
    BY <2>7 DEF vars
  <2> QED
    BY <2>2, <2>3, <2>4, <2>5, <2>6, <2>7, Zenon DEF Next, Bootstrap
<1> QED
  BY <1>1, <1>2, Invariance, PTL DEF Spec
=============================================================================
