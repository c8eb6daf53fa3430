------------------------------- MODULE Daemon -------------------------------
(***************************************************************************)
(* The life of the daemon process: configuration, host key, listener,      *)
(* confinement and accept loop (main.rs, sshd::run_until_shutdown,         *)
(* AppState::bootstrap, sandbox.rs), started from the command line or, on  *)
(* Windows, by the service control manager (windows_service_runtime.rs).   *)
(* Two instances of one installation may run: they share the configuration *)
(* file, the host key file and the port.  An instance may crash anywhere   *)
(* and be started again.                                                   *)
(***************************************************************************)
EXTENDS Config, FiniteSets

CONSTANTS
    Instances,   \* processes of this installation
    Service,     \* the instance the service control manager runs on Windows
    Nobody,      \* who holds the port when nobody does
    Texts,       \* contents of the configuration file, as sequences of lines
    LogToFile,   \* --log-file is given
    MaxStarts    \* starts of each instance

ASSUME DaemonAssumption ==
    /\ IsFiniteSet(Instances) /\ Nobody \notin Instances
    /\ LogToFile \in BOOLEAN /\ MaxStarts \in Nat

VARIABLES
    os,          \* the system the program was built for
    phase,       \* where an instance is; off when there is no process
    starts,      \* how often an instance was started
    key_file,    \* the host key file
    host_key,    \* the key of an instance: generated, or read from the file
    generated,   \* keys generated so far
    listener,    \* the instance whose socket is bound to the port
    sandbox,     \* what confines the process of an instance
    executor,    \* whether the executor process of an instance was started
    status,      \* the state the service last reported
    control,     \* the stop the control handler works on, and the shutdown channel
    served,      \* history: keys an accepting instance has presented
    raced        \* history: two instances found no host key before either wrote one

key_vars == <<key_file, host_key, generated, served, raced>>
process_vars == <<listener, sandbox, executor>>
scm_vars == <<status, control>>
vars == <<os, phase, starts, key_vars, process_vars, scm_vars>>

NoKey == 0
NoControl == [handling |-> FALSE, sent |-> FALSE]
KeyFile(content, key, algorithm, mode) ==
    [content |-> content, key |-> key, algorithm |-> algorithm, private |-> mode]
NoFile == KeyFile("none", NoKey, "", TRUE)
IsService(i) == os = "windows" /\ i = Service
Goto(i, p) == phase' = [phase EXCEPT ![i] = p]

Init ==
    /\ os \in {"linux", "windows"}
    /\ phase = [i \in Instances |-> "off"]
    /\ starts = [i \in Instances |-> 0]
    /\ \/ key_file \in {NoFile, KeyFile("partial", NoKey, "", TRUE)}
       \/ \E a \in {"Ed25519", "other"}, m \in BOOLEAN : key_file = KeyFile("whole", 1, a, m)
    /\ host_key = [i \in Instances |-> NoKey]
    /\ generated = 1
    /\ listener = Nobody
    /\ sandbox = [i \in Instances |-> {}]
    /\ executor = [i \in Instances |-> FALSE]
    /\ status = [i \in Instances |-> "none"]
    /\ control = [i \in Instances |-> NoControl]
    /\ served = {} /\ raced = FALSE

-----------------------------------------------------------------------------
\* The seccomp filters, as sets of system calls.  Of the two lists the model keeps the
\* calls the daemon's own steps make and a few it never makes.
errno_syscalls == {"clone3", "execve", "socket", "bind", "listen", "connect"}
allowed_syscalls == {"accept4", "openat", "prctl", "read", "recvmsg", "sendmsg", "socketpair",
                     "statx", "write"}
OtherSyscalls == {"landlock_restrict_self", "seccomp", "rename", "unlink"}

ErrnoFilter(call) == IF call \in errno_syscalls THEN "errno" ELSE "allow"

\* Mutant of AllowlistFilter: the calls of the errno filter are not repeated.
AllowlistFilterAlone(call) == IF call \in allowed_syscalls THEN "allow" ELSE "kill"

AllowlistFilter(call) ==
    IF call \in allowed_syscalls \cup errno_syscalls THEN "allow" ELSE "kill"

\* The kernel asks every installed filter and takes the strictest answer.
Verdict(i, call) ==
    LET answers == (IF "errno" \in sandbox[i] THEN {ErrnoFilter(call)} ELSE {})
                   \cup (IF "allowlist" \in sandbox[i] THEN {AllowlistFilter(call)} ELSE {})
    IN  CASE "kill" \in answers -> "kill"
          [] "errno" \in answers -> "errno"
          [] OTHER -> "allow"

\* System calls of the steps that a filter could stop.
Calls(p) ==
    CASE p = "spawn" -> {"socketpair", "clone3", "execve"}
      [] p = "bind" -> {"socket", "bind", "listen"}
      [] p = "no_new_privs" -> {"prctl"}
      [] p = "landlock" -> {"openat", "landlock_restrict_self"}
      [] p \in {"errno", "allowlist"} -> {"seccomp"}
      [] p = "serve" -> {"accept4", "read", "write", "openat", "statx", "sendmsg", "recvmsg"}
      [] p = "rotate" -> {"unlink", "rename", "openat"}
      [] OTHER -> {}

Kills(i, calls) == \E call \in calls : Verdict(i, call) = "kill"
Allowed(i, calls) == \A call \in calls : Verdict(i, call) = "allow"

-----------------------------------------------------------------------------
\* The process of i is gone; its descriptors with it.
Gone(i, p) ==
    /\ Goto(i, p)
    /\ host_key' = [host_key EXCEPT ![i] = NoKey]
    /\ listener' = IF listener = i THEN Nobody ELSE listener
    /\ sandbox' = [sandbox EXCEPT ![i] = {}]
    /\ executor' = [executor EXCEPT ![i] = FALSE]
    /\ control' = [control EXCEPT ![i] = NoControl]
    /\ UNCHANGED <<os, starts, key_file, generated, served, raced>>

\* set_service_status; an update may fail, and whether that matters is up to the caller.
Report(i, state) == status' = [status EXCEPT ![i] = state]

\* run_service reports the end of a service whose configuration, logging or run failed;
\* the early returns of its own (register, StartPending, Running, runtime) do not.
Ends(i) ==
    /\ Gone(i, "off")
    /\ \/ UNCHANGED status
       \/ IsService(i) /\ phase[i] \notin {"register", "running"} /\ Report(i, "Stopped")

Dies(i) == Gone(i, "killed") /\ UNCHANGED status

Start(i) ==
    /\ phase[i] = "off" /\ starts[i] < MaxStarts
    /\ Goto(i, IF IsService(i) THEN "register" ELSE "load")
    /\ starts' = [starts EXCEPT ![i] = @ + 1]
    /\ Report(i, "none")
    /\ UNCHANGED <<os, key_vars, process_vars, control>>

RegisterHandler(i) ==
    /\ phase[i] = "register"
    /\ Goto(i, "load")
    /\ Report(i, "StartPending")
    /\ UNCHANGED <<os, starts, key_vars, process_vars, control>>

\* AppConfig::load (Config) with a text it accepts; what the later steps take from it is
\* the same for all.  A text it refuses is one of the reasons for StartFails.
LoadConfig(i) ==
    /\ phase[i] = "load"
    /\ Goto(i, "log")
    /\ UNCHANGED <<os, starts, key_vars, process_vars, scm_vars>>

InitLogging(i) ==
    /\ phase[i] = "log"
    /\ Goto(i, IF IsService(i) THEN "running" ELSE "check_key")
    /\ UNCHANGED <<os, starts, key_vars, process_vars, scm_vars>>

\* --check-config ends after the logger is set up.
CheckConfig(i) == phase[i] = "log" /\ ~IsService(i) /\ Gone(i, "off") /\ UNCHANGED status

ReportRunning(i) ==
    /\ phase[i] = "running"
    /\ Goto(i, "check_key")
    /\ Report(i, "Running")
    /\ UNCHANGED <<os, starts, key_vars, process_vars, control>>

-----------------------------------------------------------------------------
\* load_or_generate_host_key.
FindHostKey(i) ==
    /\ phase[i] = "check_key"
    /\ Goto(i, IF key_file.content = "none" THEN "generate" ELSE "read")
    /\ raced' = (raced \/ (key_file.content = "none" /\ \E j \in Instances \ {i} : phase[j] = "generate"))
    /\ UNCHANGED <<os, starts, key_file, host_key, generated, process_vars, scm_vars, served>>

\* verify_private_host_key_file_permissions looks at nothing on Windows.
IsPrivate(file) == os = "windows" \/ file.private

\* The key is read whole or not at all; that it is an Ed25519 key is checked a little later.
ReadHostKey(i) ==
    /\ phase[i] = "read"
    /\ key_file.content = "whole" /\ IsPrivate(key_file) /\ key_file.algorithm = "Ed25519"
    /\ host_key' = [host_key EXCEPT ![i] = key_file.key]
    /\ Goto(i, "authorized_keys")
    /\ UNCHANGED <<os, starts, key_file, generated, process_vars, scm_vars, served, raced>>

\* A new key, and its file created for the owner only, or truncated.
GenerateHostKey(i) ==
    /\ phase[i] = "generate"
    /\ generated' = generated + 1
    /\ host_key' = [host_key EXCEPT ![i] = generated']
    /\ key_file' = [key_file EXCEPT !.content = "partial", !.key = NoKey]
    /\ Goto(i, "write")
    /\ UNCHANGED <<os, starts, process_vars, scm_vars, served, raced>>

\* Mutant of WriteHostKey: a write that fails is not noticed.
WriteHostKeyUnchecked(i) ==
    /\ phase[i] = "write"
    /\ key_file' \in {NoFile, KeyFile("whole", host_key[i], "Ed25519", key_file.private)}
    /\ Goto(i, "authorized_keys")
    /\ UNCHANGED <<os, starts, host_key, generated, process_vars, scm_vars, served, raced>>

WriteHostKey(i) ==
    /\ phase[i] = "write"
    /\ key_file' = KeyFile("whole", host_key[i], "Ed25519", key_file.private)
    /\ Goto(i, "authorized_keys")
    /\ UNCHANGED <<os, starts, host_key, generated, process_vars, scm_vars, served, raced>>

-----------------------------------------------------------------------------
\* The rest of bootstrap: the executor is a process of its own only on Unix.
LoadAuthorizedKeys(i) ==
    /\ phase[i] = "authorized_keys"
    /\ Goto(i, "spawn")
    /\ UNCHANGED <<os, starts, key_vars, process_vars, scm_vars>>

SpawnExecutor(i) ==
    /\ phase[i] = "spawn" /\ Allowed(i, Calls("spawn"))
    /\ executor' = [executor EXCEPT ![i] = os = "linux"]
    /\ Goto(i, "bind")
    /\ UNCHANGED <<os, starts, key_vars, listener, sandbox, scm_vars>>

\* run_until_shutdown: the listener, then the confinement, which is Linux only.
Bind(i) ==
    /\ phase[i] = "bind" /\ Allowed(i, Calls("bind"))
    /\ listener = Nobody /\ listener' = i
    /\ Goto(i, IF os = "linux" THEN "no_new_privs" ELSE "serve")
    /\ UNCHANGED <<os, starts, key_vars, sandbox, executor, scm_vars>>

\* Mutant of After: the allowlist is installed before the errno filter.
AfterSwapped ==
    [no_new_privs |-> "landlock", landlock |-> "allowlist", allowlist |-> "errno", errno |-> "serve"]

After ==
    [no_new_privs |-> "landlock", landlock |-> "errno", errno |-> "allowlist", allowlist |-> "serve"]

Confine(i) ==
    /\ phase[i] \in DOMAIN After
    /\ IF Kills(i, Calls(phase[i])) THEN Dies(i)
       ELSE /\ Allowed(i, Calls(phase[i]))
            /\ sandbox' = [sandbox EXCEPT ![i] = @ \cup {phase[i]}]
            /\ Goto(i, After[phase[i]])
            /\ UNCHANGED <<os, starts, key_vars, listener, executor, scm_vars>>

LogSteps == IF LogToFile THEN {"rotate"} ELSE {}

\* The accept loop.  A connection is presented the host key and served by a task of its
\* own, whose errors and panics end there; Connection models it.  What it logs may be
\* more than the log file takes (LogFile).
Accept(i) ==
    /\ phase[i] = "serve"
    /\ \E calls \in {Calls("serve")} \cup {Calls("serve") \cup Calls(p) : p \in LogSteps} :
          IF Kills(i, calls) THEN Dies(i)
          ELSE /\ served' = served \cup {host_key[i]}
               /\ UNCHANGED <<os, phase, starts, key_file, host_key, generated, raced,
                              process_vars, scm_vars>>

Shutdown(i) == phase[i] = "serve" /\ control[i].sent /\ Ends(i)

-----------------------------------------------------------------------------
\* Every step up to the accept loop may fail, except the look at whether the host key
\* file exists; in the accept loop an error of accept ends the daemon.
StartFails(i) == phase[i] \notin {"off", "killed", "check_key", "serve"} /\ Ends(i)

AcceptFails(i) == phase[i] = "serve" /\ Ends(i)

Crash(i) == phase[i] \notin {"off", "killed"} /\ Gone(i, "off") /\ Report(i, "none")

\* The control handler, on a thread of the service control manager, which sends a stop
\* only to a service that reported Running.  The sender is used once.
HandleStop(i) ==
    /\ phase[i] # "off" /\ status[i] = "Running" /\ ~control[i].handling
    /\ Report(i, "StopPending") \/ UNCHANGED status
    /\ control' = [control EXCEPT ![i].handling = TRUE]
    /\ UNCHANGED <<os, phase, starts, key_vars, process_vars>>

\* Mutant of SendShutdown: a stop before the accept loop waits for it is lost.
SendShutdownLost(i) ==
    /\ control[i].handling
    /\ control' = [control EXCEPT ![i] = [handling |-> FALSE, sent |-> phase[i] = "serve"]]
    /\ UNCHANGED <<os, phase, starts, key_vars, process_vars, status>>

SendShutdown(i) ==
    /\ control[i].handling
    /\ control' = [control EXCEPT ![i] = [handling |-> FALSE, sent |-> TRUE]]
    /\ UNCHANGED <<os, phase, starts, key_vars, process_vars, status>>

Bootstrap(i) ==
    \/ RegisterHandler(i) \/ LoadConfig(i) \/ InitLogging(i) \/ CheckConfig(i) \/ ReportRunning(i)
    \/ FindHostKey(i) \/ ReadHostKey(i) \/ GenerateHostKey(i) \/ WriteHostKey(i)
    \/ LoadAuthorizedKeys(i) \/ SpawnExecutor(i) \/ Bind(i) \/ Confine(i) \/ StartFails(i)

Next ==
    \E i \in Instances :
        \/ Start(i) \/ Bootstrap(i) \/ Accept(i) \/ AcceptFails(i) \/ Shutdown(i)
        \/ Crash(i) \/ HandleStop(i) \/ SendShutdown(i)

\* The main thread of a process that starts goes on; select polls the shutdown channel at
\* every turn; the control handler runs to its end.
Fairness ==
    \A i \in Instances :
        WF_vars(Bootstrap(i)) /\ WF_vars(Shutdown(i)) /\ WF_vars(SendShutdown(i))

Spec == Init /\ [][Next]_vars /\ Fairness

-----------------------------------------------------------------------------
\* Clients see one host key, over crashes and restarts, and it is the one on disk; the
\* exception is two first starts at once (load_or_generate_host_key looks, then writes).
HostKeyIsStable ==
    raced \/ (Cardinality(served) <= 1
              /\ \A i \in Instances : phase[i] = "serve" => key_file.key = host_key[i])

\* A Linux daemon that accepts is confined: Landlock is enforced, and the two filters
\* stacked by install_preauth_seccomp_filter answer every call as the one policy they
\* stand for; the executor, which it could no longer start, is there.
ServesConfined ==
    \A i \in Instances : os = "linux" /\ phase[i] = "serve" =>
        /\ {"no_new_privs", "landlock"} \subseteq sandbox[i] /\ executor[i]
        /\ \A call \in errno_syscalls : Verdict(i, call) = "errno"
        /\ \A call \in allowed_syscalls : Verdict(i, call) = "allow"
        /\ \A call \in OtherSyscalls : Verdict(i, call) = "kill"

\* No filter of apply_preauth_sandbox kills the daemon for a call of its own: not the
\* one that installs the next filter, not the accept loop, not the rotation of the log.
NeverKilled == \A i \in Instances : phase[i] # "killed"

\* A stop the control handler has taken ends the service, whatever it was doing: the
\* shutdown channel keeps it until run_with_listener_until_shutdown waits.
StopIsServed == \A i \in Instances : control[i].handling ~> phase[i] = "off"

\* AppConfig::load reads every file as it is written (LoadsAsWritten): it accepts, refuses
\* or understands none of the texts otherwise.  The state plays no part in this, so it is
\* looked at before the first start only.
ConfigIsAsWritten ==
    (\A i \in Instances : starts[i] = 0) => \A text \in Texts : LoadsAsWritten(os, text)
=============================================================================
