------------------------------- MODULE Config -------------------------------
(***************************************************************************)
(* The configuration file (src/config.rs) as a function from its lines to  *)
(* an AppConfig or Error.  A line is a directive, named by the field it    *)
(* sets, and its values; comments and empty lines are no lines.  A word is *)
(* the number it starts with and the rest, in lower case; numbers with a   *)
(* sign or leading zeros are left out.                                     *)
(***************************************************************************)
EXTENDS Integers, SequencesExt

CONSTANTS
    Error,       \* what a failed parse or load returns
    MaxU16,      \* u16::MAX
    MaxU32,      \* u32::MAX, scaled down
    MaxU64,      \* u64::MAX and usize::MAX, scaled down
    Absolute,    \* first words of absolute paths
    Tilde,       \* first words of paths that start at the home directory
    Bare,        \* words that are a single path component
    FileStem     \* file stems of the last components of paths, by their words

ASSUME ConfigAssumption ==
    /\ {MaxU16, MaxU32, MaxU64} \subseteq Nat
    /\ Absolute \cap Tilde = {} /\ Bare \cap (Absolute \cup Tilde) = {}

NoDigits == -1
Text(string) == [digits |-> NoDigits, rest |-> string]
Number(n, unit) == [digits |-> n, rest |-> unit]

\* The fields of each type.
Switches == {"permit_tty", "permit_exec", "sftp_enabled", "allow_tcp_forwarding",
             "allow_remote_forwarding", "gateway_ports", "nodelay"}
Counts == {"max_unauth_connections_global", "max_unauth_connections_per_ip",
           "max_unauth_connections_per_subnet", "new_connections_per_minute_per_ip",
           "new_connections_burst_per_ip", "max_auth_attempts", "auth_failure_ban_threshold",
           "keepalive_max", "channel_buffer_size", "event_buffer_size",
           "authorized_keys_max_entries"}
Durations == {"login_grace_time", "client_banner_timeout", "kex_start_timeout",
              "auth_rejection_time", "auth_failure_ban_window", "auth_failure_ban_duration",
              "inactivity_timeout", "keepalive_interval", "authorized_keys_reload_interval"}

-----------------------------------------------------------------------------
\* The values.
parse_bool(word) ==
    CASE word \in {Text("yes"), Text("true"), Text("on"), Number(1, "")} -> TRUE
      [] word \in {Text("no"), Text("false"), Text("off"), Number(0, "")} -> FALSE
      [] OTHER -> Error

ParseNumber(word, max) ==
    IF word.rest = "" /\ word.digits \in 0 .. max THEN word.digits ELSE Error

Saturating(n) == IF n <= MaxU64 THEN n ELSE MaxU64

\* In milliseconds.
parse_duration(word) ==
    CASE word.digits \notin 0 .. MaxU64 -> Error
      [] word.rest \in {"", "s"} -> 1000 * word.digits
      [] word.rest = "ms" -> word.digits
      [] word.rest = "m" -> 1000 * Saturating(60 * word.digits)
      [] word.rest = "h" -> 1000 * Saturating(3600 * word.digits)
      [] OTHER -> Error

Multiplier ==
    ("" :> 1) @@ ("b" :> 1) @@ ("k" :> 1000) @@ ("kb" :> 1000) @@ ("ki" :> 1024)
    @@ ("kib" :> 1024) @@ ("m" :> 1000000) @@ ("mb" :> 1000000)
    @@ ("mi" :> 1048576) @@ ("mib" :> 1048576)

parse_byte_size(word) ==
    IF /\ word.digits \in 0 .. MaxU64
       /\ word.rest \in DOMAIN Multiplier
       /\ word.digits * Multiplier[word.rest] <= MaxU64
    THEN word.digits * Multiplier[word.rest]
    ELSE Error

ExecMode(word) ==
    CASE word \in {Text("shell-login"), Text("login-shell")} -> "ShellLogin"
      [] word \in {Text("shell-command"), Text("command-shell"), Text("shell")} -> "ShellCommand"
      [] word \in {Text("powershell"), Text("pwsh")} -> "PowerShell"
      [] word \in {Text("cmd"), Text("cmd.exe")} -> "Cmd"
      [] OTHER -> Error

LogLevel(word) ==
    CASE word \in {Text("warn"), Text("warning")} -> "Warn"
      [] word = Text("error") -> "Error"
      [] word = Text("info") -> "Info"
      [] word = Text("debug") -> "Debug"
      [] word = Text("trace") -> "Trace"
      [] OTHER -> Error

\* Paths keep where they start: the root, the home directory, the directory of the
\* configuration file, or, for a shell of one component, the search path.
Path(root, values) == [root |-> root, words |-> values]

resolve_config_path(values) ==
    CASE values[1] \in Tilde -> Path("home", values)
      [] values[1] \in Absolute -> Path("/", values)
      [] OTHER -> Path("base_dir", values)

resolve_shell_command_or_path(values) ==
    IF ToSet(values) \subseteq Bare THEN Path("PATH", values) ELSE resolve_config_path(values)

-----------------------------------------------------------------------------
\* The whole file.
defaults(os) ==
    [listen_address |-> <<Text("0.0.0.0")>>, port |-> 2222,
     host_key |-> Path("config_dir", <<Text("ssh_host_ed25519_key")>>),
     authorized_keys_file |-> Path("home", <<Text(".ssh/authorized_keys")>>),
     shell |-> IF os = "windows" THEN Path("PATH", <<Text("powershell.exe")>>)
               ELSE Path("/", <<Text("/bin/bash")>>),
     exec_mode |-> IF os = "windows" THEN "PowerShell" ELSE "ShellLogin",
     permit_tty |-> TRUE, permit_exec |-> TRUE, sftp_enabled |-> TRUE,
     allow_tcp_forwarding |-> TRUE, allow_remote_forwarding |-> TRUE, gateway_ports |-> TRUE,
     max_unauth_connections_global |-> 16, max_unauth_connections_per_ip |-> 3,
     max_unauth_connections_per_subnet |-> 8, new_connections_per_minute_per_ip |-> 12,
     new_connections_burst_per_ip |-> 4, login_grace_time |-> 15000,
     client_banner_timeout |-> 5000, kex_start_timeout |-> 5000, max_auth_attempts |-> 4,
     auth_rejection_time |-> 2000, auth_failure_ban_threshold |-> 8,
     auth_failure_ban_window |-> 600000, auth_failure_ban_duration |-> 900000,
     inactivity_timeout |-> 900000, keepalive_interval |-> 30000, keepalive_max |-> 3,
     channel_buffer_size |-> 32, event_buffer_size |-> 16, window_size |-> 1048576,
     maximum_packet_size |-> 32768, nodelay |-> TRUE, authorized_keys_max_size |-> 262144,
     authorized_keys_max_entries |-> 128, authorized_keys_reload_interval |-> 2000,
     log_level |-> "Info"]

\* What a directive that only sets a field of its own sets it to.
Parsed(field, values) ==
    CASE field = "port" -> ParseNumber(values[1], MaxU16)
      [] field = "listen_address" -> values
      [] field \in {"host_key", "authorized_keys_file"} -> resolve_config_path(values)
      [] field = "shell" -> resolve_shell_command_or_path(values)
      [] field = "exec_mode" -> ExecMode(values[1])
      [] field \in Switches -> parse_bool(values[1])
      [] field \in Counts -> ParseNumber(values[1], MaxU64)
      [] field \in Durations -> parse_duration(values[1])
      [] field \in {"window_size", "maximum_packet_size"} -> ParseNumber(values[1], MaxU32)
      [] field = "authorized_keys_max_size" -> parse_byte_size(values[1])
      [] field = "log_level" -> LogLevel(values[1])
      [] OTHER -> Error

validate_shell(exec_mode, shell) ==
    LET stem == FileStem[shell.words]
    IN  /\ exec_mode = "PowerShell" => stem \in {"powershell", "pwsh"}
        /\ exec_mode = "Cmd" => stem = "cmd"

validate(config) == config.permit_exec => validate_shell(config.exec_mode, config.shell)

\* Mutant of SetField: shell and mode are compared as soon as a line sets one of them.
SetFieldValidating(config, field, values) ==
    LET value == Parsed(field, values)
        changed == [config EXCEPT ![field] = value]
    IN  IF value = Error \/ (field \in {"shell", "exec_mode"} /\ ~validate(changed))
        THEN Error ELSE changed

SetField(config, field, values) ==
    LET value == Parsed(field, values)
    IN  IF value = Error THEN Error ELSE [config EXCEPT ![field] = value]

ApplyLine(config, line) ==
    CASE config = Error \/ line.values = <<>> -> Error
      [] line.key = "Subsystem" ->
            IF line.values[1] = Text("sftp") THEN [config EXCEPT !.sftp_enabled = TRUE] ELSE config
      [] line.key = "PubkeyAuthentication" ->
            IF parse_bool(line.values[1]) = TRUE THEN config ELSE Error
      [] line.key = "PasswordAuthentication" ->
            IF parse_bool(line.values[1]) = FALSE THEN config ELSE Error
      [] line.key = "PermitOpen" -> config
      [] OTHER -> SetField(config, line.key, line.values)

apply_text(config, text) == FoldLeft(ApplyLine, config, text)

\* load, given the lines of the file; no lines when there is no file.
load(os, text) ==
    LET config == apply_text(defaults(os), text)
    IN  IF config # Error /\ validate(config) THEN config ELSE Error

-----------------------------------------------------------------------------
\* What the file says, read without running the loader: the lines that speak about a
\* field, the last of them, and the pairs of shell and mode that cannot work.
SpeaksOf(line, field) ==
    line.key = field \/ (field = "sftp_enabled" /\ line.key = "Subsystem" /\ line.values[1] = Text("sftp"))

Says(line, field) == IF line.key = field THEN Parsed(field, line.values) ELSE TRUE

AsWritten(os, text, field) ==
    LET lines == {n \in DOMAIN text : SpeaksOf(text[n], field)}
    IN  IF lines = {} THEN defaults(os)[field] ELSE Says(text[Max(lines)], field)

\* A file is accepted exactly when every line is good by itself and the shell it ends with
\* fits the mode it ends with; every field is then what the last line that speaks about
\* it says, and the default otherwise.
LoadsAsWritten(os, text) ==
    LET written == [field \in DOMAIN defaults(os) |-> AsWritten(os, text, field)]
        good == \A n \in DOMAIN text : ApplyLine(defaults(os), text[n]) # Error
    IN  load(os, text) = IF good /\ validate(written) THEN written ELSE Error
=============================================================================
