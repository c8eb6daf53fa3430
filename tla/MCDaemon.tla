------------------------------ MODULE MCDaemon ------------------------------
(* An instance of Daemon: configuration files of up to two lines, and of   *)
(* three among those that depend on each other.                              *)
EXTENDS Daemon

Line(key, values) == [key |-> key, values |-> values]
Bash == Text("/bin/bash")
Pwsh == Text("pwsh")
Cmd == Text("tools/cmd.exe")

MCAbsolute == {Bash}
MCTilde == {Text("~/key")}
MCBare == {Pwsh, Text("powershell.exe")}
MCFileStem == (<<Bash>> :> "bash") @@ (<<Pwsh>> :> "pwsh") @@ (<<Cmd>> :> "cmd")
              @@ (<<Text("powershell.exe")>> :> "powershell")

\* Lines that depend on each other, in every order and repeated.
Mixed ==
    {Line("shell", <<Pwsh>>), Line("exec_mode", <<Text("pwsh")>>), Line("exec_mode", <<Text("shell")>>),
     Line("permit_exec", <<Text("no")>>), Line("sftp_enabled", <<Number(0, "")>>),
     Line("Subsystem", <<Text("sftp")>>), Line("PasswordAuthentication", <<Text("off")>>)}

\* Lines that set, are refused or overflow.
Single ==
    {Line("shell", <<Cmd>>), Line("exec_mode", <<Text("cmd")>>), Line("exec_mode", <<Number(1, "")>>),
     Line("Subsystem", <<Text("other")>>), Line("PubkeyAuthentication", <<Text("no")>>),
     Line("PasswordAuthentication", <<Text("yes")>>), Line("PermitOpen", <<Text("any")>>),
     Line("port", <<Number(65536, "")>>), Line("port", <<Number(22, "")>>), Line("port", <<>>),
     Line("host_key", <<Text("~/key")>>), Line("host_key", <<Text("my"), Text("key")>>),
     Line("listen_address", <<Text("::1")>>), Line("log_level", <<Text("warning")>>),
     Line("max_auth_attempts", <<Number(0, "")>>), Line("window_size", <<Number(7, "k")>>),
     Line("login_grace_time", <<Number(20000, "m")>>), Line("login_grace_time", <<Number(2, "h")>>),
     Line("authorized_keys_max_size", <<Number(2, "kib")>>),
     Line("authorized_keys_max_size", <<Number(20000, "kib")>>), Line("unknown", <<Number(1, "")>>)}

Lines == Mixed \cup Single
MCTexts == {<<>>} \cup {<<a>> : a \in Lines} \cup {<<a, b>> : a, b \in Lines}
               \cup {<<a, b, c>> : a, b, c \in Mixed}
=============================================================================
