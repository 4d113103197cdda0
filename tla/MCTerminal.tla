----------------------------- MODULE MCTerminal -----------------------------
(* Terminal with two letters, one of which may run any command and one     *)
(* none, and lines just long enough for an alias with a command.           *)
EXTENDS Terminal

MCLetters == {"c", "n"}
MCCommands ==
  [w \in {<<"c">>} |->
     {"echo", "about", "version", "help", "history", "cpuinfo", "memory", "time", "tcolor",
      "disk", "syslog", "cls", "shutdown", "memview", "debug", "cprompt", "alias"}]
MCPrompt == <<" ", " ">>
=============================================================================
