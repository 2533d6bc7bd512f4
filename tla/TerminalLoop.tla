---------------------------- MODULE TerminalLoop ----------------------------
(***************************************************************************)
(* The loop that tcp_echo/tcp_client.c and udp_echo/udp_test.c share word  *)
(* for word: select on the terminal and one socket, serve the terminal,    *)
(* serve the socket, and a handler that closes the socket at any point.    *)
(* What serving means, and what is ready, is up to the program that        *)
(* instantiates this module.                                               *)
(***************************************************************************)
VARIABLES
  pc,     \* where the program is
  fd,     \* its descriptor: is it open, or -1?
  flags   \* the fd_set of this round

Ended == pc \in {"exit", "killed"}

LoopInit == pc = "start" /\ fd = FALSE /\ flags = {}

(* The handlers are installed before the socket is there.                  *)
Start ==
  /\ pc = "start"
  /\ \/ pc' = "ready" /\ fd' = TRUE
     \/ pc' = "exit" /\ UNCHANGED fd
  /\ UNCHANGED flags

(* With a descriptor of -1 the macro FD_SET is undefined: a build that     *)
(* checks it aborts, any other passes the number of descriptors, 0, to     *)
(* select.                                                                 *)
BuildFlags ==
  /\ pc = "build"
  /\ \/ fd /\ pc' = "select" /\ flags' = {"stdin", "socket"}
     \/ ~fd /\ pc' \in {"select", "killed"} /\ flags' = {}
  /\ UNCHANGED fd

SelectReady(ready) ==
  /\ pc = "select" /\ ("socket" \in flags => fd)
  /\ flags \cap ready # {}
  /\ flags' = flags \cap ready
  /\ pc' = IF "stdin" \in ready THEN "readStdin" ELSE "readSocket"
  /\ UNCHANGED fd

SelectFails ==
  /\ pc = "select" /\ "socket" \in flags /\ ~fd
  /\ pc' = "closing"
  /\ UNCHANGED <<fd, flags>>

(* The terminal is served before the socket; a flag of the select still    *)
(* counts then.                                                            *)
EitherOne == "build"                                               \* mutant
AfterStdin == IF "socket" \in flags THEN "readSocket" ELSE "build"

Terminate ==
  /\ pc = "closing" /\ pc' = "exit" /\ fd' = FALSE
  /\ UNCHANGED flags

(* _endHdlr.  A sleeping select fails; a signal on the way into it may     *)
(* find the descriptor in the set and passed, or not passed yet.           *)
RestartsSelect == "build"                                          \* mutant
AfterSelectError == "closing"

Handler(ready) ==
  /\ ~Ended /\ fd' = FALSE
  /\ \/ pc = "select" /\ flags \cap ready = {} /\ pc' = AfterSelectError /\ UNCHANGED flags
     \/ pc = "select" /\ flags' \in {flags, {}} /\ UNCHANGED pc
     \/ pc # "select" /\ UNCHANGED <<pc, flags>>

LoopTypeOK ==
  /\ pc \in {"start", "ready", "build", "select", "readStdin", "write", "readSocket",
            "closing", "exit", "killed"}
  /\ fd \in BOOLEAN /\ flags \subseteq {"stdin", "socket"}
=============================================================================
