------------------------------- MODULE Sigmon -------------------------------
(***************************************************************************)
(* The signal monitor sigmon/sigmon.c: it attaches to a process with       *)
(* ptrace, and continues it at every stop with the signal that stopped it, *)
(* until the process ends.  SIGINT and SIGTERM start a handler that lets   *)
(* the process go and exits, from any point of the loop.                   *)
(*                                                                         *)
(* The traced process and the kernel are modelled from ptrace(2): a signal *)
(* for a traced process stops it; PTRACE_CONT and PTRACE_DETACH fail       *)
(* unless it is stopped; when the tracer exits, the signal that stopped    *)
(* the process is injected.  Sequences delivered and sent are history.     *)
(***************************************************************************)
EXTENDS Integers, Sequences, FiniteSets

CONSTANTS
  Signals,        \* signals other processes send to the traced one
  Deadly,         \* those of them that kill it
  SIGSTOP,        \* what PTRACE_ATTACH sends
  ExitCodes,      \* exit statuses of the traced process
  MaxSent,        \* bound: signals sent
  MaxInterrupts   \* bound: SIGINT and SIGTERM sigmon receives

ASSUME ConstantsOK ==
  /\ Signals \subseteq Nat \ {0} /\ Deadly \subseteq Signals
  /\ SIGSTOP \in Nat \ Signals /\ SIGSTOP # 0 /\ ExitCodes \subseteq Nat
  /\ MaxSent \in Nat /\ MaxInterrupts \in Nat

VARIABLES
  pc,          \* where sigmon is
  state,       \* what the last wait has stored
  g_sig,       \* the signal to continue with
  first,       \* the signal the wait after the attach saw, 0 before
  interrupts,  \* signals sigmon has received
  traced,      \* is the process traced?
  process,     \* "runs", "stopped" by a signal, "group" stopped, or "dead"
  status,      \* what a wait would store
  waitable,    \* has the status not been waited for?
  pending,     \* signals that have not stopped the process yet
  sent,        \* signals sent to the process
  delivered    \* signals that took effect on it

monVars  == <<pc, state, g_sig, first, interrupts>>
procVars == <<traced, process, status, waitable>>
vars == <<pc, state, g_sig, first, interrupts, traced, process, status, waitable,
          pending, sent, delivered>>

AllSignals == Signals \cup {SIGSTOP}
Statuses   == [kind : {"none", "stop", "exit", "kill"}, n : AllSignals \cup ExitCodes \cup {0}]
NoStatus   == [kind |-> "none", n |-> 0]

Init ==
  /\ pc = "attach" /\ state = NoStatus /\ g_sig = 0 /\ first = 0 /\ interrupts = 0
  /\ traced = FALSE /\ process = "runs" /\ status = NoStatus /\ waitable = FALSE
  /\ pending = {} /\ sent = <<>> /\ delivered = <<>>
-----------------------------------------------------------------------------
(* The kernel. *)

Becomes(how, st, new) == process' = how /\ status' = st /\ waitable' = new

(* A signal takes effect.  SIGSTOP stops all threads, which a tracer sees  *)
(* as one more stop.                                                       *)
Deliver(sig) ==
  /\ delivered' = Append(delivered, sig)
  /\ \/ sig = SIGSTOP /\ Becomes("group", [kind |-> "stop", n |-> sig], TRUE)
     \/ sig \in Deadly /\ Becomes("dead", [kind |-> "kill", n |-> sig], TRUE)
     \/ sig \in Signals \ Deadly /\ Becomes("runs", status, FALSE)

Stopped == traced /\ process \in {"stopped", "group"}
Resume == Becomes("runs", status, FALSE) /\ UNCHANGED delivered

(* PTRACE_CONT: a signal is injected into a process that a signal stopped. *)
Continue(sig) ==
  /\ \/ Stopped /\ process = "stopped" /\ sig # 0 /\ Deliver(sig)
     \/ Stopped /\ (process = "group" \/ sig = 0) /\ Resume
     \/ ~Stopped /\ UNCHANGED <<process, status, waitable, delivered>>
  /\ UNCHANGED <<traced, pending, sent>>

Detach ==
  /\ \/ Stopped /\ traced' = FALSE /\ Resume
     \/ ~Stopped /\ UNCHANGED <<procVars, delivered>>
  /\ UNCHANGED <<pending, sent>>

(* Another process sends a signal; one that is pending already is dropped. *)
SendSignal ==
  /\ process # "dead" /\ Len(sent) < MaxSent
  /\ \E s \in Signals \ pending :
       pending' = pending \cup {s} /\ sent' = Append(sent, s)
  /\ UNCHANGED <<monVars, procVars, delivered>>

TakeSignal ==
  /\ process = "runs"
  /\ \E s \in pending :
       /\ pending' = pending \ {s}
       /\ \/ /\ traced /\ Becomes("stopped", [kind |-> "stop", n |-> s], TRUE)
             /\ UNCHANGED delivered
          \/ ~traced /\ Deliver(s)
  /\ UNCHANGED <<monVars, traced, sent>>

ProcessExits ==
  /\ process = "runs"
  /\ \E c \in ExitCodes : Becomes("dead", [kind |-> "exit", n |-> c], TRUE)
  /\ UNCHANGED <<monVars, traced, pending, sent, delivered>>
-----------------------------------------------------------------------------
(* sigmon. *)

Attach ==
  /\ pc = "attach"
  /\ \/ /\ process # "dead"
        /\ pc' = "attached" /\ traced' = TRUE /\ pending' = pending \cup {SIGSTOP}
     \/ pc' = "exit" /\ UNCHANGED <<traced, pending>>
  /\ UNCHANGED <<state, g_sig, first, interrupts, process, status, waitable, sent, delivered>>

(* Any stop will do, not just that by SIGSTOP. *)
AttachWait ==
  /\ pc = "attached" /\ waitable
  /\ state' = status /\ waitable' = FALSE
  /\ \/ status.kind = "stop" /\ first' = status.n /\ pc' = "cont"
     \/ status.kind # "stop" /\ UNCHANGED first /\ pc' = "leave"
  /\ UNCHANGED <<g_sig, interrupts, traced, process, status, pending, sent, delivered>>

Forgotten == 0                                                     \* mutant
Forwarded == g_sig

Cont ==
  /\ pc = "cont" /\ pc' = "wait"
  /\ Continue(Forwarded)
  /\ UNCHANGED <<state, g_sig, first, interrupts>>

(* wait fails at once when there is nothing left to wait for, and leaves   *)
(* state as it was.                                                        *)
Wait ==
  /\ pc = "wait" /\ (waitable \/ process = "dead")
  /\ state' = IF waitable THEN status ELSE state
  /\ waitable' = FALSE
  /\ pc' = "store"
  /\ UNCHANGED <<g_sig, first, interrupts, traced, process, status, pending, sent, delivered>>

(* The second byte of the status: the stop signal, the exit code, or 0.    *)
RawStatus(st) == IF st.kind = "kill" THEN st.n ELSE 256 * st.n     \* mutant
WTERMSIG(st) == st.n                                               \* mutant
WSTOPSIG(st) == IF st.kind \in {"stop", "exit"} THEN st.n ELSE 0

Store ==
  /\ pc = "store"
  /\ g_sig' = WSTOPSIG(state)
  /\ pc' = IF WSTOPSIG(state) = 0 THEN "finalCont" ELSE "print"
  /\ UNCHANGED <<state, first, interrupts, procVars, pending, sent, delivered>>

WaitAgain == "wait"                                                \* mutant
AfterPrint == "cont"

PrintSignal ==
  /\ pc = "print" /\ pc' = AfterPrint
  /\ UNCHANGED <<state, g_sig, first, interrupts, procVars, pending, sent, delivered>>

FinalCont ==
  /\ pc = "finalCont" /\ pc' = "detach"
  /\ Continue(0)
  /\ UNCHANGED <<state, g_sig, first, interrupts>>

(* The handler passes on g_sig, which may be the signal before the one     *)
(* that has stopped the process.                                           *)
SignoPassed == CHOOSE s \in Deadly : TRUE                          \* mutant
Passed == g_sig

HandlerCont ==
  /\ pc = "handler" /\ pc' = "detach"
  /\ Continue(Passed)
  /\ UNCHANGED <<state, g_sig, first, interrupts>>

DetachProcess ==
  /\ pc = "detach" /\ pc' = "leave"
  /\ Detach
  /\ UNCHANGED <<state, g_sig, first, interrupts>>

(* sigmon exits; what it still traces is released. *)
Leave ==
  /\ pc = "leave" /\ pc' = "exit"
  /\ traced' = FALSE
  /\ \/ traced /\ process = "stopped" /\ Deliver(status.n)
     \/ ~(traced /\ process = "stopped") /\ UNCHANGED <<process, status, waitable, delivered>>
  /\ UNCHANGED <<state, g_sig, first, interrupts, pending, sent>>

Interrupt ==
  /\ pc # "exit" /\ interrupts < MaxInterrupts
  /\ pc' = "handler" /\ interrupts' = interrupts + 1
  /\ UNCHANGED <<state, g_sig, first, procVars, pending, sent, delivered>>

Monitor == \/ Attach \/ AttachWait \/ Cont \/ Wait \/ Store \/ PrintSignal
           \/ FinalCont \/ HandlerCont \/ DetachProcess \/ Leave
Next == Monitor \/ Interrupt \/ SendSignal \/ TakeSignal \/ ProcessExits
Spec == Init /\ [][Next]_vars

(* sigmon is scheduled, and so is the process, which takes its signals. *)
MonFair == WF_vars(Monitor) /\ WF_vars(TakeSignal)
-----------------------------------------------------------------------------
(* Properties.                                                             *)

TypeOK ==
  /\ pc \in {"attach", "attached", "cont", "wait", "store", "print", "finalCont",
            "handler", "detach", "leave", "exit"}
  /\ state \in Statuses /\ status \in Statuses
  /\ g_sig \in AllSignals \cup ExitCodes \cup {0} /\ first \in AllSignals \cup {0}
  /\ interrupts \in 0 .. MaxInterrupts
  /\ traced \in BOOLEAN /\ waitable \in BOOLEAN
  /\ process \in {"runs", "stopped", "group", "dead"}
  /\ pending \subseteq AllSignals
  /\ sent \in Seq(Signals) /\ delivered \in Seq(AllSignals)

Count(seq, s) == Cardinality({i \in 1 .. Len(seq) : seq[i] = s})
One(b) == IF b THEN 1 ELSE 0
InFlight(s) == One(s \in pending) + One(process = "stopped" /\ status.n = s)

(* sigmon was not interrupted, and its attach met no other signal. *)
AttachMet(s) == first = s \/ (pc = "attached" /\ process = "stopped" /\ status.n = s)
Undisturbed == interrupts = 0 /\ \A s \in Signals : ~AttachMet(s)

(* The monitor is transparent (sigmon.c:97-112): while the process lives,  *)
(* each signal sent to it is pending, or has stopped it, or has taken      *)
(* effect, exactly once, whenever signals arrive and in whatever order.    *)
(* This holds unless the handler runs, or another signal than SIGSTOP ends *)
(* the wait of the attach, which is dropped.                               *)
Transparent ==
  process # "dead" /\ Undisturbed =>
    \A s \in Signals : Count(sent, s) = Count(delivered, s) + InFlight(s)

(* Whatever the handler interrupts, a signal is at worst swapped for the   *)
(* one before it (sigmon.c:49): no signal takes effect that nobody sent,   *)
(* and none more often than it was sent and the handler was started.       *)
NoneInvented ==
  \A s \in Signals :
    Count(delivered, s) <= Count(sent, s) + (IF Count(sent, s) > 0 THEN interrupts ELSE 0)

(* Signals are neither lost nor made up, as far as each case allows        *)
(* (sigmon.c:42-54, 97-112).                                               *)
SignalsAreKept == Transparent /\ NoneInvented

(* Every signal takes effect in the end, although the process is stopped   *)
(* for each one and sigmon only ever waits for one.  The exception: when   *)
(* the handler runs before the attach is complete, nobody continues the    *)
(* process from the SIGSTOP of the attach.                                 *)
LeftStopped == pc = "exit" /\ interrupts > 0 /\ process = "group"
SignalsArrive ==
  \A s \in Signals :
    s \in pending ~> (InFlight(s) = 0 \/ process = "dead" \/ LeftStopped)

(* When the process was killed, or exits with status 0, sigmon ends too    *)
(* (sigmon.c:102).                                                         *)
EndsWithProcess ==
  (traced /\ process = "dead" /\ (status.kind = "exit" => status.n = 0)) ~> pc = "exit"

(* "pid %d got signal %d" (sigmon.c:103): what is printed is a signal that *)
(* stopped the process.                                                    *)
GotSignal == pc = "print" => state.kind = "stop"
=============================================================================
