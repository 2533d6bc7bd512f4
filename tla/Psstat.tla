------------------------------- MODULE Psstat -------------------------------
(***************************************************************************)
(* The CPU meter psstat/psstat.c: it reads the counters of a process from  *)
(* /proc, sleeps, reads them again and prints the difference as a          *)
(* percentage.  The process may end meanwhile, wait for its parent as a    *)
(* zombie, and its PID may be given to another one; a signal may cut any   *)
(* sleep short.                                                            *)
(***************************************************************************)
EXTENDS Integers

CONSTANTS
  HZ,         \* clock ticks in a second, sysconf(_SC_CLK_TCK)
  WORD,       \* 2^64, the range of unsigned long
  Intervals,  \* what -i may say
  Loops,      \* what -n may say, 0 for no end
  Blanks,     \* how many blanks the name of the process has
  Moving,     \* bound: those of the fields 12 to 17 that change
  MaxTicks,   \* bound: what each counter of the process counts to
  MaxReuse    \* bound: how often the PID is given to another process

ASSUME PsstatOK ==
  /\ HZ \in Nat \ {0} /\ WORD \in Nat /\ WORD > 400 * MaxTicks
  /\ Intervals \subseteq Nat /\ Loops \subseteq Nat /\ Blanks \subseteq 0 .. 2 /\ Moving \subseteq 12 .. 17
  /\ MaxTicks \in Nat /\ MaxReuse \in Nat

VARIABLES
  psPc,        \* where psstat is
  interval, loops,  \* its options
  g_taskStat,  \* the times it has read: utime, stime, cutime, cstime
  g_running,   \* cleared by the handler
  count,       \* lines printed, when there is an end
  wait,        \* seconds left of the sleep
  file,        \* the process whose stat file it has opened last
  proc,        \* the process: "runs", "zombie" or "gone"
  fields,      \* the fields 12 to 17 of its stat file: faults and times
  blanks,      \* blanks in its name
  reused,      \* how often the PID was reused
  used,        \* history: ticks since the last look
  same,        \* history: is it still the process of the last look?
  psLine        \* history: the last line, and the truth about it

options  == <<interval, loops>>
psProcess == <<proc, fields, blanks, reused>>
truth    == <<used, same>>
psVars   == <<psPc, options, g_taskStat, g_running, count, wait, file, psProcess, truth, psLine>>

Times == 14 .. 17
NoLine == [percent |-> 0, used |-> 0, same |-> FALSE]

PsInit ==
  /\ psPc = "find" /\ interval \in Intervals /\ loops \in Loops
  /\ g_taskStat = [f \in Times |-> 0] /\ g_running = TRUE /\ count = 0 /\ wait = 0 /\ file = 0
  /\ proc = "runs" /\ fields = [f \in 12 .. 17 |-> 0] /\ blanks \in Blanks /\ reused = 0
  /\ used = 0 /\ same = TRUE /\ psLine = NoLine

(* task_cpu_time counts tokens: each blank in the name, which stands in    *)
(* parentheses before them, shifts what it takes for the times.            *)
Counters == [f \in Times |-> fields[f - blanks]]

(* It opens the file; a process that has ended since gives no line then,   *)
(* and what was read before stays as if it had been read again.            *)
Open(goesOn) ==
  /\ \/ proc # "gone" /\ psPc' = goesOn /\ file' = reused
     \/ proc = "gone" /\ psPc' = "exit" /\ UNCHANGED file
  /\ UNCHANGED <<options, g_taskStat, g_running, count, wait, psProcess, truth, psLine>>

KeepsFirst == g_taskStat                                           \* mutant
Saved == Counters

ReadStat ==
  \/ proc # "gone" /\ file = reused /\ g_taskStat' = Saved /\ used' = 0 /\ same' = TRUE
  \/ (proc = "gone" \/ file # reused) /\ UNCHANGED <<g_taskStat, used>> /\ same' = FALSE
-----------------------------------------------------------------------------
(* psstat. *)

FindProcess == psPc = "find" /\ Open("first")

ReadFirst ==
  /\ psPc = "first" /\ ReadStat
  /\ psPc' = "sleep" /\ wait' = interval
  /\ UNCHANGED <<options, g_running, count, file, psProcess, psLine>>

WakeUp ==
  /\ psPc = "sleep" /\ wait = 0 /\ psPc' = "look"
  /\ UNCHANGED <<options, g_taskStat, g_running, count, wait, file, psProcess, truth, psLine>>

Look == psPc = "look" /\ Open("read")

(* Unsigned arithmetic.                                                    *)
Minus(a, b) == (a - b) % WORD
SumOver(f) == (f[14] + f[15] + f[16] + f[17]) % WORD
Percent == ((SumOver([f \in Times |-> Minus(g_taskStat'[f], g_taskStat[f])]) * 100) % WORD)
             \div (HZ * interval)

NeverStops == TRUE                                                 \* mutant
Running == g_running

(* One line.  An interval of 0 divides by zero; the number of lines and    *)
(* the handler end the loop.                                               *)
PrintLine ==
  /\ psPc = "read" /\ ReadStat
  /\ \/ interval = 0 /\ psPc' = "killed" /\ UNCHANGED <<count, wait, psLine>>
     \/ /\ interval > 0
        /\ psLine' = [percent |-> Percent, used |-> used, same |-> same]
        /\ count' = IF loops > 0 THEN count + 1 ELSE count
        /\ psPc' = IF (loops > 0 /\ count' = loops) \/ ~Running THEN "exit" ELSE "sleep"
        /\ wait' = IF psPc' = "sleep" THEN interval ELSE 0
  /\ UNCHANGED <<options, g_running, file, psProcess>>

(* terminate, on SIGINT and SIGTERM.  It cuts a sleep short.               *)
TerminateHandler ==
  /\ psPc \notin {"exit", "killed"} /\ g_running' = FALSE
  /\ \/ psPc = "sleep" /\ psPc' = "look" /\ wait' = 0
     \/ psPc # "sleep" /\ UNCHANGED <<psPc, wait>>
     \/ psPc = "sleep" /\ wait = interval /\ UNCHANGED <<psPc, wait>>    \* sleep has not begun
  /\ UNCHANGED <<options, g_taskStat, count, file, psProcess, truth, psLine>>
-----------------------------------------------------------------------------
(* The process, and time. *)

Work(f, n) ==
  /\ proc = "runs" /\ fields[f] + n <= MaxTicks
  /\ fields' = [fields EXCEPT ![f] = @ + n]
  /\ used' = IF f \in Times THEN used + n ELSE used

(* A second passes, in which the process may have used the CPU, in user    *)
(* or system mode, reaped a child that had, or met page faults.            *)
Second ==
  /\ psPc = "sleep" /\ wait > 0 /\ wait' = wait - 1
  /\ \/ \E f \in Moving, n \in {1, HZ} : Work(f, n)
     \/ UNCHANGED <<fields, used>>
  /\ UNCHANGED <<psPc, options, g_taskStat, g_running, count, file, proc, blanks, reused, same, psLine>>

ProcessEnds ==
  /\ \/ proc = "runs" /\ proc' = "zombie"
     \/ proc = "zombie" /\ proc' = "gone"
  /\ same' = (same /\ proc' # "gone")
  /\ UNCHANGED <<psPc, options, g_taskStat, g_running, count, wait, file, fields, blanks, reused, used, psLine>>

PidReused ==
  /\ proc = "gone" /\ reused < MaxReuse /\ reused' = reused + 1
  /\ proc' = "runs" /\ fields' = [f \in 12 .. 17 |-> 0] /\ used' = 0
  /\ UNCHANGED <<psPc, options, g_taskStat, g_running, count, wait, file, blanks, same, psLine>>

PsProcess == FindProcess \/ ReadFirst \/ WakeUp \/ Look \/ PrintLine
PsNext == PsProcess \/ TerminateHandler \/ Second \/ ProcessEnds \/ PidReused

(* psstat is scheduled and time passes. *)
PsFair == WF_psVars(PsProcess) /\ WF_psVars(Second)
PsSpec == PsInit /\ [][PsNext]_psVars
-----------------------------------------------------------------------------
(* Properties.                                                             *)

Word == 0 .. WORD - 1
PsTypeOK ==
  /\ psPc \in {"find", "first", "sleep", "look", "read", "exit", "killed"}
  /\ interval \in Nat /\ loops \in Nat /\ wait \in 0 .. interval
  /\ \A f \in Times : g_taskStat[f] \in Word
  /\ g_running \in BOOLEAN /\ count \in 0 .. loops
  /\ proc \in {"runs", "zombie", "gone"} /\ blanks \in 0 .. 2
  /\ reused \in 0 .. MaxReuse /\ file \in 0 .. reused
  /\ \A f \in 12 .. 17 : fields[f] \in 0 .. MaxTicks
  /\ used \in Nat /\ same \in BOOLEAN
  /\ psLine \in [percent : Word, used : Nat, same : BOOLEAN]

(* The percentage of a line is that of the ticks the process has used      *)
(* since the line before (psstat.c:166-205), rounded down: each tick is in *)
(* one line and in one only, however long the sleep really was.  It is not *)
(* when the name has blanks, or the process has just ended, or another one *)
(* has taken over its PID.                                                 *)
PercentIsTrue ==
  psLine.same /\ blanks = 0 =>
    /\ psLine.percent * HZ * interval <= 100 * psLine.used
    /\ 100 * psLine.used < (psLine.percent + 1) * HZ * interval

(* A signal, the end of the process and the number of lines each end       *)
(* psstat (psstat.c:267-270, 341-345).                                     *)
PsMustEnd == ~g_running \/ (proc = "gone" /\ reused = MaxReuse) \/ loops > 0
SignalEndsPsstat == PsMustEnd ~> psPc \in {"exit", "killed"}
=============================================================================
