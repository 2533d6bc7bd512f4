--------------------------- MODULE ProgramsProofs ---------------------------
(***************************************************************************)
(* Proofs about the programs of MCPrograms that have no proofs module of   *)
(* their own, sigmon, the CPU meter, the datagram programs and the         *)
(* multicast programs, and about MCPrograms, in which one of the programs  *)
(* runs, for any values of the constants.                                  *)
(***************************************************************************)
EXTENDS MCPrograms, TcpClientProofs, FiniteSetTheorems, FunctionTheorems,
        SequenceTheorems, TLAPS

-----------------------------------------------------------------------------
(* sigmon: its types, and that signals are neither lost nor made up, for   *)
(* any signals, any exit statuses and any number of interrupts.            *)

(* What stopped the process, or ended it, is its status.                   *)
Kernel ==
  /\ process \in {"stopped", "group"} => status.kind = "stop" /\ status.n \in AllSignals
  /\ process = "dead" => status.kind \in {"exit", "kill"}
  /\ waitable => process # "runs"

(* The handler never comes back, and what sigmon has waited for last.      *)
MonControl ==
  /\ interrupts > 0 => pc \in {"handler", "detach", "leave", "exit"}
  /\ pc = "handler" => interrupts > 0
  /\ pc \in {"attach", "attached"} => g_sig = 0 /\ first = 0 /\ state = NoStatus
  /\ state.kind \in {"exit", "kill"} => process = "dead"
  /\ state.kind = "stop" => state.n \in AllSignals

(* While the process lives, the loop passes on what has stopped it, except *)
(* after the attach.                                                       *)
Passing ==
  process # "dead" =>
    /\ pc \in {"store", "print", "cont"} => process \in {"stopped", "group"}
    /\ pc = "store" => state = status
    /\ pc \in {"print", "cont"} /\ process = "stopped" =>
         g_sig = status.n \/ (g_sig = 0 /\ first = status.n)
    /\ pc # "finalCont" /\ (pc = "detach" => interrupts > 0)

(* Every signal that sigmon or the process has to do with was sent.        *)
Was(s) == \E i \in 1 .. Len(sent) : sent[i] = s
Sourced ==
  /\ \A s \in Signals \cap pending : Was(s)
  /\ status.kind = "stop" /\ status.n \in Signals => Was(status.n)
  /\ state.kind = "stop" /\ state.n \in Signals => Was(state.n)
  /\ process # "dead" /\ g_sig \in Signals => Was(g_sig)
  /\ \A i \in 1 .. Len(delivered) : delivered[i] \in Signals => Was(delivered[i])

(* Each run of the handler makes at most one signal take effect instead of *)
(* another; one that has yet to run has made none.                         *)
Bounded ==
  \A s \in Signals :
    Count(delivered, s) + InFlight(s) + One(pc = "handler") <= Count(sent, s) + interrupts

MonInv == TypeOK /\ Kernel /\ MonControl /\ Passing /\ Sourced /\ Bounded /\ Transparent

-----------------------------------------------------------------------------
(* Counting. *)

LEMMA CountIsNat ==
  ASSUME NEW S, NEW seq \in Seq(S), NEW s PROVE Count(seq, s) \in Nat
<1>1. Len(seq) \in Nat
  OBVIOUS
<1>2. IsFiniteSet(1 .. Len(seq))
  BY <1>1, FS_Interval
<1>3. IsFiniteSet({i \in 1 .. Len(seq) : seq[i] = s})
  BY <1>2, FS_Subset
<1> QED
  BY <1>3, FS_CardinalityType DEF Count

LEMMA CountAppend ==
  ASSUME NEW S, NEW seq \in Seq(S), NEW x \in S, NEW s
  PROVE  Count(Append(seq, x), s) = Count(seq, s) + One(x = s)
<1> DEFINE Places == {i \in 1 .. Len(seq) : seq[i] = s}
           After  == {i \in 1 .. Len(Append(seq, x)) : Append(seq, x)[i] = s}
<1>1. Len(seq) \in Nat /\ Len(Append(seq, x)) = Len(seq) + 1
  OBVIOUS
<1>2. /\ \A i \in 1 .. Len(seq) : Append(seq, x)[i] = seq[i]
      /\ Append(seq, x)[Len(seq) + 1] = x
  OBVIOUS
<1>3. IsFiniteSet(Places) /\ Len(seq) + 1 \notin Places
  <2>1. IsFiniteSet(1 .. Len(seq))
    BY <1>1, FS_Interval
  <2> QED
    BY <1>1, <2>1, FS_Subset
<1>4. Cardinality(Places) \in Nat
  BY <1>3, FS_CardinalityType
<1>5. CASE x = s
  <2>1. After = Places \cup {Len(seq) + 1}
    BY <1>1, <1>2, <1>5
  <2>2. Cardinality(After) = Cardinality(Places) + 1
    BY <1>3, <2>1, FS_AddElement
  <2> QED
    BY <1>5, <2>2 DEF Count, One
<1>6. CASE x # s
  <2>1. After = Places
    BY <1>1, <1>2, <1>6
  <2>2. One(x = s) = 0
    BY <1>6 DEF One
  <2>3. Count(Append(seq, x), s) = Cardinality(Places) /\ Count(seq, s) = Cardinality(Places)
    BY <2>1 DEF Count
  <2> QED
    BY <1>4, <2>2, <2>3
<1> QED
  BY <1>5, <1>6

(* What is counted stands somewhere.                                       *)
LEMMA CountOfNone ==
  ASSUME NEW S, NEW seq \in Seq(S), NEW s, \A i \in 1 .. Len(seq) : seq[i] # s
  PROVE  Count(seq, s) = 0
<1>1. {i \in 1 .. Len(seq) : seq[i] = s} = {}
  OBVIOUS
<1> QED
  BY <1>1, FS_EmptySet DEF Count

LEMMA CountOfEmpty == \A s : Count(<<>>, s) = 0
<1> SUFFICES ASSUME NEW s PROVE Count(<<>>, s) = 0
  OBVIOUS
<1>1. <<>> \in Seq({}) /\ Len(<<>>) = 0
  BY EmptySeq
<1>2. \A i \in 1 .. Len(<<>>) : <<>>[i] # s
  BY <1>1
<1> QED
  BY <1>1, <1>2, CountOfNone

LEMMA CountOfSome ==
  ASSUME NEW S, NEW seq \in Seq(S), NEW i \in 1 .. Len(seq)
  PROVE  Count(seq, seq[i]) > 0
<1> DEFINE Places == {j \in 1 .. Len(seq) : seq[j] = seq[i]}
<1>1. IsFiniteSet(Places)
  <2>1. Len(seq) \in Nat
    OBVIOUS
  <2>2. IsFiniteSet(1 .. Len(seq))
    BY <2>1, FS_Interval
  <2> QED
    BY <2>2, FS_Subset
<1>2. Places # {}
  OBVIOUS
<1>3. Cardinality(Places) \in Nat /\ Cardinality(Places) # 0
  BY <1>1, <1>2, FS_EmptySet, FS_CardinalityType
<1> QED
  BY <1>3 DEF Count

Pends(s) == One(s \in pending)
Holds(s) == One(process = "stopped" /\ status.n = s)

LEMMA Ones == \A b \in BOOLEAN : One(b) \in {0, 1}
  BY DEF One

LEMMA InFlightParts ==
  ASSUME NEW s
  PROVE  InFlight(s) = Pends(s) + Holds(s) /\ Pends(s) \in 0 .. 1 /\ Holds(s) \in 0 .. 1
  BY DEF InFlight, Pends, Holds, One
-----------------------------------------------------------------------------
(* What the kernel does. *)

LEMMA Constants ==
  /\ 0 \notin AllSignals /\ SIGSTOP \in AllSignals /\ SIGSTOP \notin Signals
  /\ Signals \subseteq AllSignals /\ Deadly \subseteq Signals
  BY ConstantsOK DEF ConstantsOK, AllSignals

(* A signal that takes effect leaves the process in one of three states.   *)
LEMMA DeliverEffect ==
  ASSUME TypeOK, NEW sig, Deliver(sig)
  PROVE  /\ sig \in AllSignals /\ delivered' = Append(delivered, sig)
         /\ process' \in {"runs", "group", "dead"} /\ waitable' \in BOOLEAN /\ status' \in Statuses
         /\ process' = "runs" => status' = status /\ waitable' = FALSE
         /\ process' = "group" => status' = [kind |-> "stop", n |-> SIGSTOP]
         /\ process' = "dead" => status'.kind = "kill"
         /\ delivered' \in Seq(AllSignals)
<1>1. sig \in AllSignals /\ delivered' = Append(delivered, sig)
  BY Constants DEF Deliver
<1>2. delivered' \in Seq(AllSignals)
  BY <1>1, AppendProperties DEF TypeOK
<1>3. CASE sig = SIGSTOP /\ Becomes("group", [kind |-> "stop", n |-> sig], TRUE)
  <2>1. [kind |-> "stop", n |-> sig] \in Statuses
    BY <1>1 DEF Statuses
  <2> QED
    BY <1>1, <1>2, <1>3, <2>1 DEF Becomes
<1>4. CASE sig \in Deadly /\ Becomes("dead", [kind |-> "kill", n |-> sig], TRUE)
  <2>1. [kind |-> "kill", n |-> sig] \in Statuses
    BY <1>1 DEF Statuses
  <2> QED
    BY <1>1, <1>2, <1>4, <2>1 DEF Becomes
<1>5. CASE sig \in Signals \ Deadly /\ Becomes("runs", status, FALSE)
  BY <1>1, <1>2, <1>5 DEF Becomes, TypeOK
<1> QED
  BY <1>3, <1>4, <1>5 DEF Deliver

(* PTRACE_CONT passes on a signal, or drops it, or does nothing.           *)
Passes(sig) == process = "stopped" /\ Deliver(sig)
Drops == /\ process \in {"stopped", "group"} /\ process' = "runs"
         /\ status' = status /\ waitable' = FALSE /\ delivered' = delivered
Leaves == UNCHANGED <<process, status, waitable, delivered>>

LEMMA ContinueEffect ==
  ASSUME NEW sig, Continue(sig)
  PROVE  /\ UNCHANGED <<traced, pending, sent>>
         /\ (sig # 0 /\ Passes(sig)) \/ (Drops /\ (process = "group" \/ sig = 0)) \/ Leaves
  BY DEF Continue, Stopped, Resume, Becomes, Passes, Drops, Leaves

LEMMA DetachEffect ==
  ASSUME Detach
  PROVE  UNCHANGED <<pending, sent>> /\ traced' \in {FALSE, traced} /\ (Drops \/ Leaves)
  BY DEF Detach, Stopped, Resume, Becomes, Drops, Leaves, procVars

(* A signal stops the process, or takes effect at once.                    *)
LEMMA TakeEffect ==
  ASSUME TypeOK, TakeSignal
  PROVE  \E s \in pending :
           /\ process = "runs" /\ pending' = pending \ {s}
           /\ UNCHANGED <<pc, state, g_sig, first, interrupts, traced, sent>>
           /\ \/ /\ process' = "stopped" /\ status' = [kind |-> "stop", n |-> s]
                 /\ waitable' = TRUE /\ delivered' = delivered
              \/ Deliver(s)
  BY DEF TakeSignal, Becomes, monVars

LEMMA SendEffect ==
  ASSUME TypeOK, SendSignal
  PROVE  \E s \in Signals :
           /\ s \notin pending /\ pending' = pending \cup {s} /\ sent' = Append(sent, s)
           /\ process # "dead"
           /\ UNCHANGED <<pc, state, g_sig, first, interrupts, traced, process, status,
                          waitable, delivered>>
  BY DEF SendSignal, monVars, procVars

LEMMA ExitEffect ==
  ASSUME TypeOK, ProcessExits
  PROVE  /\ process = "runs" /\ process' = "dead" /\ waitable' = TRUE
         /\ status' \in Statuses /\ status'.kind = "exit"
         /\ UNCHANGED <<pc, state, g_sig, first, interrupts, traced, pending, sent, delivered>>
  BY DEF ProcessExits, Becomes, monVars, TypeOK, Statuses

-----------------------------------------------------------------------------
(* Types. *)

Processes == {"runs", "stopped", "group", "dead"}

LEMMA KeepsTypes ==
  ASSUME TypeOK, Drops \/ Leaves \/ (\E sig \in AllSignals : Passes(sig))
  PROVE  /\ process' \in Processes /\ status' \in Statuses /\ waitable' \in BOOLEAN
         /\ delivered' \in Seq(AllSignals)
<1>1. CASE Drops
  BY <1>1 DEF TypeOK, Drops, Processes
<1>2. CASE Leaves
  BY <1>2 DEF TypeOK, Leaves, Processes
<1>3. CASE \E sig \in AllSignals : Passes(sig)
  <2>1. PICK sig \in AllSignals : Deliver(sig)
    BY <1>3 DEF Passes
  <2> QED
    BY <2>1, DeliverEffect DEF Processes
<1> QED
  BY <1>1, <1>2, <1>3

LEMMA MonInitInv == Init => MonInv
<1> SUFFICES ASSUME Init PROVE MonInv
  OBVIOUS
<1> USE DEF Init
<1>1. TypeOK
  <2>1. NoStatus \in Statuses
    BY DEF NoStatus, Statuses
  <2>2. /\ interrupts \in 0 .. MaxInterrupts /\ pending \subseteq AllSignals
        /\ sent \in Seq(Signals) /\ delivered \in Seq(AllSignals)
    BY ConstantsOK, EmptySeq DEF ConstantsOK
  <2> QED
    BY <2>1, <2>2 DEF TypeOK
<1>2. Kernel /\ MonControl /\ Passing
  BY DEF Kernel, MonControl, Passing, NoStatus
<1>3. Sourced
  BY Constants DEF Sourced, NoStatus
<1>4. ASSUME NEW s \in Signals PROVE Count(sent, s) = Count(delivered, s) + InFlight(s)
  <2>1. Count(<<>>, s) = 0
    BY CountOfEmpty
  <2>2. InFlight(s) = 0
    BY DEF InFlight, One
  <2> QED
    BY <2>1, <2>2
<1>5. Bounded
  <2>1. ASSUME NEW s \in Signals PROVE Count(delivered, s) = 0 /\ Count(sent, s) = 0 /\ InFlight(s) = 0
    BY CountOfEmpty DEF InFlight, One
  <2>2. One(pc = "handler") = 0
    BY DEF One
  <2> QED
    BY <2>1, <2>2 DEF Bounded
<1> QED
  BY <1>1, <1>2, <1>3, <1>4, <1>5 DEF MonInv, Transparent

LEMMA NextTypes ==
  ASSUME TypeOK, Kernel, [Next]_vars
  PROVE  TypeOK'
<1>t. /\ pc' \in {"attach", "attached", "cont", "wait", "store", "print", "finalCont",
                  "handler", "detach", "leave", "exit"}
  BY DEF TypeOK, Next, Monitor, Attach, AttachWait, Cont, Wait, Store, PrintSignal, AfterPrint,
     FinalCont, HandlerCont, DetachProcess, Leave, Interrupt, SendSignal, TakeSignal,
     ProcessExits, monVars, vars
<1>1. CASE Attach
  BY <1>t, <1>1, Constants DEF Attach, TypeOK
<1>2. CASE AttachWait
  <2>1. status.kind = "stop" => status.n \in AllSignals
    BY <1>2 DEF AttachWait, Kernel, TypeOK
  <2> QED
    BY <1>t, <1>2, <2>1 DEF AttachWait, TypeOK
<1>3. CASE Cont
  BY <1>t, <1>3, ContinueEffect, DeliverEffect, KeepsTypes DEF Cont, TypeOK, Passes, Processes
<1>4. CASE Wait
  BY <1>t, <1>4 DEF Wait, TypeOK
<1>5. CASE Store
  BY <1>t, <1>5 DEF Store, TypeOK, WSTOPSIG, Statuses, procVars
<1>6. CASE PrintSignal
  BY <1>t, <1>6 DEF PrintSignal, TypeOK, procVars
<1>7. CASE FinalCont
  BY <1>t, <1>7, ContinueEffect, DeliverEffect, KeepsTypes DEF FinalCont, TypeOK, Passes, Processes
<1>8. CASE HandlerCont
  BY <1>t, <1>8, ContinueEffect, DeliverEffect, KeepsTypes DEF HandlerCont, TypeOK, Passes, Processes
<1>9. CASE DetachProcess
  BY <1>t, <1>9, DetachEffect, KeepsTypes DEF DetachProcess, TypeOK, Processes
<1>10. CASE Leave
  <2>1. Leaves \/ (\E sig \in AllSignals : Passes(sig))
    BY <1>10, DeliverEffect DEF Leave, Leaves, Passes
  <2> QED
    BY <1>t, <1>10, <2>1, KeepsTypes DEF Leave, TypeOK, Processes
<1>11. CASE Interrupt
  <2>1. interrupts' \in 0 .. MaxInterrupts
    BY <1>11, ConstantsOK DEF ConstantsOK, Interrupt, TypeOK
  <2> QED
    BY <1>t, <1>11, <2>1 DEF Interrupt, TypeOK, procVars
<1>12. CASE SendSignal
  BY <1>t, <1>12, SendEffect, Constants DEF TypeOK
<1>13. CASE TakeSignal
  <2>1. PICK s \in pending :
           /\ process = "runs" /\ pending' = pending \ {s}
           /\ UNCHANGED <<pc, state, g_sig, first, interrupts, traced, sent>>
           /\ \/ /\ process' = "stopped" /\ status' = [kind |-> "stop", n |-> s]
                 /\ waitable' = TRUE /\ delivered' = delivered
              \/ Deliver(s)
    BY <1>13, TakeEffect
  <2>2. [kind |-> "stop", n |-> s] \in Statuses
    BY DEF TypeOK, Statuses
  <2>3. /\ process' \in Processes /\ status' \in Statuses /\ waitable' \in BOOLEAN
        /\ delivered' \in Seq(AllSignals)
    <3>1. CASE Deliver(s)
      BY <3>1, DeliverEffect DEF Processes
    <3> QED
      BY <2>1, <2>2, <3>1 DEF TypeOK, Processes
  <2> QED
    BY <1>t, <2>1, <2>3 DEF TypeOK, Processes
<1>14. CASE ProcessExits
  BY <1>t, <1>14, ExitEffect DEF TypeOK
<1>15. CASE UNCHANGED vars
  BY <1>15 DEF vars, TypeOK
<1> QED
  BY <1>1, <1>2, <1>3, <1>4, <1>5, <1>6, <1>7, <1>8, <1>9, <1>10, <1>11, <1>12, <1>13, <1>14,
     <1>15 DEF Next, Monitor

-----------------------------------------------------------------------------
(* The process and its status. *)

Moves == Drops \/ Leaves \/ (\E sig \in AllSignals : Passes(sig))
Stays == UNCHANGED <<process, status, delivered>> /\ waitable' \in {FALSE, waitable}

(* sigmon's steps move the process on or leave it alone.                   *)
LEMMA ContinueMoves ==
  ASSUME TypeOK, NEW sig, Continue(sig) PROVE Moves
  BY ContinueEffect, DeliverEffect DEF Moves, Passes

LEMMA NextMoves ==
  ASSUME TypeOK, [Next]_vars
  PROVE  Moves \/ Stays \/ TakeSignal \/ ProcessExits
<1>1. CASE Cont \/ FinalCont \/ HandlerCont
  BY <1>1, ContinueMoves DEF Cont, FinalCont, HandlerCont
<1>2. CASE DetachProcess
  BY <1>2, DetachEffect DEF DetachProcess, Moves
<1>3. CASE Leave
  BY <1>3, DeliverEffect DEF Leave, Moves, Leaves, Passes
<1>4. CASE Attach \/ AttachWait \/ Wait \/ Store \/ PrintSignal \/ Interrupt \/ UNCHANGED vars
  BY <1>4 DEF Attach, AttachWait, Wait, Store, PrintSignal, Interrupt, procVars, vars, Stays
<1>5. CASE SendSignal
  BY <1>5 DEF SendSignal, procVars, Stays
<1> QED
  BY <1>1, <1>2, <1>3, <1>4, <1>5 DEF Next, Monitor

LEMMA PassesKernel ==
  ASSUME TypeOK, Kernel, NEW sig, Deliver(sig) PROVE Kernel'
<1>1. CASE process' = "runs"
  BY <1>1, DeliverEffect DEF Kernel
<1>2. CASE process' = "group"
  <2>1. status' = [kind |-> "stop", n |-> SIGSTOP]
    BY <1>2, DeliverEffect
  <2>2. status'.kind = "stop" /\ status'.n \in AllSignals
    BY <2>1, Constants
  <2> QED
    BY <1>2, <2>2 DEF Kernel
<1>3. CASE process' = "dead"
  <2>1. status'.kind = "kill"
    BY <1>3, DeliverEffect
  <2> QED
    BY <1>3, <2>1 DEF Kernel
<1> QED
  BY <1>1, <1>2, <1>3, DeliverEffect

LEMMA NextKernel ==
  ASSUME TypeOK, Kernel, [Next]_vars
  PROVE  Kernel'
<1>1. CASE Drops
  BY <1>1 DEF Drops, Kernel
<1>2. CASE Leaves \/ Stays
  <2>1. process' = process /\ status' = status /\ waitable' \in {FALSE, waitable}
    BY <1>2 DEF Leaves, Stays
  <2>2. waitable' => waitable
    BY <2>1 DEF TypeOK
  <2> QED
    BY <2>1, <2>2 DEF Kernel
<1>3. CASE \E sig \in AllSignals : Passes(sig)
  BY <1>3, PassesKernel DEF Passes
<1>4. CASE TakeSignal
  <2>1. PICK s \in pending :
           \/ /\ process' = "stopped" /\ status' = [kind |-> "stop", n |-> s]
              /\ waitable' = TRUE /\ delivered' = delivered
           \/ Deliver(s)
    BY <1>4, TakeEffect
  <2>2. s \in AllSignals
    BY DEF TypeOK
  <2>3. CASE Deliver(s)
    BY <2>3, PassesKernel
  <2> QED
    BY <2>1, <2>2, <2>3 DEF Kernel
<1>5. CASE ProcessExits
  BY <1>5, ExitEffect DEF Kernel
<1> QED
  BY <1>1, <1>2, <1>3, <1>4, <1>5, NextMoves DEF Moves

(* The dead stay dead.                                                     *)
LEMMA DeadStays ==
  ASSUME TypeOK, [Next]_vars, process = "dead"
  PROVE  process' = "dead"
<1>1. ~TakeSignal /\ ~ProcessExits
  BY TakeEffect, ExitEffect
<1>2. CASE Moves
  BY <1>2 DEF Moves, Drops, Leaves, Passes
<1>3. CASE Stays
  BY <1>3 DEF Stays
<1> QED
  BY <1>1, <1>2, <1>3, NextMoves

-----------------------------------------------------------------------------
(* sigmon. *)

LEMMA MonNextControl ==
  ASSUME TypeOK, Kernel, MonControl, [Next]_vars
  PROVE  MonControl'
<1>1. interrupts' > 0 => pc' \in {"handler", "detach", "leave", "exit"}
  <2>1. CASE Interrupt
    BY <2>1 DEF Interrupt
  <2>2. CASE Monitor
    <3>1. interrupts' = interrupts
      BY <2>2 DEF Monitor, Attach, AttachWait, Cont, Wait, Store, PrintSignal,
         FinalCont, HandlerCont, DetachProcess, Leave
    <3>2. pc \in {"handler", "detach", "leave", "exit"} =>
            pc' \in {"handler", "detach", "leave", "exit"}
      BY <2>2 DEF Monitor, Attach, AttachWait, Cont, Wait, Store, PrintSignal,
         FinalCont, HandlerCont, DetachProcess, Leave
    <3> QED
      BY <3>1, <3>2 DEF MonControl
  <2>3. CASE SendSignal \/ TakeSignal \/ ProcessExits \/ UNCHANGED vars
    BY <2>3 DEF SendSignal, TakeSignal, ProcessExits, monVars, vars, MonControl
  <2> QED
    BY <2>1, <2>2, <2>3 DEF Next
<1>7. pc' = "handler" => interrupts' > 0
  <2>1. CASE Interrupt
    BY <2>1 DEF Interrupt, TypeOK
  <2>2. CASE ~Interrupt
    <3>1. pc' = "handler" => pc = "handler" /\ interrupts' = interrupts
      BY <2>2 DEF Next, Monitor, Attach, AttachWait, Cont, Wait, Store, PrintSignal, AfterPrint,
         FinalCont, HandlerCont, DetachProcess, Leave, SendSignal, TakeSignal,
         ProcessExits, monVars, vars
    <3> QED
      BY <3>1 DEF MonControl
  <2> QED
    BY <2>1, <2>2
<1>2. pc' \in {"attach", "attached"} => g_sig' = 0 /\ first' = 0 /\ state' = NoStatus
  BY DEF Next, Monitor, Attach, AttachWait, Cont, Wait, Store, PrintSignal, AfterPrint,
     FinalCont, HandlerCont, DetachProcess, Leave, Interrupt, SendSignal, TakeSignal,
     ProcessExits, monVars, vars, MonControl
<1>3. state' = state \/ (state' = status /\ waitable /\ (AttachWait \/ Wait))
  BY DEF Next, Monitor, Attach, AttachWait, Cont, Wait, Store, PrintSignal,
     FinalCont, HandlerCont, DetachProcess, Leave, Interrupt, SendSignal, TakeSignal,
     ProcessExits, monVars, vars
<1>4. waitable => \/ process \in {"stopped", "group"} /\ status.kind = "stop"
                                                   /\ status.n \in AllSignals
                  \/ process = "dead" /\ status.kind \in {"exit", "kill"}
  BY DEF Kernel, TypeOK
<1>5. state'.kind \in {"exit", "kill"} => process' = "dead"
  BY <1>3, <1>4, DeadStays DEF MonControl
<1>6. state'.kind = "stop" => state'.n \in AllSignals
  BY <1>3, <1>4 DEF MonControl
<1> QED
  BY <1>1, <1>2, <1>5, <1>6, <1>7 DEF MonControl

LEMMA NextPassing ==
  ASSUME TypeOK, Kernel, MonControl, Passing, [Next]_vars
  PROVE  Passing'
<1> SUFFICES ASSUME process' # "dead" PROVE Passing'
  BY DEF Passing
<1>0. process # "dead"
  BY DeadStays
<1>p. /\ pc \in {"store", "print", "cont"} => process \in {"stopped", "group"}
      /\ pc = "store" => state = status
      /\ pc \in {"print", "cont"} /\ process = "stopped" =>
           g_sig = status.n \/ (g_sig = 0 /\ first = status.n)
      /\ pc # "finalCont" /\ (pc = "detach" => interrupts > 0)
  BY <1>0 DEF Passing
<1>k. /\ process \in {"stopped", "group"} => status.kind = "stop" /\ status.n \in AllSignals
      /\ waitable => process # "runs"
  BY DEF Kernel
<1>1. CASE Attach
  BY <1>1 DEF Attach, Passing
<1>2. CASE AttachWait
  <2>1. process \in {"stopped", "group"} /\ status.kind = "stop"
    BY <1>0, <1>2, <1>k DEF AttachWait, TypeOK
  <2>2. pc' = "cont" /\ first' = status.n /\ UNCHANGED <<g_sig, process, status>> /\ g_sig = 0
    BY <1>2, <2>1 DEF AttachWait, MonControl
  <2> QED
    BY <2>1, <2>2 DEF Passing
<1>3. CASE Cont
  BY <1>3 DEF Cont, Passing
<1>4. CASE Wait
  <2>1. /\ waitable /\ process \in {"stopped", "group"}
        /\ state' = status /\ UNCHANGED <<process, status>> /\ pc' = "store"
    BY <1>0, <1>4, <1>k DEF Wait, TypeOK
  <2> QED
    BY <2>1 DEF Passing
<1>5. CASE Store
  <2>1. state = status /\ state.kind = "stop" /\ status.n # 0
    BY <1>5, <1>p, <1>k, Constants DEF Store
  <2>2. WSTOPSIG(state) = status.n
    BY <2>1 DEF WSTOPSIG
  <2>3. /\ g_sig' = status.n /\ pc' = "print" /\ UNCHANGED <<process, status>>
        /\ process \in {"stopped", "group"}
    BY <1>5, <1>p, <2>1, <2>2 DEF Store, procVars
  <2> QED
    BY <2>3 DEF Passing
<1>6. CASE PrintSignal
  <2>1. pc = "print" /\ pc' = "cont" /\ UNCHANGED <<g_sig, first, process, status>>
    BY <1>6 DEF PrintSignal, AfterPrint, procVars
  <2> QED
    BY <2>1, <1>p DEF Passing
<1>7. CASE FinalCont
  BY <1>7, <1>p DEF FinalCont
<1>8. CASE HandlerCont
  <2>1. pc' = "detach" /\ pc = "handler" /\ interrupts' = interrupts
    BY <1>8 DEF HandlerCont
  <2>2. interrupts > 0
    BY <2>1 DEF MonControl
  <2> QED
    BY <2>1, <2>2 DEF Passing
<1>9. CASE DetachProcess \/ Leave
  BY <1>9 DEF DetachProcess, Leave, Passing
<1>11. CASE Interrupt
  BY <1>11 DEF Interrupt, Passing
<1>12. CASE SendSignal
  <2>1. UNCHANGED <<pc, state, g_sig, first, interrupts, process, status>>
    BY <1>12 DEF SendSignal, monVars, procVars
  <2> QED
    BY <2>1, <1>p DEF Passing
<1>13. CASE TakeSignal
  <2>1. process = "runs" /\ UNCHANGED <<pc, state, g_sig, first, interrupts>>
    BY <1>13 DEF TakeSignal, monVars
  <2> QED
    BY <2>1, <1>p DEF Passing
<1>15. CASE UNCHANGED vars
  BY <1>15, <1>p DEF vars, Passing
<1> QED
  BY <1>1, <1>2, <1>3, <1>4, <1>5, <1>6, <1>7, <1>8, <1>9, <1>11, <1>12, <1>13,
     <1>15, ExitEffect DEF Next, Monitor
-----------------------------------------------------------------------------
(* Where signals come from. *)

LEMMA WasKept ==
  ASSUME TypeOK, [Next]_vars, NEW s, Was(s)
  PROVE  Was(s)'
<1>1. CASE SendSignal
  <2>1. PICK x \in Signals : sent' = Append(sent, x)
    BY <1>1, SendEffect
  <2>2. PICK i \in 1 .. Len(sent) : sent[i] = s
    BY DEF Was
  <2>3. i \in 1 .. Len(sent') /\ sent'[i] = s
    BY <2>1, <2>2 DEF TypeOK
  <2> QED
    BY <2>3 DEF Was
<1>2. CASE ~SendSignal
  <2>1. sent' = sent
    BY <1>2, ContinueEffect, DetachEffect DEF Next, Monitor, Attach, AttachWait, Cont, Wait, Store,
       PrintSignal, FinalCont, HandlerCont, DetachProcess, Leave, Interrupt, TakeSignal,
       ProcessExits, vars
  <2> QED
    BY <2>1 DEF Was
<1> QED
  BY <1>1, <1>2

(* Only what was sent takes effect.                                        *)
LEMMA NextDelivered ==
  ASSUME TypeOK, Kernel, Sourced, [Next]_vars
  PROVE  \/ delivered' = delivered
         \/ \E sig \in AllSignals : /\ delivered' = Append(delivered, sig)
                                    /\ sig \in Signals => Was(sig)
<1>1. ASSUME NEW sig, Passes(sig), sig = g_sig \/ sig = status.n
      PROVE  sig \in AllSignals /\ delivered' = Append(delivered, sig) /\ (sig \in Signals => Was(sig))
  <2>1. process = "stopped" /\ sig \in AllSignals /\ delivered' = Append(delivered, sig)
    BY <1>1, DeliverEffect DEF Passes
  <2>2. sig \in Signals => Was(sig)
    BY <1>1, <2>1 DEF Sourced, Kernel
  <2> QED
    BY <2>1, <2>2
<1>2. ASSUME NEW sig, Continue(sig), sig = g_sig \/ sig = 0
      PROVE  delivered' = delivered \/ (Passes(sig) /\ sig = g_sig)
  BY <1>2, ContinueEffect DEF Drops, Leaves
<1>3. CASE Cont \/ FinalCont \/ HandlerCont
  BY <1>1, <1>2, <1>3 DEF Cont, FinalCont, HandlerCont, Forwarded, Passed
<1>4. CASE DetachProcess
  BY <1>4, DetachEffect DEF DetachProcess, Drops, Leaves
<1>5. CASE Leave
  BY <1>1, <1>5 DEF Leave, Passes
<1>6. CASE TakeSignal
  <2>1. PICK s \in pending : delivered' = delivered \/ Deliver(s)
    BY <1>6, TakeEffect
  <2> QED
    BY <2>1, DeliverEffect DEF Sourced
<1>7. CASE Attach \/ AttachWait \/ Wait \/ Store \/ PrintSignal \/ Interrupt \/ SendSignal
           \/ ProcessExits \/ UNCHANGED vars
  BY <1>7 DEF Attach, AttachWait, Wait, Store, PrintSignal, Interrupt, SendSignal, ProcessExits,
     procVars, vars
<1> QED
  BY <1>3, <1>4, <1>5, <1>6, <1>7 DEF Next, Monitor

LEMMA NextSourced ==
  ASSUME TypeOK, Kernel, MonControl, Passing, Sourced, [Next]_vars
  PROVE  Sourced'
<1>1. ASSUME NEW s \in Signals, s \in pending' PROVE Was(s)'
  <2>1. CASE SendSignal
    <3>1. PICK x \in Signals : pending' = pending \cup {x} /\ sent' = Append(sent, x)
      BY <2>1, SendEffect
    <3>2. CASE s = x
      <4>1. Len(sent) + 1 \in 1 .. Len(sent') /\ sent'[Len(sent) + 1] = x
        BY <3>1 DEF TypeOK
      <4> QED
        BY <3>2, <4>1 DEF Was
    <3> QED
      BY <1>1, <3>1, <3>2, WasKept DEF Sourced
  <2>2. CASE ~SendSignal
    <3>1. pending' \subseteq pending \cup {SIGSTOP}
      BY <2>2, ContinueEffect, DetachEffect DEF Next, Monitor, Attach, AttachWait, Cont, Wait, Store,
         PrintSignal, FinalCont, HandlerCont, DetachProcess, Leave, Interrupt, TakeSignal,
         ProcessExits, vars
    <3> QED
      BY <1>1, <3>1, Constants, WasKept DEF Sourced
  <2> QED
    BY <2>1, <2>2
<1>2. ASSUME NEW x \in Signals, status'.kind = "stop", status'.n = x PROVE Was(x)'
  <2>0. ASSUME NEW sig, Deliver(sig)
        PROVE  \/ status' = status \/ status' = [kind |-> "stop", n |-> SIGSTOP]
               \/ status'.kind = "kill"
    BY <2>0, DeliverEffect
  <2>1. \/ status' = status \/ status' = [kind |-> "stop", n |-> SIGSTOP]
        \/ status'.kind \in {"exit", "kill"}
        \/ \E s \in pending : status' = [kind |-> "stop", n |-> s]
    <3>1. CASE Moves
      BY <2>0, <3>1 DEF Moves, Drops, Leaves, Passes
    <3>2. CASE Stays \/ ProcessExits
      BY <3>2, ExitEffect DEF Stays
    <3>3. CASE TakeSignal
      BY <2>0, <3>3, TakeEffect
    <3> QED
      BY <3>1, <3>2, <3>3, NextMoves
  <2> QED
    BY <1>2, <2>1, WasKept, Constants DEF Sourced
<1>3. ASSUME NEW x \in Signals, state'.kind = "stop", state'.n = x PROVE Was(x)'
  <2>1. state' = state \/ state' = status
    BY DEF Next, Monitor, Attach, AttachWait, Cont, Wait, Store, PrintSignal,
       FinalCont, HandlerCont, DetachProcess, Leave, Interrupt, SendSignal, TakeSignal,
       ProcessExits, monVars, vars
  <2> QED
    BY <1>3, <2>1, WasKept DEF Sourced
<1>4. ASSUME NEW x \in Signals, process' # "dead", g_sig' = x PROVE Was(x)'
  <2>1. g_sig' = g_sig \/ g_sig' = WSTOPSIG(state)
    BY DEF Next, Monitor, Attach, AttachWait, Cont, Wait, Store, PrintSignal,
       FinalCont, HandlerCont, DetachProcess, Leave, Interrupt, SendSignal, TakeSignal,
       ProcessExits, monVars, vars
  <2>2. process' # "dead" => process # "dead" /\ state.kind # "exit"
    BY DeadStays DEF MonControl
  <2>3. state.kind # "exit" => WSTOPSIG(state) = 0 \/ (state.kind = "stop" /\ WSTOPSIG(state) = state.n)
    BY DEF WSTOPSIG
  <2> QED
    BY <1>4, <2>1, <2>2, <2>3, WasKept, Constants DEF Sourced
<1>5. ASSUME NEW x \in Signals, NEW i \in 1 .. Len(delivered'), delivered'[i] = x PROVE Was(x)'
  <2>1. CASE delivered' = delivered
    BY <1>5, <2>1, WasKept DEF Sourced
  <2>2. ASSUME NEW sig \in AllSignals, delivered' = Append(delivered, sig), sig \in Signals => Was(sig)
        PROVE  Was(x)'
    <3>1. delivered'[i] = sig \/ (i \in 1 .. Len(delivered) /\ delivered'[i] = delivered[i])
      BY <2>2 DEF TypeOK
    <3> QED
      BY <1>5, <2>2, <3>1, WasKept DEF Sourced
  <2> QED
    BY <2>1, <2>2, NextDelivered
<1>6. \A s \in Signals \cap pending' : Was(s)'
  BY <1>1
<1>7. status'.kind = "stop" /\ status'.n \in Signals => (Was(status.n))'
  BY <1>2 DEF Was
<1>8. state'.kind = "stop" /\ state'.n \in Signals => (Was(state.n))'
  BY <1>3 DEF Was
<1>9. process' # "dead" /\ g_sig' \in Signals => (Was(g_sig))'
  BY <1>4 DEF Was
<1>10. (\A i \in 1 .. Len(delivered) : delivered[i] \in Signals => Was(delivered[i]))'
  BY <1>5 DEF Was
<1> QED
  BY <1>6, <1>7, <1>8, <1>9, <1>10 DEF Sourced
-----------------------------------------------------------------------------
(* The account of a signal: how often it was sent, took effect, and is on  *)
(* its way.                                                                *)

Took(s) == Count(delivered, s)
SentOf(s) == Count(sent, s)

LEMMA AccountTypes ==
  ASSUME TypeOK, NEW s
  PROVE  /\ Took(s) \in Nat /\ SentOf(s) \in Nat /\ InFlight(s) \in Nat
         /\ Pends(s) \in 0 .. 1 /\ Holds(s) \in 0 .. 1 /\ InFlight(s) = Pends(s) + Holds(s)
  BY CountIsNat, InFlightParts DEF TypeOK, Took, SentOf

LEMMA TookAfter ==
  ASSUME TypeOK, NEW s, NEW sig, Deliver(sig)
  PROVE  Took(s)' = Took(s) + One(sig = s)
<1>1. sig \in AllSignals /\ delivered' = Append(delivered, sig) /\ delivered \in Seq(AllSignals)
  BY DeliverEffect DEF TypeOK
<1>2. Count(Append(delivered, sig), s) = Count(delivered, s) + One(sig = s)
  BY <1>1, CountAppend
<1> QED
  BY <1>1, <1>2 DEF Took

LEMMA AfterTypes ==
  ASSUME TypeOK', NEW s
  PROVE  Took(s)' \in Nat /\ SentOf(s)' \in Nat /\ InFlight(s)' \in Nat
<1>1. Took(s)' \in Nat /\ SentOf(s)' \in Nat
  BY CountIsNat DEF TypeOK, Took, SentOf
<1>2. InFlight(s)' \in Nat
  BY DEF InFlight, One
<1> QED
  BY <1>1, <1>2

LEMMA FlightAfter == ASSUME NEW s PROVE InFlight(s)' = Pends(s)' + Holds(s)'
  BY DEF InFlight, Pends, Holds

(* Nothing is gained or lost.                                              *)
Even(s) == Took(s)' + InFlight(s)' + SentOf(s) = Took(s) + InFlight(s) + SentOf(s)'

LEMMA EvenIfSame ==
  ASSUME TypeOK, NEW s \in Signals, UNCHANGED <<process, status, delivered, sent>>,
         s \in pending' <=> s \in pending
  PROVE  Even(s)
<1>1. Took(s)' = Took(s) /\ SentOf(s)' = SentOf(s) /\ Holds(s)' = Holds(s) /\ Pends(s)' = Pends(s)
  BY DEF Took, SentOf, Holds, Pends, One
<1> QED
  BY <1>1, AccountTypes, FlightAfter DEF Even

(* The signal that stopped the process takes effect.                       *)
LEMMA EvenIfPassed ==
  ASSUME TypeOK, NEW s \in Signals, Passes(status.n), UNCHANGED <<pending, sent>>
  PROVE  Even(s)
<1>1. Took(s)' = Took(s) + One(status.n = s)
  BY TookAfter DEF Passes
<1>2. SentOf(s)' = SentOf(s) /\ Pends(s)' = Pends(s)
  BY DEF SentOf, Pends
<1>3. Holds(s) = One(status.n = s) /\ Holds(s)' = 0
  <2>1. process = "stopped" /\ process' # "stopped"
    BY DeliverEffect DEF Passes
  <2> QED
    BY <2>1 DEF Holds, One
<1> QED
  BY <1>1, <1>2, <1>3, AccountTypes, FlightAfter DEF Even

(* A process that goes on without its signal loses it.                     *)
LEMMA LostIfDropped ==
  ASSUME TypeOK, NEW s \in Signals, Drops, UNCHANGED <<pending, sent>>
  PROVE  /\ Took(s)' = Took(s) /\ SentOf(s)' = SentOf(s) /\ InFlight(s)' = InFlight(s) - Holds(s)
<1>1. Took(s)' = Took(s) /\ SentOf(s)' = SentOf(s) /\ Pends(s)' = Pends(s)
  BY DEF Drops, Took, SentOf, Pends
<1>2. Holds(s)' = 0
  BY DEF Drops, Holds, One
<1> QED
  BY <1>1, <1>2, AccountTypes, FlightAfter

LEMMA EvenIfSent ==
  ASSUME TypeOK, NEW s \in Signals, SendSignal
  PROVE  Even(s)
<1>1. PICK x \in Signals :
        /\ x \notin pending /\ pending' = pending \cup {x} /\ sent' = Append(sent, x)
        /\ UNCHANGED <<process, status, delivered>>
  BY SendEffect
<1>2. SentOf(s)' = SentOf(s) + One(x = s)
  BY <1>1, CountAppend DEF SentOf, TypeOK
<1>3. Took(s)' = Took(s) /\ Holds(s)' = Holds(s)
  BY <1>1 DEF Took, Holds
<1>4. Pends(s)' = Pends(s) + One(x = s)
  BY <1>1 DEF Pends, One
<1>5. One(x = s) \in 0 .. 1
  BY DEF One
<1> QED
  BY <1>2, <1>3, <1>4, <1>5, AccountTypes, FlightAfter DEF Even

LEMMA EvenIfTaken ==
  ASSUME TypeOK, NEW s \in Signals, TakeSignal
  PROVE  Even(s)
<1>1. PICK x \in pending :
        /\ process = "runs" /\ pending' = pending \ {x} /\ sent' = sent
        /\ \/ process' = "stopped" /\ status' = [kind |-> "stop", n |-> x] /\ delivered' = delivered
           \/ Deliver(x)
  BY TakeEffect
<1>2. SentOf(s)' = SentOf(s) /\ Holds(s) = 0 /\ One(x = s) \in 0 .. 1
  BY <1>1 DEF SentOf, Holds, One
<1>3. Pends(s) = Pends(s)' + One(x = s)
  BY <1>1 DEF Pends, One
<1>4. CASE process' = "stopped" /\ status' = [kind |-> "stop", n |-> x] /\ delivered' = delivered
  <2>1. Took(s)' = Took(s)
    BY <1>4 DEF Took
  <2>2. status'.n = x
    BY <1>4
  <2>3. Holds(s)' = One(x = s)
    BY <1>4, <2>2 DEF Holds, One
  <2>4. Pends(s)' \in 0 .. 1
    BY DEF Pends, One
  <2> QED
    BY <1>2, <1>3, <2>1, <2>3, <2>4, AccountTypes, FlightAfter DEF Even
<1>5. CASE Deliver(x)
  <2>1. Took(s)' = Took(s) + One(x = s)
    BY <1>5, TookAfter
  <2>2. Holds(s)' = 0
    BY <1>5, DeliverEffect DEF Holds, One
  <2>4. Pends(s)' \in 0 .. 1
    BY DEF Pends, One
  <2> QED
    BY <1>2, <1>3, <2>1, <2>2, <2>4, AccountTypes, FlightAfter DEF Even
<1> QED
  BY <1>1, <1>4, <1>5

LEMMA EvenAtExit ==
  ASSUME TypeOK, NEW s \in Signals, ProcessExits
  PROVE  Even(s)
<1>1. process = "runs" /\ process' = "dead" /\ UNCHANGED <<pending, sent, delivered>>
  BY ExitEffect
<1>2. Took(s)' = Took(s) /\ SentOf(s)' = SentOf(s) /\ Pends(s)' = Pends(s)
  BY <1>1 DEF Took, SentOf, Pends
<1>3. Holds(s)' = 0 /\ Holds(s) = 0
  BY <1>1 DEF Holds, One
<1> QED
  BY <1>2, <1>3, AccountTypes, FlightAfter DEF Even

(* Only PTRACE_CONT and PTRACE_DETACH may lose a signal.                   *)
Lets == Cont \/ FinalCont \/ HandlerCont \/ DetachProcess

LEMMA OthersEven ==
  ASSUME TypeOK, NEW s \in Signals, [Next]_vars, ~Lets
  PROVE  Even(s)
<1>1. CASE Attach \/ AttachWait \/ Wait \/ Store \/ PrintSignal \/ Interrupt \/ UNCHANGED vars
  <2>1. UNCHANGED <<process, status, delivered, sent>> /\ pending' \in {pending, pending \cup {SIGSTOP}}
    BY <1>1 DEF Attach, AttachWait, Wait, Store, PrintSignal, Interrupt, procVars, vars
  <2> QED
    BY <2>1, EvenIfSame, Constants
<1>2. CASE Leave
  <2>1. UNCHANGED <<pending, sent>> /\ (Passes(status.n) \/ UNCHANGED <<process, status, delivered>>)
    BY <1>2 DEF Leave, Passes
  <2> QED
    BY <2>1, EvenIfPassed, EvenIfSame
<1> QED
  BY <1>1, <1>2, EvenIfSent, EvenIfTaken, EvenAtExit DEF Next, Monitor, Lets
-----------------------------------------------------------------------------
(* What the loop does to the account.                                      *)

LEMMA ContEven ==
  ASSUME TypeOK, Kernel, Passing, NEW s \in Signals, Cont, first # s
  PROVE  Even(s)
<1>1. Continue(g_sig) /\ pc = "cont"
  BY DEF Cont, Forwarded
<1>2. CASE g_sig # 0 /\ Passes(g_sig)
  <2>1. process = "stopped" /\ process # "dead" /\ UNCHANGED <<pending, sent>>
    BY <1>1, <1>2, ContinueEffect DEF Passes
  <2>2. g_sig = status.n
    BY <1>1, <1>2, <2>1 DEF Passing
  <2> QED
    BY <1>2, <2>1, <2>2, EvenIfPassed
<1>3. CASE Drops /\ (process = "group" \/ g_sig = 0)
  <2>1. UNCHANGED <<pending, sent>> /\ process # "dead"
    BY <1>1, <1>3, ContinueEffect DEF Drops
  <2>2. process = "stopped" => status.n # s
    BY <1>1, <1>3, <2>1, Constants DEF Passing
  <2>3. Holds(s) = 0
    BY <2>2 DEF Holds, One
  <2> QED
    BY <1>3, <2>1, <2>3, LostIfDropped, AccountTypes DEF Even
<1>4. CASE Leaves
  BY <1>1, <1>4, ContinueEffect, EvenIfSame DEF Leaves
<1> QED
  BY <1>1, <1>2, <1>3, <1>4, ContinueEffect

(* Without the handler, nothing is lost once the attach is complete.       *)
LEMMA NextEven ==
  ASSUME TypeOK, Kernel, MonControl, Passing, NEW s \in Signals, [Next]_vars,
         process' # "dead", interrupts' = 0, first' # s
  PROVE  Even(s)
<1>1. CASE Cont
  BY <1>1, ContEven DEF Cont
<1>2. CASE FinalCont
  BY <1>2, DeadStays DEF FinalCont, Passing
<1>3. CASE HandlerCont
  BY <1>3 DEF HandlerCont, MonControl
<1>4. CASE DetachProcess
  BY <1>4, DeadStays DEF DetachProcess, Passing
<1> QED
  BY <1>1, <1>2, <1>3, <1>4, OthersEven DEF Lets

LEMMA InterruptsGrow ==
  ASSUME TypeOK, [Next]_vars
  PROVE  interrupts' = interrupts \/ (Interrupt /\ interrupts' = interrupts + 1)
  BY DEF Next, Monitor, Attach, AttachWait, Cont, Wait, Store, PrintSignal,
     FinalCont, HandlerCont, DetachProcess, Leave, Interrupt, SendSignal, TakeSignal,
     ProcessExits, monVars, vars

LEMMA NextTransparent ==
  ASSUME TypeOK, Kernel, MonControl, Passing, Transparent, [Next]_vars
  PROVE  Transparent'
<1> SUFFICES ASSUME process' # "dead", Undisturbed', NEW s \in Signals
             PROVE  SentOf(s)' = Took(s)' + InFlight(s)'
  BY DEF Transparent, SentOf, Took
<1>1. process # "dead"
  BY DeadStays
<1>2. interrupts' = 0 /\ \A t \in Signals : ~AttachMet(t)'
  BY DEF Undisturbed
<1>3. interrupts = 0
  BY <1>2, InterruptsGrow DEF TypeOK
<1>4. ASSUME NEW t \in Signals PROVE ~AttachMet(t)
  <2>1. first' # t /\ ~(pc' = "attached" /\ process' = "stopped" /\ status'.n = t)
    BY <1>2, <1>4 DEF AttachMet
  <2>2. CASE AttachWait
    <3>1. (process \in {"stopped", "group"} /\ status.kind = "stop") \/ process = "dead"
      BY <2>2 DEF AttachWait, Kernel, TypeOK
    <3>2. first' = status.n /\ first = 0
      BY <1>1, <2>2, <3>1 DEF AttachWait, MonControl
    <3> QED
      BY <1>4, <2>1, <3>2, Constants DEF AttachMet
  <2>3. CASE ~AttachWait
    <3>1. first' = first
      BY <2>3 DEF Next, Monitor, Attach, Cont, Wait, Store, PrintSignal,
         FinalCont, HandlerCont, DetachProcess, Leave, Interrupt, SendSignal, TakeSignal,
         ProcessExits, monVars, vars
    <3>2. pc = "attached" /\ process = "stopped" =>
            pc' = "attached" /\ process' = "stopped" /\ status' = status
      BY <1>2, <2>3 DEF Next, Monitor, Attach, Cont, Wait, Store, PrintSignal,
         FinalCont, HandlerCont, DetachProcess, Leave, Interrupt, SendSignal, TakeSignal,
         ProcessExits, monVars, procVars, vars, TypeOK
    <3> QED
      BY <2>1, <3>1, <3>2 DEF AttachMet
  <2> QED
    BY <2>2, <2>3
<1>5. SentOf(s) = Took(s) + InFlight(s)
  BY <1>1, <1>3, <1>4 DEF Transparent, Undisturbed, SentOf, Took
<1>6. first' # s
  BY <1>2 DEF AttachMet
<1>7. Even(s)
  BY <1>2, <1>6, NextEven
<1>8. SentOf(s)' \in Nat /\ Took(s)' \in Nat /\ InFlight(s)' \in Nat
  <2>1. TypeOK'
    BY NextTypes
  <2> QED
    BY <2>1, AfterTypes
<1> QED
  BY <1>5, <1>7, <1>8, AccountTypes DEF Even
-----------------------------------------------------------------------------
(* What the handler does to the account. *)

Runs == One(pc = "handler")

LEMMA RunsType == Runs \in 0 .. 1 /\ Runs' \in 0 .. 1
  BY DEF Runs, One

(* The handler makes one signal take effect instead of another at most.    *)
LEMMA HandlerAccount ==
  ASSUME TypeOK, NEW s \in Signals, NEW sig, Continue(sig)
  PROVE  /\ Took(s)' \in Nat /\ InFlight(s)' \in Nat /\ SentOf(s)' = SentOf(s)
         /\ Took(s)' + InFlight(s)' <= Took(s) + InFlight(s) + 1
<1>0. UNCHANGED <<pending, sent>>
  BY ContinueEffect
<1>1. SentOf(s)' = SentOf(s) /\ Pends(s)' = Pends(s)
  BY <1>0 DEF SentOf, Pends
<1>2. CASE Passes(sig)
  <2>1. Took(s)' = Took(s) + One(sig = s)
    BY <1>2, TookAfter DEF Passes
  <2>2. Holds(s)' = 0
    BY <1>2, DeliverEffect DEF Passes, Holds, One
  <2>3. One(sig = s) \in 0 .. 1
    BY DEF One
  <2> QED
    BY <1>1, <2>1, <2>2, <2>3, AccountTypes, FlightAfter
<1>3. CASE Drops
  BY <1>0, <1>3, LostIfDropped, AccountTypes
<1>4. CASE Leaves
  <2>1. Took(s)' = Took(s) /\ Holds(s)' = Holds(s)
    BY <1>4 DEF Leaves, Took, Holds
  <2> QED
    BY <1>1, <2>1, AccountTypes, FlightAfter
<1> QED
  BY <1>2, <1>3, <1>4, ContinueEffect

(* The steps of the loop make nothing up.                                  *)
LEMMA LoopAccount ==
  ASSUME TypeOK, Kernel, Passing, NEW s \in Signals, Cont \/ FinalCont \/ DetachProcess
  PROVE  /\ Took(s)' \in Nat /\ InFlight(s)' \in Nat /\ SentOf(s)' = SentOf(s)
         /\ Took(s)' + InFlight(s)' <= Took(s) + InFlight(s)
<1>1. CASE Drops
  <2>1. UNCHANGED <<pending, sent>>
    BY ContinueEffect, DetachEffect DEF Cont, FinalCont, DetachProcess
  <2> QED
    BY <1>1, <2>1, LostIfDropped, AccountTypes
<1>2. CASE Leaves
  <2>1. UNCHANGED <<pending, sent>>
    BY ContinueEffect, DetachEffect DEF Cont, FinalCont, DetachProcess
  <2>2. /\ Took(s)' = Took(s) /\ Holds(s)' = Holds(s) /\ SentOf(s)' = SentOf(s)
        /\ Pends(s)' = Pends(s)
    BY <1>2, <2>1 DEF Leaves, Took, Holds, SentOf, Pends
  <2> QED
    BY <2>2, AccountTypes, FlightAfter
<1>3. CASE Cont /\ ~Drops /\ ~Leaves
  <2>1. g_sig # 0 /\ Passes(g_sig) /\ UNCHANGED <<pending, sent>>
    BY <1>3, ContinueEffect DEF Cont, Forwarded
  <2>2. g_sig = status.n
    BY <1>3, <2>1 DEF Cont, Passes, Passing
  <2>3. Even(s)
    BY <2>1, <2>2, EvenIfPassed
  <2>4. SentOf(s)' = SentOf(s) /\ Took(s)' \in Nat /\ InFlight(s)' \in Nat
    <3>1. Took(s)' = Took(s) + One(g_sig = s) /\ One(g_sig = s) \in 0 .. 1
      BY <2>1, TookAfter DEF Passes, One
    <3>2. InFlight(s)' \in Nat
      BY DEF InFlight, One
    <3> QED
      BY <2>1, <3>1, <3>2, AccountTypes DEF SentOf
  <2> QED
    BY <2>3, <2>4, AccountTypes DEF Even
<1> QED
  BY <1>1, <1>2, <1>3, ContinueEffect, DetachEffect DEF FinalCont, DetachProcess

LEMMA NextBounded ==
  ASSUME TypeOK, Kernel, MonControl, Passing, Bounded, [Next]_vars
  PROVE  Bounded'
<1> SUFFICES ASSUME NEW s \in Signals
             PROVE  Took(s)' + InFlight(s)' + Runs' <= SentOf(s)' + interrupts'
  BY DEF Bounded, Took, SentOf, Runs
<1>1. Took(s) + InFlight(s) + Runs <= SentOf(s) + interrupts
  BY DEF Bounded, Took, SentOf, Runs
<1>2. interrupts \in Nat
  BY DEF TypeOK
<1>3. TypeOK'
  BY NextTypes
<1>4. Took(s)' \in Nat /\ SentOf(s)' \in Nat /\ InFlight(s)' \in Nat
  BY <1>3, AfterTypes
<1>5. CASE HandlerCont
  <2>1. Runs = 1 /\ Runs' = 0 /\ interrupts' = interrupts /\ Continue(g_sig)
    BY <1>5 DEF HandlerCont, Runs, One, Passed
  <2> QED
    BY <1>1, <1>2, <2>1, HandlerAccount, AccountTypes
<1>6. CASE Cont \/ FinalCont \/ DetachProcess
  <2>1. Runs' = 0 /\ interrupts' = interrupts
    BY <1>6 DEF Cont, FinalCont, DetachProcess, Runs, One
  <2> QED
    BY <1>1, <1>2, <1>6, <2>1, LoopAccount, AccountTypes, RunsType
<1>7. CASE Interrupt
  <2>1. Even(s)
    BY <1>7, OthersEven DEF Interrupt, Lets, Cont, FinalCont, HandlerCont, DetachProcess
  <2>2. interrupts' = interrupts + 1 /\ Runs' <= Runs + 1
    BY <1>7, RunsType DEF Interrupt
  <2> QED
    BY <1>1, <1>2, <1>4, <2>1, <2>2, AccountTypes, RunsType DEF Even
<1>8. CASE ~Lets /\ ~Interrupt
  <2>1. Even(s)
    BY <1>8, OthersEven
  <2>2. interrupts' = interrupts
    BY <1>8, InterruptsGrow
  <2>3. pc' = "handler" => pc = "handler"
    BY <1>8 DEF Next, Monitor, Attach, AttachWait, Cont, Wait, Store, PrintSignal, AfterPrint,
       FinalCont, HandlerCont, DetachProcess, Leave, SendSignal, TakeSignal,
       ProcessExits, monVars, vars
  <2>4. Runs' <= Runs
    BY <2>3 DEF Runs, One
  <2> QED
    BY <1>1, <1>2, <1>4, <2>1, <2>2, <2>4, AccountTypes, RunsType DEF Even
<1> QED
  BY <1>5, <1>6, <1>7, <1>8 DEF Lets

-----------------------------------------------------------------------------
LEMMA MonNextInv == MonInv /\ [Next]_vars => MonInv'
  BY NextTypes, NextKernel, MonNextControl, NextPassing, NextSourced, NextBounded, NextTransparent
     DEF MonInv

LEMMA MonAlways == Spec => []MonInv
  BY MonInitInv, MonNextInv, PTL DEF Spec

(* The types hold of every reachable state.                                *)
THEOREM MonTyping == Spec => []TypeOK
<1>1. MonInv => TypeOK
  BY DEF MonInv
<1> QED
  BY <1>1, MonAlways, PTL

(* What sigmon makes take effect was sent, and at most once more for each  *)
(* time its handler ran.                                                   *)
LEMMA Invented == MonInv => NoneInvented
<1> SUFFICES ASSUME MonInv, NEW s \in Signals
             PROVE  Took(s) <= SentOf(s) + (IF SentOf(s) > 0 THEN interrupts ELSE 0)
  BY DEF NoneInvented, Took, SentOf
<1>0. TypeOK /\ Sourced /\ Bounded
  BY DEF MonInv
<1>1. Took(s) + InFlight(s) + Runs <= SentOf(s) + interrupts
  BY <1>0 DEF Bounded, Took, SentOf, Runs
<1>2. interrupts \in Nat /\ sent \in Seq(Signals) /\ delivered \in Seq(AllSignals)
  BY <1>0 DEF TypeOK
<1>3. CASE Was(s)
  <2>1. SentOf(s) > 0
    BY <1>2, <1>3, CountOfSome DEF Was, SentOf
  <2> QED
    BY <1>0, <1>1, <1>2, <2>1, AccountTypes, RunsType
<1>4. CASE ~Was(s)
  <2>1. \A i \in 1 .. Len(delivered) : delivered[i] # s
    BY <1>0, <1>4 DEF Sourced
  <2>2. Took(s) = 0
    BY <1>2, <2>1, CountOfNone DEF Took
  <2> QED
    BY <1>0, <1>2, <2>2, AccountTypes
<1> QED
  BY <1>3, <1>4

(* Signals are neither lost nor made up, whenever they arrive and whenever *)
(* the handler runs (sigmon.c:42-54, 97-112): without the handler, and     *)
(* after an attach that met SIGSTOP, the monitor is transparent; with it,  *)
(* no signal takes effect that was not sent.                               *)
THEOREM NoSignalLost == Spec => []SignalsAreKept
<1>1. MonInv => SignalsAreKept
  BY Invented DEF MonInv, SignalsAreKept
<1> QED
  BY <1>1, MonAlways, PTL

-----------------------------------------------------------------------------
(* psstat. *)

(* The types, and what keeps the number of lines in its bound.             *)
PsTypes ==
  /\ PsTypeOK /\ fields \in [12 .. 17 -> 0 .. MaxTicks]
  /\ psPc \notin {"exit", "killed"} /\ loops > 0 => count < loops
  /\ loops = 0 => count = 0

(* While it is still the process of the last look: its file is the one     *)
(* that is open, and what it has used since is what its counters say.      *)
SinceLook(f) == fields[f] - g_taskStat[f]
PsCounts ==
  /\ proc = "gone" => ~same
  /\ same /\ psPc \in {"first", "read"} => file = reused
  /\ same /\ blanks = 0 /\ psPc \notin {"find", "first"} =>
       /\ \A f \in Times : g_taskStat[f] <= fields[f]
       /\ used = SinceLook(14) + SinceLook(15) + SinceLook(16) + SinceLook(17)

PsInv == PsTypes /\ PsCounts /\ PercentIsTrue

LEMMA PsConstants ==
  /\ HZ \in Nat \ {0} /\ WORD \in Nat /\ WORD > 400 * MaxTicks /\ MaxTicks \in Nat
  /\ MaxReuse \in Nat /\ Intervals \subseteq Nat /\ Loops \subseteq Nat
  /\ Blanks \subseteq 0 .. 2 /\ Moving \subseteq 12 .. 17
  BY PsstatOK DEF PsstatOK

LEMMA Divided ==
  ASSUME NEW x \in Nat, NEW d \in Nat \ {0}
  PROVE  /\ x \div d \in Nat /\ x \div d <= x
         /\ (x \div d) * d <= x /\ x < (x \div d + 1) * d
<1>1. PICK q \in Nat : q = x \div d /\ d * q <= x /\ x < d * q + d
  OBVIOUS
<1>2. q * d = d * q /\ (q + 1) * d = d * q + d
  OBVIOUS
<1>3. q <= d * q
  OBVIOUS
<1> QED
  BY <1>1, <1>2, <1>3

LEMMA SmallRemainder ==
  ASSUME NEW n \in Nat \ {0}, NEW a \in Int
  PROVE  a % n \in 0 .. n - 1 /\ (a \in 0 .. n - 1 => a % n = a)
OBVIOUS

LEMMA WordsOf == /\ WORD \in Nat \ {0} /\ 0 .. MaxTicks \subseteq Word
                 /\ \A a \in Int : a % WORD \in Word /\ (a \in Word => a % WORD = a)
<1>1. WORD \in Nat \ {0} /\ MaxTicks < WORD
  BY PsConstants
<1> QED
  BY <1>1, SmallRemainder, PsConstants DEF Word

LEMMA InWord ==
  ASSUME NEW a \in Word
  PROVE  a % WORD = a
<1>1. PICK n \in Nat \ {0} : n = WORD
  BY PsConstants
<1>2. a \in 0 .. n - 1
  BY <1>1 DEF Word
<1>3. a % n = a
  BY <1>2
<1> QED
  BY <1>1, <1>3, Zenon

LEMMA PsInitInv == PsInit => PsInv
<1> SUFFICES ASSUME PsInit PROVE PsInv
  OBVIOUS
<1> USE DEF PsInit
<1>1. psLine = [percent |-> 0, used |-> 0, same |-> FALSE] /\ 0 \in Word
  BY WordsOf, PsConstants DEF NoLine, Word
<1>2. PsTypes
  BY <1>1, PsConstants DEF PsTypes, PsTypeOK, Times
<1>3. PsCounts /\ PercentIsTrue
  BY <1>1 DEF PsCounts, PercentIsTrue
<1> QED
  BY <1>2, <1>3 DEF PsInv

(* What the arithmetic of a line comes to.                                 *)
LEMMA PercentOfTicks ==
  ASSUME PsTypes, NEW u \in Nat, interval > 0,
         \A f \in Times : g_taskStat[f] <= fields[f] /\ g_taskStat'[f] = fields[f],
         u = SinceLook(14) + SinceLook(15) + SinceLook(16) + SinceLook(17)
  PROVE  /\ Percent * HZ * interval <= 100 * u
         /\ 100 * u < (Percent + 1) * HZ * interval
<1> DEFINE Diff == [f \in Times |-> Minus(g_taskStat'[f], g_taskStat[f])]
<1>1. \A f \in Times : SinceLook(f) \in 0 .. MaxTicks
  BY PsConstants DEF PsTypes, PsTypeOK, SinceLook, Times, Word
<1>2. \A f \in Times : Diff[f] = SinceLook(f)
  <2> SUFFICES ASSUME NEW f \in Times PROVE Diff[f] = SinceLook(f)
    OBVIOUS
  <2>1. SinceLook(f) \in Word
    BY <1>1, WordsOf
  <2>2. Diff[f] = SinceLook(f) % WORD
    BY DEF Minus, SinceLook
  <2>3. SinceLook(f) % WORD = SinceLook(f)
    BY <2>1, InWord
  <2> HIDE DEF Diff
  <2> QED
    BY <2>2, <2>3, Zenon
<1>3. /\ SinceLook(14) \in 0 .. MaxTicks /\ SinceLook(15) \in 0 .. MaxTicks
      /\ SinceLook(16) \in 0 .. MaxTicks /\ SinceLook(17) \in 0 .. MaxTicks
  BY <1>1 DEF Times
<1>4. Diff[14] + Diff[15] + Diff[16] + Diff[17] = u
  BY <1>2 DEF Times
<1>5. u <= 4 * MaxTicks
  BY <1>3, PsConstants
<1>6. u \in Word /\ u * 100 \in Word
  BY <1>5, PsConstants DEF Word
<1>7. SumOver(Diff) = u
  BY <1>4, <1>6, WordsOf DEF SumOver
<1>8. (SumOver(Diff) * 100) % WORD = 100 * u
  BY <1>6, <1>7, WordsOf
<1>9. PICK d \in Nat \ {0} : d = HZ * interval
  BY PsConstants DEF PsTypes, PsTypeOK
<1>10. Percent = (100 * u) \div d
  BY <1>8, <1>9 DEF Percent
<1>11. PICK x \in Nat : x = 100 * u
  OBVIOUS
<1>12. Percent \in Nat /\ Percent * d <= x /\ x < (Percent + 1) * d
  BY <1>10, <1>11, Divided
<1>13. PICK h \in Nat, i \in Nat, q \in Nat : h = HZ /\ i = interval /\ q = Percent
  BY <1>12, PsConstants DEF PsTypes, PsTypeOK
<1>14. q * h * i = q * (h * i) /\ (q + 1) * h * i = (q + 1) * (h * i)
  OBVIOUS
<1> QED
  BY <1>9, <1>11, <1>12, <1>13, <1>14
LEMMA PercentType ==
  ASSUME PsTypes, interval > 0, \A f \in Times : g_taskStat'[f] \in Word
  PROVE  Percent \in Word
<1> DEFINE Diff == [f \in Times |-> Minus(g_taskStat'[f], g_taskStat[f])]
<1>1. PICK x \in Word : x = (SumOver(Diff) * 100) % WORD
  <2>1. \A f \in Times : g_taskStat'[f] \in Int /\ g_taskStat[f] \in Int
    BY PsConstants DEF PsTypes, PsTypeOK, Word
  <2>2. \A f \in Times : Diff[f] \in Int
    BY <2>1, WordsOf, PsConstants DEF Minus, Word
  <2>3. Diff[14] \in Int /\ Diff[15] \in Int /\ Diff[16] \in Int /\ Diff[17] \in Int
    BY <2>2 DEF Times
  <2>4. SumOver(Diff) \in Word
    BY <2>3, WordsOf DEF SumOver
  <2>5. SumOver(Diff) * 100 \in Int
    BY <2>4, PsConstants DEF Word
  <2> QED
    BY <2>5, WordsOf
<1>2. PICK d \in Nat \ {0} : d = HZ * interval
  BY PsConstants DEF PsTypes, PsTypeOK
<1>3. x \div d \in Nat /\ x \div d <= x
  BY Divided, PsConstants DEF Word
<1>4. Percent = x \div d
  BY <1>1, <1>2 DEF Percent
<1> QED
  BY <1>1, <1>3, <1>4, PsConstants DEF Word

(* A look takes the counters as they are, or nothing when the process has  *)
(* ended since the file was opened.                                        *)
LEMMA ReadEffect ==
  ASSUME PsTypes, ReadStat
  PROVE  /\ \A f \in Times : g_taskStat'[f] \in Word
         /\ used' \in Nat /\ same' \in BOOLEAN
         /\ \/ /\ proc # "gone" /\ file = reused /\ same' = TRUE /\ used' = 0
               /\ blanks = 0 => \A f \in Times : g_taskStat'[f] = fields[f]
            \/ /\ proc = "gone" \/ file # reused
               /\ same' = FALSE /\ UNCHANGED <<g_taskStat, used>>
<1>1. CASE proc # "gone" /\ file = reused /\ g_taskStat' = Saved /\ used' = 0 /\ same' = TRUE
  <2>1. \A f \in Times : f - blanks \in 12 .. 17 /\ g_taskStat'[f] = fields[f - blanks]
    BY <1>1 DEF Saved, Counters, Times, PsTypes, PsTypeOK
  <2>2. \A f \in Times : g_taskStat'[f] \in Word
    BY <2>1, WordsOf DEF PsTypes
  <2>3. blanks = 0 => \A f \in Times : g_taskStat'[f] = fields[f]
    BY <2>1 DEF Times
  <2> QED
    BY <1>1, <2>2, <2>3
<1>2. CASE (proc = "gone" \/ file # reused) /\ UNCHANGED <<g_taskStat, used>> /\ same' = FALSE
  BY <1>2 DEF PsTypes, PsTypeOK
<1> QED
  BY <1>1, <1>2 DEF ReadStat

(* One step of each kind. *)
LEMMA OpenEffect ==
  ASSUME PsTypes, NEW goesOn \in {"first", "read"}, Open(goesOn)
  PROVE  /\ \/ proc # "gone" /\ psPc' = goesOn /\ file' = reused
            \/ proc = "gone" /\ psPc' = "exit" /\ file' = file
         /\ UNCHANGED <<interval, loops, g_taskStat, g_running, count, wait, proc, fields, blanks,
                        reused, used, same, psLine>>
  BY DEF Open, options, psProcess, truth

LEMMA LineEffect ==
  ASSUME PsTypes, PrintLine
  PROVE  /\ psPc = "read" /\ ReadStat /\ psPc' \in {"killed", "exit", "sleep"}
         /\ UNCHANGED <<interval, loops, g_running, file, proc, fields, blanks, reused>>
         /\ wait' \in 0 .. interval /\ count' \in 0 .. loops
         /\ psPc' = "sleep" /\ loops > 0 => count' < loops
         /\ loops = 0 => count' = 0
         /\ \/ interval = 0 /\ psLine' = psLine
            \/ interval > 0 /\ psLine' = [percent |-> Percent, used |-> used, same |-> same]
<1>1. psPc = "read" /\ ReadStat /\ UNCHANGED <<interval, loops, g_running, file, proc, fields, blanks, reused>>
  BY DEF PrintLine, options, psProcess
<1>2. loops > 0 => count < loops
  BY <1>1 DEF PsTypes
<1>3. count \in Nat /\ loops \in Nat /\ interval \in Nat /\ wait \in 0 .. interval /\ count \in 0 .. loops
  BY DEF PsTypes, PsTypeOK
<1>4. CASE interval = 0 /\ psPc' = "killed" /\ UNCHANGED <<count, wait, psLine>>
  BY <1>1, <1>3, <1>4 DEF PsTypes
<1>5. CASE /\ interval > 0
           /\ psLine' = [percent |-> Percent, used |-> used, same |-> same]
           /\ count' = IF loops > 0 THEN count + 1 ELSE count
           /\ psPc' = IF (loops > 0 /\ count' = loops) \/ ~Running THEN "exit" ELSE "sleep"
           /\ wait' = IF psPc' = "sleep" THEN interval ELSE 0
  <2>1. wait' \in 0 .. interval
    BY <1>3, <1>5
  <2>2. count' \in 0 .. loops /\ (loops = 0 => count' = 0)
    BY <1>2, <1>3, <1>5 DEF PsTypes
  <2>3. psPc' = "sleep" => ~(loops > 0 /\ count' = loops)
    BY <1>5
  <2>4. psPc' = "sleep" /\ loops > 0 => count' < loops
    BY <1>3, <2>2, <2>3
  <2> QED
    BY <1>1, <1>5, <2>1, <2>2, <2>4
<1> QED
  BY <1>1, <1>4, <1>5 DEF PrintLine

LEMMA SecondEffect ==
  ASSUME PsTypes, Second
  PROVE  /\ psPc = "sleep" /\ wait' \in 0 .. interval
         /\ UNCHANGED <<psPc, interval, loops, g_taskStat, g_running, count, file, proc, blanks,
                        reused, same, psLine>>
         /\ \/ UNCHANGED <<fields, used>>
            \/ \E f \in 12 .. 17, n \in Nat :
                 /\ fields[f] + n <= MaxTicks /\ fields' = [fields EXCEPT ![f] = fields[f] + n]
                 /\ used' = IF f \in Times THEN used + n ELSE used
<1>1. wait' \in 0 .. interval
  BY DEF Second, PsTypes, PsTypeOK
<1>2. CASE \E f \in Moving, n \in {1, HZ} : Work(f, n)
  <2>1. PICK f \in Moving, n \in {1, HZ} : Work(f, n)
    BY <1>2
  <2>2. f \in 12 .. 17 /\ n \in Nat
    BY PsConstants
  <2>3. /\ fields[f] + n <= MaxTicks /\ fields' = [fields EXCEPT ![f] = fields[f] + n]
        /\ used' = IF f \in Times THEN used + n ELSE used
    BY <2>1 DEF Work
  <2> QED
    BY <1>1, <2>2, <2>3 DEF Second, options
<1> QED
  BY <1>1, <1>2 DEF Second, options
LEMMA PsNextTypes ==
  ASSUME PsTypes, [PsNext]_psVars
  PROVE  PsTypes'
<1> USE DEF PsTypes, PsTypeOK
<1>1. CASE FindProcess
  BY <1>1, OpenEffect DEF FindProcess
<1>2. CASE ReadFirst
  <2>1. /\ \A f \in Times : g_taskStat'[f] \in Word
        /\ used' \in Nat /\ same' \in BOOLEAN
    BY <1>2, ReadEffect DEF ReadFirst
  <2>2. /\ psPc = "first" /\ psPc' = "sleep"
        /\ UNCHANGED <<interval, loops, g_running, count, file, proc, fields, blanks, reused, psLine>>
    BY <1>2 DEF ReadFirst, options, psProcess
  <2>3. wait' \in 0 .. interval'
    BY <1>2, <2>2 DEF ReadFirst
  <2> QED
    BY <2>1, <2>2, <2>3
<1>3. CASE WakeUp
  BY <1>3 DEF WakeUp, options, psProcess, truth
<1>4. CASE Look
  BY <1>4, OpenEffect DEF Look
<1>5. CASE PrintLine
  <2>1. \A f \in Times : g_taskStat'[f] \in Word
    BY <1>5, ReadEffect, LineEffect
  <2>2. used' \in Nat /\ same' \in BOOLEAN
    BY <1>5, ReadEffect, LineEffect
  <2>3. psLine' \in [percent : Word, used : Nat, same : BOOLEAN]
    <3>1. CASE psLine' = psLine
      BY <3>1
    <3>2. CASE interval > 0 /\ psLine' = [percent |-> Percent, used |-> used, same |-> same]
      BY <2>1, <3>2, PercentType
    <3> QED
      BY <1>5, <3>1, <3>2, LineEffect
  <2>4. /\ psPc' \in {"killed", "exit", "sleep"}
        /\ UNCHANGED <<interval, loops, g_running, file, proc, fields, blanks, reused>>
        /\ wait' \in 0 .. interval /\ count' \in 0 .. loops
        /\ psPc' = "sleep" /\ loops > 0 => count' < loops
        /\ loops = 0 => count' = 0
    BY <1>5, LineEffect
  <2>5. psPc' \notin {"exit", "killed"} => psPc' = "sleep"
    BY <2>4
  <2> QED
    BY <2>1, <2>2, <2>3, <2>4, <2>5
<1>6. CASE TerminateHandler
  <2>1. wait' \in 0 .. interval /\ psPc' \in {psPc, "look"} /\ g_running' = FALSE
    BY <1>6 DEF TerminateHandler
  <2>2. psPc \notin {"exit", "killed"}
        /\ UNCHANGED <<interval, loops, g_taskStat, count, file, proc, fields, blanks, reused,
                       used, same, psLine>>
    BY <1>6 DEF TerminateHandler, options, psProcess, truth
  <2> QED
    BY <2>1, <2>2
<1>7. CASE Second
  <2>1. fields' \in [12 .. 17 -> 0 .. MaxTicks] /\ used' \in Nat
    <3>1. CASE UNCHANGED <<fields, used>>
      BY <3>1
    <3>2. ASSUME NEW f \in 12 .. 17, NEW n \in Nat, fields[f] + n <= MaxTicks,
                 fields' = [fields EXCEPT ![f] = fields[f] + n],
                 used' = IF f \in Times THEN used + n ELSE used
          PROVE  fields' \in [12 .. 17 -> 0 .. MaxTicks] /\ used' \in Nat
      <4>1. fields[f] + n \in 0 .. MaxTicks
        BY <3>2, PsConstants
      <4> QED
        BY <3>2, <4>1
    <3> QED
      BY <1>7, <3>1, <3>2, SecondEffect
  <2> QED
    BY <1>7, <2>1, SecondEffect
<1>8. CASE ProcessEnds
  <2>1. proc' \in {"zombie", "gone"} /\ same' \in BOOLEAN
    BY <1>8 DEF ProcessEnds
  <2> QED
    BY <1>8, <2>1 DEF ProcessEnds, options
<1>9. CASE PidReused
  <2>1. fields' \in [12 .. 17 -> 0 .. MaxTicks] /\ reused' \in 0 .. MaxReuse
        /\ file \in 0 .. reused' /\ used' \in Nat /\ proc' = "runs"
    BY <1>9, PsConstants DEF PidReused
  <2> QED
    BY <1>9, <2>1 DEF PidReused, options
<1>10. CASE UNCHANGED psVars
  BY <1>10 DEF psVars, options, psProcess, truth
<1> QED
  BY <1>1, <1>2, <1>3, <1>4, <1>5, <1>6, <1>7, <1>8, <1>9, <1>10 DEF PsNext, PsProcess

(* What is used since the last look is what the counters have gone on by.  *)
Told == /\ \A f \in Times : g_taskStat[f] <= fields[f]
        /\ used = SinceLook(14) + SinceLook(15) + SinceLook(16) + SinceLook(17)

LEMMA ToldAfterLook ==
  ASSUME PsTypes, PsTypes', fields' = fields, used' = 0,
         \A f \in Times : g_taskStat'[f] = fields[f]
  PROVE  Told'
<1>1. \A f \in Times : fields[f] \in Nat /\ SinceLook(f)' = 0
  BY PsConstants DEF PsTypes, SinceLook, Times
<1> QED
  BY <1>1 DEF Told, Times

LEMMA ToldAfterWork ==
  ASSUME PsTypes, Told, NEW f \in 12 .. 17, NEW n \in Nat,
         fields' = [fields EXCEPT ![f] = fields[f] + n], g_taskStat' = g_taskStat,
         used' = IF f \in Times THEN used + n ELSE used
  PROVE  Told'
<1>1. \A g \in Times : fields[g] \in Nat /\ g_taskStat[g] \in Nat
  BY PsConstants DEF PsTypes, PsTypeOK, Times, Word
<1>2. \A g \in Times : fields'[g] = IF g = f THEN fields[g] + n ELSE fields[g]
  BY DEF PsTypes, Times
<1>3. \A g \in Times : SinceLook(g)' = IF g = f THEN SinceLook(g) + n ELSE SinceLook(g)
  BY <1>1, <1>2 DEF SinceLook
<1>4. \A g \in Times : SinceLook(g) \in Int
  BY <1>1 DEF SinceLook
<1>5. used' = SinceLook(14)' + SinceLook(15)' + SinceLook(16)' + SinceLook(17)'
  BY <1>3, <1>4 DEF Told, Times
<1>6. \A g \in Times : g_taskStat'[g] <= fields'[g]
  BY <1>1, <1>2 DEF Told
<1> QED
  BY <1>5, <1>6 DEF Told

LEMMA PsNextCounts ==
  ASSUME PsTypes, PsTypes', PsCounts, [PsNext]_psVars
  PROVE  PsCounts'
<1>p. /\ proc = "gone" => ~same
      /\ same /\ psPc \in {"first", "read"} => file = reused
      /\ same /\ blanks = 0 /\ psPc \notin {"find", "first"} => Told
  BY DEF PsCounts, Told
<1>t. SUFFICES /\ proc' = "gone" => ~same'
               /\ same' /\ psPc' \in {"first", "read"} => file' = reused'
               /\ same' /\ blanks' = 0 /\ psPc' \notin {"find", "first"} => Told'
  BY DEF PsCounts, Told
<1>0. ASSUME UNCHANGED <<g_taskStat, fields, used>>, Told PROVE Told'
  BY <1>0 DEF Told, SinceLook
<1>1. CASE FindProcess \/ Look
  <2>1. /\ psPc' \in {"first", "read"} => file' = reused /\ proc # "gone"
        /\ psPc' \in {"first", "read", "exit"}
        /\ psPc' = "exit" => proc = "gone"
        /\ psPc \in {"find", "look"} /\ (psPc' = "read" => psPc = "look")
        /\ UNCHANGED <<g_taskStat, fields, used, proc, blanks, reused, same>>
    BY <1>1, OpenEffect DEF FindProcess, Look
  <2> QED
    BY <1>p, <1>0, <2>1
<1>2. CASE ReadFirst \/ PrintLine
  <2>1. /\ ReadStat /\ UNCHANGED <<fields, proc, blanks, reused, file>>
        /\ psPc' \notin {"find", "first", "read"}
    BY <1>2, LineEffect DEF ReadFirst, options, psProcess
  <2>2. CASE same' = FALSE
    BY <2>2
  <2>3. CASE /\ proc # "gone" /\ same' = TRUE /\ used' = 0
             /\ blanks = 0 => \A f \in Times : g_taskStat'[f] = fields[f]
    BY <2>1, <2>3, ToldAfterLook
  <2> QED
    BY <2>1, <2>2, <2>3, ReadEffect
<1>3. CASE WakeUp \/ TerminateHandler \/ UNCHANGED psVars
  <2>1. /\ UNCHANGED <<g_taskStat, fields, used, proc, blanks, reused, same, file>>
        /\ psPc' = psPc \/ (psPc = "sleep" /\ psPc' = "look")
    BY <1>3 DEF WakeUp, TerminateHandler, psVars, options, psProcess, truth
  <2> QED
    BY <1>p, <1>0, <2>1
<1>4. CASE Second
  <2>1. /\ UNCHANGED <<psPc, proc, blanks, reused, same, file, g_taskStat>> /\ psPc = "sleep"
    BY <1>4, SecondEffect
  <2>2. Told => Told'
    BY <1>4, <1>0, ToldAfterWork, SecondEffect
  <2> QED
    BY <1>p, <2>1, <2>2
<1>5. CASE ProcessEnds
  <2>1. /\ UNCHANGED <<g_taskStat, fields, used, blanks, reused, file, psPc>>
        /\ proc # "gone" /\ same' = (same /\ proc' # "gone")
    BY <1>5 DEF ProcessEnds, options
  <2>2. (proc' = "gone" => ~same') /\ (same' => same)
    BY <2>1 DEF PsTypes, PsTypeOK
  <2> QED
    BY <1>p, <1>0, <2>1, <2>2
<1>6. CASE PidReused
  <2>1. proc = "gone" /\ same' = same /\ proc' = "runs"
    BY <1>6 DEF PidReused
  <2> QED
    BY <1>p, <2>1
<1> QED
  BY <1>1, <1>2, <1>3, <1>4, <1>5, <1>6 DEF PsNext, PsProcess

LEMMA PsNextPercent ==
  ASSUME PsTypes, PsCounts, PercentIsTrue, [PsNext]_psVars
  PROVE  PercentIsTrue'
<1>1. CASE psLine' = psLine
  <2>1. UNCHANGED <<blanks, interval>>
    BY DEF PsNext, PsProcess, FindProcess, Open, ReadFirst, WakeUp, Look, PrintLine,
       TerminateHandler, Second, ProcessEnds, PidReused, options, psProcess, psVars, truth
  <2> QED
    BY <1>1, <2>1 DEF PercentIsTrue
<1>2. CASE PrintLine /\ interval > 0 /\ psLine' = [percent |-> Percent, used |-> used, same |-> same]
  <2> SUFFICES ASSUME psLine'.same, blanks' = 0
               PROVE  /\ psLine'.percent * HZ * interval' <= 100 * psLine'.used
                      /\ 100 * psLine'.used < (psLine'.percent + 1) * HZ * interval'
    BY DEF PercentIsTrue
  <2>1. psLine'.percent = Percent /\ psLine'.used = used /\ same = TRUE
    BY <1>2 DEF PsTypes, PsTypeOK
  <2>2. interval' = interval /\ blanks = 0 /\ psPc = "read" /\ ReadStat /\ UNCHANGED fields
    BY <1>2, LineEffect
  <2>3. Told /\ proc # "gone" /\ file = reused
    BY <2>1, <2>2 DEF PsCounts, Told
  <2>4. \A f \in Times : g_taskStat'[f] = fields[f]
    BY <2>2, <2>3, ReadEffect
  <2>5. used \in Nat /\ interval > 0
    BY <1>2 DEF PsTypes, PsTypeOK
  <2> QED
    BY <2>1, <2>2, <2>3, <2>4, <2>5, PercentOfTicks DEF Told
<1>3. psLine' = psLine \/ PrintLine
  BY DEF PsNext, PsProcess, FindProcess, Open, ReadFirst, WakeUp, Look,
     TerminateHandler, Second, ProcessEnds, PidReused, psVars
<1> QED
  BY <1>1, <1>2, <1>3, LineEffect

LEMMA PsAlways == PsSpec => []PsInv
<1>1. PsInv /\ [PsNext]_psVars => PsInv'
  BY PsNextTypes, PsNextCounts, PsNextPercent DEF PsInv
<1> QED
  BY <1>1, PsInitInv, PTL DEF PsSpec

(* The percentage of a line is that of the ticks the process has used      *)
(* since the line before (psstat.c:166-205), for any clock and any         *)
(* interval, however long the sleeps were and whatever became of the       *)
(* process in between.                                                     *)
THEOREM PercentTrue == PsSpec => []PercentIsTrue
<1>1. PsInv => PercentIsTrue
  BY DEF PsInv
<1> QED
  BY <1>1, PsAlways, PTL
-----------------------------------------------------------------------------
(* multicast. *)

(* A datagram of multicast_send carries a word of its run; what may come   *)
(* to the socket of multicast_recv is for its group, for the host, or for  *)
(* a group that mgroup has been told to join.                              *)
McSources == {"sender", "other", "half"}
McTrue == {d \in [to : {msRun.group, "host"}, from : {"sender", "other"}, id : Nat, size : Nat] :
             d.from = "sender" => d.to = msRun.group /\ d.size = msRun.words[d.id] + 1}
McMeant == {d \in McTrue : d.to \in {mrGroup, "host"} \cup JoinedByOthers}

McRuns ==
  /\ msRun.words \in Seq(Nat) /\ msAt \in 0 .. Len(msRun.words) + 1
  /\ mgArgs \in Seq([opt : {"j", "l"}, group : STRING]) /\ mgAt \in 1 .. Len(mgArgs) + 1
  /\ mgInput \in Seq(Seq(Nat)) /\ mgRead \in 0 .. Len(mgInput)
  /\ mgBuffer \in [1 .. Len(EXIT) -> Nat] /\ unicasts \in Nat
McNetwork == air \subseteq McTrue /\ mrInbox \in Seq(McMeant)
McShown ==
  /\ mrShown \in Seq([dgram : McMeant, size : Nat, from : McSources])
  /\ \A k \in DOMAIN mrShown :
       /\ mrShown[k].size = McCut(mrShown[k].dgram.size)
       /\ mrShown[k].from = mrShown[k].dgram.from \/ (mrGroup \in Groups6 /\ k = 1)
McHolds ==
  /\ mgSaid \subseteq JoinedByOthers
  /\ {s.group : s \in mgHeld} = IF mgPc = "exit" THEN {} ELSE mgSaid

(* mgroup has ended if and only if a line it has read begins with the      *)
(* word, and then no line before its last one does.                        *)
McEnds == ByLine => /\ mgPc = "exit" <=> \E k \in 1 .. mgRead : BeginsWithExit(mgInput[k])
                    /\ \A k \in 1 .. mgRead - 1 : ~BeginsWithExit(mgInput[k])

McInv == McRuns /\ McNetwork /\ McShown /\ McHolds /\ McEnds

LEMMA McConstants ==
  /\ EXIT \in Seq(Nat) /\ Len(EXIT) \in Nat \ {0} /\ \A k \in DOMAIN EXIT : EXIT[k] # 0
  /\ MAX_MSG_SIZE \in Nat
  /\ \A r \in Sends : r.words \in Seq(Nat)
  /\ \A r \in MgroupRuns : /\ r.args \in Seq([opt : {"j", "l"}, group : STRING])
                           /\ r.typed \in Seq(Seq(Nat))
  BY MulticastOK DEF MulticastOK, NewLine

LEMMA SeqOfMore ==
  ASSUME NEW S, NEW T, S \subseteq T, NEW s \in Seq(S)
  PROVE  s \in Seq(T)
<1>1. Len(s) \in Nat /\ s \in [1 .. Len(s) -> S]
  OBVIOUS
<1>2. s \in [1 .. Len(s) -> T]
  BY <1>1
<1> QED
  BY <1>1, <1>2, SeqDef

LEMMA InSequence ==
  ASSUME NEW S, NEW s \in Seq(S), NEW k \in DOMAIN s
  PROVE  s[k] \in S
OBVIOUS

LEMMA McInitInv == MulticastInit => McInv
<1> SUFFICES ASSUME MulticastInit PROVE McInv
  OBVIOUS
<1> USE DEF MulticastInit
<1>1. McRuns
  <2>1. msRun.words \in Seq(Nat) /\ msAt = 0
    BY McConstants
  <2>2. PICK r \in MgroupRuns : mgArgs = r.args /\ mgInput = r.typed
    OBVIOUS
  <2>3. mgArgs \in Seq([opt : {"j", "l"}, group : STRING]) /\ mgInput \in Seq(Seq(Nat))
    BY <2>2, McConstants
  <2>4. mgBuffer \in [1 .. Len(EXIT) -> Nat]
    <3>1. {EXIT[k] : k \in DOMAIN EXIT} \subseteq Nat
      BY McConstants
    <3> QED
      BY <3>1 DEF Unset
  <2>5. 0 \in 0 .. Len(msRun.words) + 1 /\ 1 \in 1 .. Len(mgArgs) + 1 /\ 0 \in 0 .. Len(mgInput)
    BY <2>1, <2>3
  <2> QED
    BY <2>1, <2>3, <2>4, <2>5 DEF McRuns
<1>2. McNetwork
  BY DEF McNetwork
<1>3. McShown
  BY DEF McShown
<1>4. McHolds
  BY DEF McHolds
<1>5. McEnds
  BY DEF McEnds
<1> QED
  BY <1>1, <1>2, <1>3, <1>4, <1>5 DEF McInv

(* What no step changes, and what only grows. *)
LEMMA McLasts ==
  ASSUME McRuns, [MulticastNext]_mcVars
  PROVE  /\ mrGroup' = mrGroup /\ msRun' = msRun /\ mgArgs' = mgArgs /\ mgInput' = mgInput
         /\ mgAt' \in {mgAt, mgAt + 1}
         /\ McTrue' = McTrue /\ JoinedByOthers \subseteq JoinedByOthers' /\ McMeant \subseteq McMeant'
<1>1. /\ mrGroup' = mrGroup /\ msRun' = msRun /\ mgArgs' = mgArgs /\ mgInput' = mgInput
      /\ mgAt' \in {mgAt, mgAt + 1}
  BY DEF MulticastNext, McReceiver, McGiveUp, McSocket, McBind, McJoin, McRecv, SetupSend, SendWord,
     McGroup, McOption, McOptionsEnd, McRead, McArrive, McUnicast, mcVars, mrVars, msVars, mgVars
<1>2. McTrue' = McTrue
  BY <1>1 DEF McTrue
<1>3. JoinedByOthers \subseteq JoinedByOthers'
  <2>1. mgAt \in Int /\ (mgAt' = mgAt \/ mgAt' = mgAt + 1)
    BY <1>1 DEF McRuns
  <2>2. 1 .. mgAt - 1 \subseteq 1 .. mgAt' - 1
    BY <2>1
  <2> QED
    BY <1>1, <2>2 DEF JoinedByOthers
<1>4. McMeant \subseteq McMeant'
  BY <1>1, <1>2, <1>3 DEF McMeant
<1> QED
  BY <1>1, <1>2, <1>3, <1>4

LEMMA McNextRuns ==
  ASSUME McRuns, [MulticastNext]_mcVars
  PROVE  McRuns'
<1>0. msRun' = msRun /\ mgArgs' = mgArgs /\ mgInput' = mgInput
  BY McLasts
<1>1. msAt' \in 0 .. Len(msRun.words) + 1
  <2>1. CASE SetupSend
    BY <2>1 DEF SetupSend, McRuns
  <2>2. CASE SendWord
    BY <2>2, SMTT(20) DEF SendWord, McRuns
  <2>3. CASE msAt' = msAt
    BY <2>3 DEF McRuns
  <2> QED
    BY <2>1, <2>2, <2>3 DEF MulticastNext, McReceiver, McGiveUp, McSocket, McBind, McJoin, McRecv,
       McGroup, McOption, McOptionsEnd, McRead, McArrive, McUnicast, mcVars, mrVars, msVars, mgVars
<1>2. mgAt' \in 1 .. Len(mgArgs) + 1
  <2>1. CASE McOption
    BY <2>1 DEF McOption, McRuns
  <2>2. CASE mgAt' = mgAt
    BY <2>2 DEF McRuns
  <2> QED
    BY <2>1, <2>2 DEF MulticastNext, McReceiver, McGiveUp, McSocket, McBind, McJoin, McRecv, SetupSend,
       SendWord, McGroup, McOptionsEnd, McRead, McArrive, McUnicast, mcVars, mrVars, msVars, mgVars
<1>3. mgRead' \in 0 .. Len(mgInput) /\ mgBuffer' \in [1 .. Len(EXIT) -> Nat]
  <2>1. CASE McRead
    <3>1. mgRead' \in 0 .. Len(mgInput) /\ mgInput[mgRead + 1] \in Seq(Nat) /\ DOMAIN EXIT = 1 .. Len(EXIT)
      <4>1. mgRead < Len(mgInput) /\ mgRead' = mgRead + 1
        BY <2>1, Zenon DEF McRead
      <4>2. mgRead \in Nat /\ Len(mgInput) \in Nat /\ mgInput \in Seq(Seq(Nat))
        BY DEF McRuns
      <4>3. mgRead' \in 0 .. Len(mgInput) /\ mgRead + 1 \in 1 .. Len(mgInput)
        BY <4>1, <4>2
      <4>4. mgInput[mgRead + 1] \in Seq(Nat)
        BY <4>2, <4>3
      <4>5. DOMAIN EXIT = 1 .. Len(EXIT)
        BY McConstants
      <4> QED
        BY <4>3, <4>4, <4>5
    <3>2. PICK c \in Seq(Nat) : c = mgInput[mgRead + 1]
      BY <3>1
    <3>3. mgBuffer' = [k \in 1 .. Len(EXIT) |-> IF k \in DOMAIN c THEN c[k] ELSE mgBuffer[k]]
      BY <2>1, <3>1, <3>2 DEF McRead, Over
    <3>4. \A k \in 1 .. Len(EXIT) : (IF k \in DOMAIN c THEN c[k] ELSE mgBuffer[k]) \in Nat
      BY InSequence DEF McRuns
    <3> QED
      BY <3>1, <3>3, <3>4
  <2>2. CASE UNCHANGED <<mgRead, mgBuffer>>
    BY <2>2 DEF McRuns
  <2> QED
    BY <2>1, <2>2 DEF MulticastNext, McReceiver, McGiveUp, McSocket, McBind, McJoin, McRecv, SetupSend,
       SendWord, McGroup, McOption, McOptionsEnd, McArrive, McUnicast, mcVars, mrVars, msVars, mgVars
<1>4. unicasts' \in Nat
  <2>1. unicasts' = unicasts \/ unicasts' = unicasts + 1
    BY DEF MulticastNext, McReceiver, McGiveUp, McSocket, McBind, McJoin, McRecv, SetupSend, SendWord,
       McGroup, McOption, McOptionsEnd, McRead, McArrive, McUnicast, mcVars, mrVars, msVars, mgVars
  <2> QED
    BY <2>1 DEF McRuns
<1> QED
  BY <1>0, <1>1, <1>2, <1>3, <1>4 DEF McRuns

LEMMA McNextNetwork ==
  ASSUME McRuns, McNetwork, McHolds, [MulticastNext]_mcVars
  PROVE  McNetwork'
<1>1. McTrue' = McTrue /\ McMeant \subseteq McMeant' /\ mrInbox \in Seq(McMeant')
  BY McLasts, SeqOfMore DEF McNetwork
<1>2. CASE SendWord
  <2>1. [to |-> msRun.group, from |-> "sender", id |-> msAt, size |-> msRun.words[msAt] + 1] \in McTrue
    <3>1. msAt \in Nat /\ msRun.words[msAt] + 1 \in Nat
      <4>1. msRun.words \in Seq(Nat) /\ msAt \in DOMAIN msRun.words
        BY <1>2 DEF SendWord, McRuns
      <4> QED
        BY <4>1, InSequence
    <3> QED
      BY <3>1 DEF McTrue
  <2>2. air' \subseteq McTrue /\ mrInbox' = mrInbox
    BY <1>2, <2>1 DEF SendWord, mrVars, McNetwork
  <2> QED
    BY <1>1, <2>2 DEF McNetwork
<1>3. CASE McUnicast
  <2>1. [to |-> "host", from |-> "other", id |-> unicasts + 1, size |-> 0] \in McTrue
    <3>1. unicasts + 1 \in Nat
      BY DEF McRuns
    <3> QED
      BY <3>1 DEF McTrue
  <2> QED
    BY <1>1, <1>3, <2>1 DEF McUnicast, mrVars, McNetwork
<1>4. CASE McArrive
  <2>1. PICK d \in air : /\ d.to \in HostTakes \cup {"host"}
                         /\ mrInbox' = Append(mrInbox, d) /\ air' = air \ {d}
    BY <1>4 DEF McArrive
  <2>2. HostTakes \subseteq {mrGroup} \cup JoinedByOthers
    BY DEF HostTakes, McHolds
  <2>3. d \in McMeant
    BY <2>1, <2>2 DEF McNetwork, McMeant
  <2> QED
    BY <1>1, <2>1, <2>3 DEF McNetwork
<1>5. CASE McRecv
  <2>1. air' = air /\ mrInbox # <<>> /\ mrInbox' = Tail(mrInbox)
    BY <1>5 DEF McRecv
  <2>2. Tail(mrInbox) \in Seq(McMeant')
    BY <1>1, <2>1
  <2> QED
    BY <1>1, <2>1, <2>2 DEF McNetwork
<1>6. CASE McGiveUp
  BY <1>1, <1>6 DEF McGiveUp, McNetwork
<1>7. CASE air' = air /\ mrInbox' = mrInbox
  BY <1>1, <1>7 DEF McNetwork
<1> QED
  BY <1>2, <1>3, <1>4, <1>5, <1>6, <1>7 DEF MulticastNext, McReceiver, McSocket, McBind, McJoin,
     SetupSend, McGroup, McOption, McOptionsEnd, McRead, mcVars, mrVars, msVars, mgVars

LEMMA McNextShown ==
  ASSUME McRuns, McNetwork, McShown, [MulticastNext]_mcVars
  PROVE  McShown'
<1>1. mrGroup' = mrGroup /\ McMeant \subseteq McMeant'
  BY McLasts
<1>2. [dgram : McMeant, size : Nat, from : McSources] \subseteq [dgram : McMeant', size : Nat, from : McSources]
  BY <1>1
<1>3. mrShown \in Seq([dgram : McMeant', size : Nat, from : McSources])
  BY <1>2, SeqOfMore DEF McShown
<1>4. CASE McRecv
  <2> DEFINE d == Head(mrInbox)
             e == [dgram |-> d, size |-> McCut(d.size), from |-> AddressOf(d)]
  <2>1. d \in McMeant /\ mrShown' = Append(mrShown, e)
    BY <1>4 DEF McRecv, McNetwork
  <2>2. d.size \in Nat /\ d.from \in McSources
    BY <2>1 DEF McMeant, McTrue, McSources
  <2>3. McCut(d.size) \in Nat
    BY <2>2, McConstants DEF McCut
  <2>4. AddressOf(d) \in McSources /\ (AddressOf(d) = d.from \/ (mrGroup \in Groups6 /\ mrShown = <<>>))
    BY <2>2 DEF AddressOf, McSources
  <2>5. e \in [dgram : McMeant', size : Nat, from : McSources]
    BY <1>1, <2>1, <2>3, <2>4
  <2>6. ASSUME NEW k \in DOMAIN mrShown'
        PROVE  /\ mrShown'[k].size = McCut(mrShown'[k].dgram.size)
               /\ mrShown'[k].from = mrShown'[k].dgram.from \/ (mrGroup \in Groups6 /\ k = 1)
    <3>1. CASE k \in DOMAIN mrShown
      BY <1>3, <2>1, <2>5, <3>1 DEF McShown
    <3>2. CASE k = Len(mrShown) + 1
      <4>1. mrShown'[k] = e
        BY <1>3, <2>1, <2>5, <3>2
      <4>2. mrShown = <<>> => k = 1
        BY <3>2
      <4> QED
        BY <2>4, <4>1, <4>2
    <3> QED
      BY <1>3, <2>1, <2>5, <3>1, <3>2
  <2> HIDE DEF e
  <2>7. mrShown' \in Seq([dgram : McMeant', size : Nat, from : McSources])
    BY <1>3, <2>1, <2>5
  <2> QED
    BY <1>1, <2>6, <2>7 DEF McShown
<1>5. CASE mrShown' = mrShown
  BY <1>1, <1>3, <1>5 DEF McShown
<1> QED
  BY <1>4, <1>5 DEF MulticastNext, McReceiver, McGiveUp, McSocket, McBind, McJoin, SetupSend, SendWord,
     McGroup, McOption, McOptionsEnd, McRead, McArrive, McUnicast, mcVars, mrVars, msVars, mgVars

LEMMA McNextHolds ==
  ASSUME McRuns, McHolds, [MulticastNext]_mcVars
  PROVE  McHolds'
<1>1. JoinedByOthers \subseteq JoinedByOthers' /\ mgArgs' = mgArgs
  BY McLasts
<1>2. CASE McOption
  <2> DEFINE o == mgArgs[mgAt]
  <2>1. mgPc = "options" /\ mgPc' = mgPc /\ mgAt \in DOMAIN mgArgs /\ mgAt' = mgAt + 1
    BY <1>2 DEF McOption
  <2>2. o.opt = "j" => o.group \in JoinedByOthers'
    <3>1. mgAt \in 1 .. mgAt' - 1
      BY <2>1 DEF McRuns
    <3> QED
      BY <1>1, <3>1 DEF JoinedByOthers
  <2>3. CASE o.opt = "j" /\ mgHeld' = mgHeld \cup {[fd |-> mgAt, group |-> o.group]}
             /\ mgSaid' = mgSaid \cup {o.group}
    <3> DEFINE new == [fd |-> mgAt, group |-> o.group]
    <3>0. mgHeld' = mgHeld \cup {new} /\ new.group = o.group
      BY <2>3
    <3>1. {s.group : s \in mgHeld'} = {s.group : s \in mgHeld} \cup {o.group}
      <4> HIDE DEF new, o
      <4> QED
        BY <3>0
    <3>2. mgPc # "exit" /\ mgPc' # "exit"
      BY <2>1
    <3>3. {s.group : s \in mgHeld'} = mgSaid'
      BY <2>3, <3>1, <3>2 DEF McHolds
    <3>4. mgSaid' \subseteq JoinedByOthers'
      BY <1>1, <2>2, <2>3 DEF McHolds
    <3> QED
      BY <3>2, <3>3, <3>4 DEF McHolds
  <2>4. CASE UNCHANGED <<mgHeld, mgSaid>>
    BY <1>1, <2>1, <2>4 DEF McHolds
  <2> QED
    BY <1>2, <2>3, <2>4 DEF McOption, LeftBy
<1>3. CASE McRead
  BY <1>1, <1>3 DEF McRead, McHolds
<1>4. CASE McOptionsEnd
  BY <1>1, <1>4 DEF McOptionsEnd, McHolds
<1>5. CASE UNCHANGED <<mgPc, mgHeld, mgSaid>>
  BY <1>1, <1>5 DEF McHolds
<1> QED
  BY <1>2, <1>3, <1>4, <1>5 DEF MulticastNext, McReceiver, McGiveUp, McSocket, McBind, McJoin, McRecv,
     SetupSend, SendWord, McGroup, McArrive, McUnicast, mcVars, mrVars, msVars, mgVars

(* What is older than the read does not matter when the read is a line:    *)
(* the end of the line is no letter of the word.                           *)
LEMMA LineIsCompared ==
  ASSUME McRuns, NEW c \in Seq(Nat), c # <<>>, c[Len(c)] = NewLine
  PROVE  Over(c) = EXIT <=> BeginsWithExit(c)
<1>1. DOMAIN EXIT = 1 .. Len(EXIT) /\ Len(EXIT) \in Nat \ {0} /\ Len(c) \in Nat \ {0}
      /\ DOMAIN c = 1 .. Len(c)
  BY McConstants
<1>2. Over(c) = EXIT <=> \A k \in 1 .. Len(EXIT) : Over(c)[k] = EXIT[k]
  <2>1. Over(c) = [k \in 1 .. Len(EXIT) |-> Over(c)[k]] /\ EXIT = [k \in 1 .. Len(EXIT) |-> EXIT[k]]
    BY <1>1, McConstants DEF Over
  <2> QED
    BY <2>1
<1>3. ASSUME BeginsWithExit(c) PROVE Over(c) = EXIT
  <2>1. Len(c) >= Len(EXIT) /\ SubSeq(c, 1, Len(EXIT)) = EXIT
    BY <1>3 DEF BeginsWithExit
  <2>2. \A k \in 1 .. Len(EXIT) : k \in DOMAIN c /\ c[k] = EXIT[k]
    BY <1>1, <2>1
  <2> QED
    BY <1>1, <1>2, <2>2 DEF Over
<1>4. ASSUME Over(c) = EXIT PROVE BeginsWithExit(c)
  <2>1. \A k \in 1 .. Len(EXIT) : k \in DOMAIN c => c[k] = EXIT[k]
    BY <1>1, <1>4 DEF Over
  <2>2. Len(c) >= Len(EXIT)
    <3>1. SUFFICES ASSUME Len(c) < Len(EXIT) PROVE FALSE
      BY <1>1
    <3>2. Len(c) \in DOMAIN EXIT /\ Len(c) \in DOMAIN c
      BY <1>1, <3>1
    <3> QED
      BY <1>1, <2>1, <3>2, McConstants DEF NewLine
  <2>3. SubSeq(c, 1, Len(EXIT)) = [k \in 1 .. Len(EXIT) |-> c[k]]
    BY <1>1, <2>2
  <2>4. \A k \in 1 .. Len(EXIT) : c[k] = EXIT[k]
    BY <1>1, <2>1, <2>2
  <2>5. EXIT = [k \in 1 .. Len(EXIT) |-> EXIT[k]]
    BY <1>1, McConstants
  <2> QED
    BY <2>2, <2>3, <2>4, <2>5 DEF BeginsWithExit
<1> QED
  BY <1>3, <1>4

LEMMA McNextEnds ==
  ASSUME McRuns, McEnds, [MulticastNext]_mcVars
  PROVE  McEnds'
<1>0. mgInput' = mgInput /\ (ByLine' <=> ByLine)
  BY McLasts DEF ByLine
<1>1. CASE McRead
  <2> SUFFICES ASSUME ByLine
               PROVE  /\ mgPc' = "exit" <=> \E k \in 1 .. mgRead' : BeginsWithExit(mgInput[k])
                      /\ \A k \in 1 .. mgRead' - 1 : ~BeginsWithExit(mgInput[k])
    BY <1>0 DEF McEnds, BeginsWithExit
  <2> DEFINE n == mgRead + 1
  <2>1. mgRead \in Nat /\ mgRead' = n /\ n \in DOMAIN mgInput /\ mgInput[n] \in Seq(Nat)
    BY <1>1 DEF McRead, McRuns
  <2>2. mgPc = "read" /\ (mgPc' = "exit" <=> mgInput[n] # <<>> /\ Over(mgInput[n]) = EXIT)
    BY <1>1 DEF McRead
  <2>3. mgPc' = "exit" <=> BeginsWithExit(mgInput[n])
    <3>1. mgInput[n] # <<>> /\ mgInput[n][Len(mgInput[n])] = NewLine
      BY <2>1 DEF ByLine
    <3> QED
      BY <2>1, <2>2, <3>1, LineIsCompared
  <2>4. \A k \in 1 .. mgRead : ~BeginsWithExit(mgInput[k])
    BY <2>2 DEF McEnds
  <2>5. 1 .. mgRead' = 1 .. mgRead \cup {n} /\ 1 .. mgRead' - 1 = 1 .. mgRead
    BY <2>1
  <2> QED
    BY <2>3, <2>4, <2>5
<1>2. CASE mgRead' = mgRead /\ (mgPc' = "exit" <=> mgPc = "exit")
  BY <1>0, <1>2 DEF McEnds, BeginsWithExit
<1> QED
  BY <1>1, <1>2 DEF MulticastNext, McReceiver, McGiveUp, McSocket, McBind, McJoin, McRecv,
     SetupSend, SendWord, McGroup, McOption, McOptionsEnd, McArrive, McUnicast, mcVars, mrVars, msVars, mgVars

LEMMA McAlways == MulticastSpec => []McInv
<1>1. McInv /\ [MulticastNext]_mcVars => McInv'
  BY McNextRuns, McNextNetwork, McNextShown, McNextHolds, McNextEnds DEF McInv
<1> QED
  BY <1>1, McInitInv, PTL DEF MulticastSpec

LEMMA McSafe == McInv => ShownIsTrue /\ GroupsAreHeld
<1> SUFFICES ASSUME McInv PROVE ShownIsTrue /\ GroupsAreHeld
  OBVIOUS
<1>1. ShownIsTrue
  <2> SUFFICES ASSUME NEW k \in DOMAIN mrShown
               PROVE  LET d == mrShown[k].dgram IN
                        /\ d.to \in {mrGroup, "host"} \cup JoinedByOthers
                        /\ mrShown[k].size = IF d.size <= MAX_MSG_SIZE THEN d.size ELSE MAX_MSG_SIZE
                        /\ d.from = "sender" => d.to = msRun.group /\ d.size = msRun.words[d.id] + 1
                        /\ mrShown[k].from = d.from \/ (mrGroup \in Groups6 /\ k = 1)
    BY DEF ShownIsTrue
  <2>1. mrShown[k].dgram \in McMeant
    <3>1. mrShown \in Seq([dgram : McMeant, size : Nat, from : McSources])
      BY DEF McInv, McShown
    <3>2. mrShown[k] \in [dgram : McMeant, size : Nat, from : McSources]
      BY <3>1, InSequence
    <3> QED
      BY <3>2
  <2>2. mrShown[k].size = McCut(mrShown[k].dgram.size)
        /\ (mrShown[k].from = mrShown[k].dgram.from \/ (mrGroup \in Groups6 /\ k = 1))
    BY DEF McInv, McShown
  <2>3. mrShown[k].dgram.size \in Nat
    BY <2>1 DEF McMeant, McTrue
  <2>4. mrShown[k].size = IF mrShown[k].dgram.size <= MAX_MSG_SIZE THEN mrShown[k].dgram.size ELSE MAX_MSG_SIZE
    BY <2>2, <2>3, McConstants DEF McCut
  <2> QED
    BY <2>1, <2>2, <2>4 DEF McMeant, McTrue
<1>2. GroupsAreHeld
  BY DEF McInv, McHolds, McEnds, GroupsAreHeld
<1> QED
  BY <1>1, <1>2
-----------------------------------------------------------------------------
(* udp_echo and udp_test. *)

(* How many of a sequence, and of a set, have an identity.                 *)
Seen(seq, id)   == Cardinality({k \in DOMAIN seq : seq[k].id = id})
Flying(net, id) == Cardinality({d \in net : d.id = id})

LEMMA SeenFinite ==
  ASSUME NEW S, NEW seq \in Seq(S), NEW id
  PROVE  IsFiniteSet({k \in DOMAIN seq : seq[k].id = id}) /\ Seen(seq, id) \in Nat
<1>1. DOMAIN seq = 1 .. Len(seq) /\ Len(seq) \in Nat
  OBVIOUS
<1>2. IsFiniteSet(DOMAIN seq)
  BY <1>1, FS_Interval
<1>3. IsFiniteSet({k \in DOMAIN seq : seq[k].id = id})
  BY <1>2, FS_Subset
<1> QED
  BY <1>3, FS_CardinalityType DEF Seen

LEMMA SeenAppend ==
  ASSUME NEW S, NEW seq \in Seq(S), NEW x \in S, NEW id
  PROVE  Seen(Append(seq, x), id) = Seen(seq, id) + One(x.id = id)
<1> DEFINE Places == {k \in DOMAIN seq : seq[k].id = id}
           After  == {k \in DOMAIN Append(seq, x) : Append(seq, x)[k].id = id}
<1>1. /\ DOMAIN seq = 1 .. Len(seq) /\ Len(seq) \in Nat
      /\ DOMAIN Append(seq, x) = 1 .. Len(seq) + 1
      /\ \A k \in 1 .. Len(seq) : Append(seq, x)[k] = seq[k]
      /\ Append(seq, x)[Len(seq) + 1] = x
  OBVIOUS
<1>2. IsFiniteSet(Places) /\ Len(seq) + 1 \notin Places /\ Cardinality(Places) \in Nat
  <2>1. IsFiniteSet(Places)
    BY SeenFinite
  <2>2. Len(seq) + 1 \notin Places
    BY <1>1
  <2> QED
    BY <2>1, <2>2, FS_CardinalityType
<1>3. CASE x.id = id
  <2>1. After = Places \cup {Len(seq) + 1}
    BY <1>1, <1>3
  <2>2. Cardinality(After) = Cardinality(Places) + 1
    BY <1>2, <2>1, FS_AddElement
  <2> QED
    BY <1>3, <2>2 DEF Seen, One
<1>4. CASE x.id # id
  <2>1. After = Places
    BY <1>1, <1>4
  <2>2. Seen(Append(seq, x), id) = Cardinality(Places) /\ Seen(seq, id) = Cardinality(Places)
    BY <2>1 DEF Seen
  <2> QED
    BY <1>2, <1>4, <2>2 DEF One
<1> QED
  BY <1>3, <1>4

LEMMA SeenNone ==
  ASSUME NEW seq, NEW id, \A k \in DOMAIN seq : seq[k].id # id
  PROVE  Seen(seq, id) = 0
<1>1. {k \in DOMAIN seq : seq[k].id = id} = {}
  OBVIOUS
<1> QED
  BY <1>1, FS_EmptySet DEF Seen

LEMMA SeenEmpty == \A id : Seen(<<>>, id) = 0
<1>1. <<>> \in Seq({}) /\ DOMAIN <<>> = {}
  BY EmptySeq
<1> QED
  BY <1>1, SeenNone

LEMMA SeenOne ==
  ASSUME NEW x, NEW id
  PROVE  Seen(<<x>>, id) = One(x.id = id)
<1>1. <<>> \in Seq({x}) /\ Append(<<>>, x) = <<x>>
  OBVIOUS
<1>2. \A s \in Seq({x}) : Seen(Append(s, x), id) = Seen(s, id) + One(x.id = id)
  BY SeenAppend
<1>3. Seen(<<x>>, id) = Seen(<<>>, id) + One(x.id = id)
  BY <1>1, <1>2
<1>4. One(x.id = id) \in Nat
  BY DEF One
<1> QED
  BY <1>3, <1>4, SeenEmpty

LEMMA SeenTail ==
  ASSUME NEW S, NEW seq \in Seq(S), seq # <<>>, NEW id
  PROVE  Seen(Tail(seq), id) + One(Head(seq).id = id) <= Seen(seq, id)
<1> DEFINE t == Tail(seq)
           Places == {k \in DOMAIN seq : seq[k].id = id}
           Rest   == {k \in DOMAIN t : t[k].id = id}
           shift  == [k \in Rest |-> k + 1]
<1>1. /\ t \in Seq(S) /\ Len(seq) \in Nat /\ Len(seq) >= 1
      /\ DOMAIN seq = 1 .. Len(seq) /\ DOMAIN t = 1 .. Len(seq) - 1
      /\ \A k \in DOMAIN t : t[k] = seq[k + 1]
      /\ Head(seq) = seq[1]
  OBVIOUS
<1>2. IsFiniteSet(Places) /\ Cardinality(Places) \in Nat /\ Cardinality(Rest) \in Nat
  BY <1>1, SeenFinite DEF Seen
<1>3. \A k \in Rest : k \in Nat /\ k >= 1 /\ k + 1 \in Places
  BY <1>1
<1>4. shift \in Injection(Rest, Places \ {1})
  <2>1. shift \in [Rest -> Places \ {1}]
    BY <1>3
  <2>2. \A a, b \in Rest : shift[a] = shift[b] => a = b
    BY <1>3
  <2> QED
    BY <2>1, <2>2, Fun_IsInj
<1>5. IsFiniteSet(Places \ {1}) /\ Cardinality(Rest) <= Cardinality(Places \ {1})
  <2>1. IsFiniteSet(Places \ {1})
    BY <1>2, FS_RemoveElement
  <2> HIDE DEF Places, Rest, shift
  <2> QED
    BY <1>4, <2>1, FS_Injection
<1>6. Cardinality(Places \ {1}) = IF 1 \in Places THEN Cardinality(Places) - 1 ELSE Cardinality(Places)
  BY <1>2, FS_RemoveElement
<1>7. 1 \in Places <=> Head(seq).id = id
  BY <1>1
<1>8. Seen(Tail(seq), id) = Cardinality(Rest) /\ Seen(seq, id) = Cardinality(Places)
  BY DEF Seen
<1> HIDE DEF Places, Rest
<1> QED
  BY <1>2, <1>5, <1>6, <1>7, <1>8 DEF One

LEMMA FlyingFinite ==
  ASSUME NEW net, IsFiniteSet(net), NEW id
  PROVE  IsFiniteSet({d \in net : d.id = id}) /\ Flying(net, id) \in Nat
<1>1. IsFiniteSet({d \in net : d.id = id})
  BY FS_Subset
<1> QED
  BY <1>1, FS_CardinalityType DEF Flying

LEMMA FlyingMore ==
  ASSUME NEW net, IsFiniteSet(net), NEW x, NEW id
  PROVE  Flying(net \cup {x}, id) <= Flying(net, id) + One(x.id = id)
<1> DEFINE Before == {d \in net : d.id = id}
           After  == {d \in net \cup {x} : d.id = id}
<1>1. IsFiniteSet(Before) /\ Cardinality(Before) \in Nat
  BY FlyingFinite DEF Flying
<1>2. CASE x.id = id
  <2>1. After = Before \cup {x}
    BY <1>2
  <2>2. Flying(net \cup {x}, id) = Cardinality(After) /\ Flying(net, id) = Cardinality(Before)
    BY DEF Flying
  <2> HIDE DEF Before, After
  <2>3. Cardinality(Before \cup {x}) = IF x \in Before THEN Cardinality(Before) ELSE Cardinality(Before) + 1
    BY <1>1, FS_AddElement
  <2>4. Cardinality(After) <= Cardinality(Before) + 1
    BY <1>1, <2>1, <2>3
  <2> QED
    BY <1>2, <2>2, <2>4 DEF One
<1>3. CASE x.id # id
  <2>1. After = Before
    BY <1>3
  <2>2. Flying(net \cup {x}, id) = Cardinality(Before) /\ Flying(net, id) = Cardinality(Before)
    BY <2>1 DEF Flying
  <2> QED
    BY <1>1, <1>3, <2>2 DEF One
<1> QED
  BY <1>2, <1>3

LEMMA FlyingLess ==
  ASSUME NEW net, IsFiniteSet(net), NEW x \in net, NEW id
  PROVE  Flying(net \ {x}, id) + One(x.id = id) = Flying(net, id)
<1> DEFINE Before == {d \in net : d.id = id}
           After  == {d \in net \ {x} : d.id = id}
<1>1. IsFiniteSet(Before) /\ Cardinality(Before) \in Nat
  BY FlyingFinite DEF Flying
<1>2. CASE x.id = id
  <2>1. After = Before \ {x} /\ x \in Before
    BY <1>2
  <2>2. Cardinality(After) = Cardinality(Before) - 1
    BY <1>1, <2>1, FS_RemoveElement
  <2> QED
    BY <1>1, <1>2, <2>2 DEF Flying, One
<1>3. CASE x.id # id
  <2>1. After = Before
    BY <1>3
  <2>2. Flying(net \ {x}, id) = Cardinality(Before) /\ Flying(net, id) = Cardinality(Before)
    BY <2>1 DEF Flying
  <2> QED
    BY <1>1, <1>3, <2>2 DEF One
<1> QED
  BY <1>2, <1>3

LEMMA FlyingNone ==
  ASSUME NEW net, NEW id, \A d \in net : d.id # id
  PROVE  Flying(net, id) = 0
<1>1. {d \in net : d.id = id} = {}
  OBVIOUS
<1> QED
  BY <1>1, FS_EmptySet DEF Flying

(* Of every datagram on its way: the client sends the lines it has read    *)
(* whole, the server sends them back to it, and others send identities     *)
(* that no line has, which the server sends back to them.                  *)
Whole(d)   == d.id \in 1 .. linesRead /\ d.size = Lines[d.id]
Strange(d) == d.id > Len(Lines) /\ d.id <= Len(Lines) + strays
Lawful == {d \in Datagrams :
  /\ d.from = "client" => d.to = "server" /\ Whole(d)
  /\ d.from = "other" => Strange(d)
  /\ d.from = "server" => d.to # "server"
  /\ d.from = "server" /\ d.to = "client" => Whole(d)
  /\ d.from = "server" /\ d.to = "other" => Strange(d)}
LawfulTo(h) == {d \in Lawful : d.to = h}

UdpCounts ==
  /\ linesTyped \in 0 .. Len(Lines) /\ linesRead \in 0 .. linesTyped
  /\ strays \in Nat /\ copies \in Nat /\ strays + copies <= MaxTrouble
OnTheWay == network \subseteq Lawful /\ IsFiniteSet(network)
Waiting  == /\ inbox = [h \in Hosts |-> inbox[h]]
            /\ \A h \in Hosts : inbox[h] \in Seq(LawfulTo(h))
Buffered == /\ usBuf \in Seq(LawfulTo("server")) /\ Len(usBuf) <= 1
            /\ usPc = "send" => Len(usBuf) = 1
Printed  == shown \in Seq(LawfulTo("client"))

(* However a datagram has moved, it and its reply are in one place, unless *)
(* the network has doubled it.                                             *)
Places(id) == Seen(shown, id) + Seen(inbox["server"], id) + Seen(inbox["client"], id)
              + Seen(usBuf, id) + Flying(network, id)
OncePerCopy == \A id \in Nat : Places(id) <= 1 + copies

UdpInv == UdpCounts /\ OnTheWay /\ Waiting /\ Buffered /\ Printed /\ OncePerCopy

LEMMA UdpConstants ==
  /\ SOCKET_PACKET_LEN \in Nat \ {0} /\ MAX_BUFF_SIZE \in Nat /\ SOCKET_PACKET_LEN <= MAX_BUFF_SIZE
  /\ Sizes \subseteq Nat /\ MaxTrouble \in Nat
  /\ Len(Lines) \in Nat /\ \A k \in 1 .. Len(Lines) : Lines[k] \in 1 .. SOCKET_PACKET_LEN
<1>1. Lines \in Seq(1 .. SOCKET_PACKET_LEN)
  BY UdpEchoOK DEF UdpEchoOK
<1> QED
  BY <1>1, UdpEchoOK DEF UdpEchoOK

LEMMA UdpInitInv == UdpInit => UdpInv
<1> SUFFICES ASSUME UdpInit PROVE UdpInv
  OBVIOUS
<1> USE DEF UdpInit
<1>1. UdpCounts
  BY UdpConstants DEF UdpCounts
<1>2. OnTheWay /\ Waiting /\ Buffered /\ Printed
  BY FS_EmptySet DEF OnTheWay, Waiting, Buffered, Printed
<1>3. ASSUME NEW id \in Nat PROVE Places(id) = 0
  <2>1. inbox["server"] = <<>> /\ inbox["client"] = <<>>
    BY DEF Hosts
  <2>2. Flying({}, id) = 0
    BY FlyingNone
  <2> QED
    BY <2>1, <2>2, SeenEmpty DEF Places
<1>4. OncePerCopy
  BY <1>3 DEF OncePerCopy
<1> QED
  BY <1>1, <1>2, <1>4 DEF UdpInv

(* The counters of lines, others' datagrams and doubled ones only grow. *)
LEMMA UdpCounters ==
  ASSUME UdpCounts, [UdpNext]_udpVars
  PROVE  /\ UdpCounts' /\ linesRead <= linesRead' /\ strays <= strays' /\ copies <= copies'
<1> USE DEF UdpCounts
<1>1. CASE UtReadStdin
  BY <1>1 DEF UtReadStdin, userVars
<1>2. CASE UdpType
  BY <1>2, UdpConstants DEF UdpType, utVars, netVars
<1>3. CASE Arrive
  <2>1. /\ UNCHANGED <<linesTyped, linesRead, strays>>
        /\ copies' = copies \/ (strays + copies < MaxTrouble /\ copies' = copies + 1)
    BY <1>3 DEF Arrive, utVars, userVars
  <2> QED
    BY <2>1, UdpConstants
<1>4. CASE Stray
  <2>1. /\ UNCHANGED <<linesTyped, linesRead, copies>>
        /\ strays + copies < MaxTrouble /\ strays' = strays + 1
    BY <1>4 DEF Stray, utVars, userVars
  <2> QED
    BY <2>1, UdpConstants
<1>5. CASE UNCHANGED <<linesTyped, linesRead, strays, copies>>
  BY <1>5
<1> QED
  BY <1>1, <1>2, <1>3, <1>4, <1>5 DEF UdpNext, UdpServer, UdpClient, UsStart, UsRecv, UsRecvFails,
     UsSend, UsTerminate, UsHandler, UtLoop, UtBind, UtRecv, UtHandler, UdpEndOfInput,
     udpVars, utVars, userVars, netVars

LEMMA StaysLawful ==
  ASSUME UdpCounts, [UdpNext]_udpVars
  PROVE  /\ Lawful \subseteq Lawful' /\ \A h \in Hosts : LawfulTo(h) \subseteq LawfulTo(h)'
         /\ \A h \in Hosts : \A s \in Seq(LawfulTo(h)) : s \in Seq(LawfulTo(h)')
<1>1. linesRead \in Int /\ linesRead' \in Int /\ linesRead <= linesRead'
      /\ strays \in Int /\ strays' \in Int /\ strays <= strays'
  BY UdpCounters DEF UdpCounts
<1>2. ASSUME NEW d \in Datagrams PROVE (Whole(d) => Whole(d)') /\ (Strange(d) => Strange(d)')
  <2>1. d.id \in Int
    BY DEF Datagrams
  <2> QED
    BY <1>1, <2>1, UdpConstants DEF Whole, Strange
<1>3. Lawful \subseteq Lawful'
  BY <1>2 DEF Lawful
<1>4. \A h \in Hosts : LawfulTo(h) \subseteq LawfulTo(h)'
  BY <1>3 DEF LawfulTo
<1> QED
  BY <1>3, <1>4, SeqOfMore

(* A datagram that is cut to the size of a buffer stays what it was.       *)
LEMMA CutLawful ==
  ASSUME UdpCounts, NEW d \in Lawful, NEW b \in {MAX_BUFF_SIZE, SOCKET_PACKET_LEN}
  PROVE  LET e == [d EXCEPT !.size = Cut(@, b)] IN
         e \in Lawful /\ e.id = d.id /\ e.to = d.to /\ e.from = d.from
<1> DEFINE c == Cut(d.size, b)
           e == [d EXCEPT !.size = c]
<1>1. d \in Datagrams /\ d.size \in Nat
  BY DEF Lawful, Datagrams
<1>2. b \in Nat /\ SOCKET_PACKET_LEN <= b
  BY UdpConstants
<1>3. c \in Nat
  BY <1>1, <1>2 DEF Cut
<1>4. Whole(d) => c = d.size
  <2>1. Whole(d) => d.size \in 1 .. SOCKET_PACKET_LEN
    BY UdpConstants DEF Whole, UdpCounts
  <2>2. \A z \in Nat : z \in 1 .. SOCKET_PACKET_LEN => Cut(z, b) = z
    BY <1>2, UdpConstants DEF Cut
  <2> QED
    BY <1>1, <2>1, <2>2
<1> HIDE DEF c
<1>5. e \in Datagrams /\ e.id = d.id /\ e.to = d.to /\ e.from = d.from /\ e.size = c
  BY <1>1, <1>3 DEF Datagrams
<1>6. (Whole(d) => Whole(e)) /\ (Strange(d) => Strange(e))
  BY <1>4, <1>5 DEF Whole, Strange
<1>7. e \in Lawful
  BY <1>5, <1>6 DEF Lawful
<1> QED
  BY <1>5, <1>7 DEF c

(* The reply to a datagram goes to where that came from. *)
LEMMA ReplyLawful ==
  ASSUME NEW d \in LawfulTo("server")
  PROVE  Datagram("server", d.from, d.id, d.size) \in Lawful
<1> DEFINE e == Datagram("server", d.from, d.id, d.size)
<1>1. d \in Datagrams /\ d.to = "server" /\ d.from # "server"
  BY DEF LawfulTo, Lawful
<1>2. e \in Datagrams /\ e.from = "server" /\ e.to = d.from /\ e.id = d.id /\ e.size = d.size
  BY <1>1 DEF Datagrams, Datagram
<1>3. (Whole(d) => Whole(e)) /\ (Strange(d) => Strange(e))
  BY <1>2 DEF Whole, Strange
<1>4. (d.from = "client" => Whole(d)) /\ (d.from = "other" => Strange(d))
  BY DEF LawfulTo, Lawful
<1> QED
  BY <1>1, <1>2, <1>3, <1>4 DEF Lawful

LEMMA NextOnTheWay ==
  ASSUME UdpCounts, OnTheWay, Buffered, [UdpNext]_udpVars
  PROVE  OnTheWay'
<1>1. Lawful \subseteq Lawful'
  BY StaysLawful
<1>2. ASSUME NEW x \in Lawful', network' \subseteq network \cup {x} PROVE OnTheWay'
  <2>1. IsFiniteSet(network \cup {x})
    BY FS_AddElement DEF OnTheWay
  <2>2. IsFiniteSet(network')
    BY <1>2, <2>1, FS_Subset
  <2> QED
    BY <1>1, <1>2, <2>2 DEF OnTheWay
<1>3. CASE UsSend
  <2>1. usBuf \in Seq(LawfulTo("server")) /\ Len(usBuf) = 1
    BY <1>3 DEF UsSend, Buffered
  <2>2. usBuf[1] \in LawfulTo("server")
    BY <2>1
  <2>3. Datagram("server", usBuf[1].from, usBuf[1].id, usBuf[1].size) \in Lawful'
    BY <1>1, <2>2, ReplyLawful
  <2>4. network' \subseteq network \cup {Datagram("server", usBuf[1].from, usBuf[1].id, usBuf[1].size)}
    BY <1>3 DEF UsSend, Received
  <2> QED
    BY <1>2, <2>3, <2>4
<1>4. CASE UtReadStdin
  <2>1. CASE linesRead' = linesRead + 1 /\ linesRead < linesTyped
    <3>0. PICK n \in Nat : n = linesRead + 1
      BY <2>1 DEF UdpCounts
    <3> DEFINE x == Datagram("client", "server", n, Lines[n])
    <3>1. n \in 1 .. Len(Lines) /\ n \in 1 .. Len(Lines) + MaxTrouble /\ Lines[n] \in Nat
      BY <2>1, <3>0, UdpConstants DEF UdpCounts
    <3>2. x \in Datagrams /\ x.from = "client" /\ x.to = "server" /\ x.id = n /\ x.size = Lines[n]
      BY <3>1 DEF Datagrams, Datagram
    <3>3. n \in 1 .. linesRead'
      BY <2>1, <3>0, <3>1
    <3>4. Whole(x)'
      BY <3>2, <3>3 DEF Whole
    <3>5. x \in Lawful'
      BY <3>2, <3>4 DEF Lawful
    <3>6. network' \subseteq network \cup {x}
      BY <1>4, <2>1, <3>0 DEF UtReadStdin
    <3> QED
      BY <1>2, <3>5, <3>6
  <2>2. CASE network' = network
    BY <1>1, <2>2 DEF OnTheWay
  <2> QED
    BY <1>4, <2>1, <2>2 DEF UtReadStdin
<1>5. CASE Arrive
  <2>1. network' \subseteq network
    BY <1>5 DEF Arrive
  <2>2. IsFiniteSet(network')
    BY <2>1, FS_Subset DEF OnTheWay
  <2> QED
    BY <1>1, <2>1, <2>2 DEF OnTheWay
<1>6. CASE Stray
  <2>1. PICK h \in Hosts, s \in Sizes : network' = network \cup {Datagram("other", h, StrayId, s)}
    BY <1>6 DEF Stray
  <2>2. PICK id \in 1 .. Len(Lines) + MaxTrouble :
          id = StrayId /\ id > Len(Lines) /\ id <= Len(Lines) + strays' /\ s \in Nat
    <3>1. strays \in Nat /\ copies \in Nat /\ strays + copies < MaxTrouble /\ strays' = strays + 1
      BY <1>6 DEF Stray, UdpCounts
    <3> QED
      BY <3>1, UdpConstants DEF StrayId
  <2> DEFINE x == Datagram("other", h, id, s)
  <2>3. x \in Datagrams /\ x.from = "other" /\ x.id = id
    BY <2>2 DEF Datagrams, Datagram, Hosts
  <2>4. Strange(x)'
    BY <2>2, <2>3 DEF Strange
  <2>5. x \in Lawful'
    BY <2>3, <2>4 DEF Lawful
  <2> QED
    BY <1>2, <2>1, <2>2, <2>5
<1>7. CASE network' = network
  BY <1>1, <1>7 DEF OnTheWay
<1> QED
  BY <1>3, <1>4, <1>5, <1>6, <1>7 DEF UdpNext, UdpServer, UdpClient, UsStart, UsRecv, UsRecvFails,
     UsTerminate, UsHandler, UtLoop, UtBind, UtRecv, UtHandler, UdpType, UdpEndOfInput, udpVars, netVars

(* What a step does to the two queues. *)
LEMMA InboxEffect ==
  ASSUME DOMAIN inbox = Hosts, [UdpNext]_udpVars
  PROVE  \/ inbox' = inbox
         \/ \E h \in Hosts : inbox' = [inbox EXCEPT ![h] = <<>>]
         \/ \E h \in Hosts : inbox[h] # <<>> /\ inbox' = [inbox EXCEPT ![h] = Tail(inbox[h])]
         \/ \E d \in network : d.to \in Hosts /\ inbox' = [inbox EXCEPT ![d.to] = Append(inbox[d.to], d)]
<1> USE DEF Hosts
<1>1. CASE UsRecv
  BY <1>1 DEF UsRecv
<1>2. CASE UsTerminate \/ UsHandler
  BY <1>2 DEF UsTerminate, UsHandler
<1>3. CASE UtRecv
  BY <1>3 DEF UtRecv
<1>4. CASE UtHandler
  BY <1>4 DEF UtHandler
<1>5. CASE Arrive
  BY <1>5 DEF Arrive
<1>6. CASE inbox' = inbox
  BY <1>6
<1> QED
  BY <1>1, <1>2, <1>3, <1>4, <1>5, <1>6 DEF UdpNext, UdpServer, UdpClient, UsStart, UsRecvFails,
     UsSend, UtLoop, UtBind, UtReadStdin, UdpType, UdpEndOfInput, Stray, udpVars, netVars

LEMMA NextWaiting ==
  ASSUME UdpCounts, OnTheWay, Waiting, [UdpNext]_udpVars
  PROVE  Waiting'
<1>1. ASSUME NEW h \in Hosts PROVE inbox[h] \in Seq(LawfulTo(h)')
  BY StaysLawful DEF Waiting
<1>2. CASE inbox' = inbox
  BY <1>1, <1>2 DEF Waiting
<1>3. ASSUME NEW h \in Hosts, NEW q \in Seq(LawfulTo(h)'), inbox' = [inbox EXCEPT ![h] = q]
      PROVE  Waiting'
  BY <1>1, <1>3 DEF Waiting
<1>4. CASE \E h \in Hosts : inbox' = [inbox EXCEPT ![h] = <<>>]
  <2>1. PICK h \in Hosts : inbox' = [inbox EXCEPT ![h] = <<>>]
    BY <1>4
  <2>2. <<>> \in Seq(LawfulTo(h)')
    BY EmptySeq
  <2> QED
    BY <1>3, <2>1, <2>2
<1>5. CASE \E h \in Hosts : inbox[h] # <<>> /\ inbox' = [inbox EXCEPT ![h] = Tail(inbox[h])]
  <2>1. PICK h \in Hosts : inbox[h] # <<>> /\ inbox' = [inbox EXCEPT ![h] = Tail(inbox[h])]
    BY <1>5
  <2>2. Tail(inbox[h]) \in Seq(LawfulTo(h)')
    BY <1>1, <2>1
  <2> QED
    BY <1>3, <2>1, <2>2
<1>6. CASE \E d \in network : d.to \in Hosts /\ inbox' = [inbox EXCEPT ![d.to] = Append(inbox[d.to], d)]
  <2>1. PICK d \in network : d.to \in Hosts /\ inbox' = [inbox EXCEPT ![d.to] = Append(inbox[d.to], d)]
    BY <1>6
  <2>2. PICK h \in Hosts : h = d.to
    BY <2>1
  <2>3. d \in LawfulTo(h)'
    BY <2>1, <2>2, StaysLawful DEF OnTheWay, LawfulTo
  <2>4. Append(inbox[h], d) \in Seq(LawfulTo(h)')
    BY <1>1, <2>3
  <2> QED
    BY <1>3, <2>1, <2>2, <2>4
<1> QED
  BY <1>2, <1>4, <1>5, <1>6, InboxEffect DEF Waiting

LEMMA NextBuffered ==
  ASSUME UdpCounts, Waiting, Buffered, [UdpNext]_udpVars
  PROVE  Buffered'
<1>h. "server" \in Hosts
  BY DEF Hosts
<1>1. usBuf \in Seq(LawfulTo("server")')
  BY <1>h, StaysLawful DEF Buffered
<1>2. CASE UsRecv
  <2> DEFINE d == Head(inbox["server"])
             e == [d EXCEPT !.size = Cut(@, MAX_BUFF_SIZE)]
  <2>1. d \in LawfulTo("server")
    BY <1>h, <1>2 DEF UsRecv, Waiting
  <2>2. e \in Lawful /\ e.to = d.to
    BY <2>1, CutLawful DEF LawfulTo
  <2>3. usBuf' = <<e>>
    BY <1>2 DEF UsRecv
  <2> HIDE DEF e
  <2>4. e \in LawfulTo("server")'
    BY <1>h, <2>1, <2>2, StaysLawful DEF LawfulTo
  <2> QED
    BY <2>3, <2>4 DEF Buffered
<1>3. CASE UsSend
  BY <1>3 DEF UsSend, Buffered
<1>4. CASE usBuf' = usBuf /\ (usPc' = "send" => usPc = "send")
  BY <1>1, <1>4 DEF Buffered
<1> QED
  BY <1>2, <1>3, <1>4 DEF UdpNext, UdpServer, UdpClient, UsStart, UsRecvFails, UsTerminate, UsHandler,
     AfterError, UtLoop, UtBind, UtReadStdin, UtRecv, UtHandler, UdpType, UdpEndOfInput, Arrive, Stray,
     udpVars, usVars

LEMMA NextPrinted ==
  ASSUME UdpCounts, Waiting, Printed, [UdpNext]_udpVars
  PROVE  Printed'
<1>h. "client" \in Hosts
  BY DEF Hosts
<1>1. shown \in Seq(LawfulTo("client")')
  BY <1>h, StaysLawful DEF Printed
<1>2. CASE UtRecv /\ fd_client /\ inbox["client"] # <<>>
  <2> DEFINE d == Head(inbox["client"])
             e == [d EXCEPT !.size = Cut(@, SOCKET_PACKET_LEN)]
  <2>1. d \in LawfulTo("client")
    BY <1>h, <1>2 DEF Waiting
  <2>2. e \in Lawful /\ e.to = d.to
    BY <2>1, CutLawful DEF LawfulTo
  <2>3. shown' = Append(shown, e) \/ shown' = shown
    BY <1>2 DEF UtRecv
  <2> HIDE DEF e
  <2>4. e \in LawfulTo("client")'
    BY <1>h, <2>1, <2>2, StaysLawful DEF LawfulTo
  <2> QED
    BY <1>1, <2>3, <2>4 DEF Printed
<1>3. CASE shown' = shown
  BY <1>1, <1>3 DEF Printed
<1> QED
  BY <1>2, <1>3 DEF UdpNext, UdpServer, UdpClient, UsStart, UsRecv, UsRecvFails, UsSend, UsTerminate,
     UsHandler, UtLoop, UtBind, UtReadStdin, UtRecv, UtHandler, UdpType, UdpEndOfInput, Arrive, Stray,
     udpVars, utVars

(* Everything that is anywhere is a line that was read, or of others.      *)
LEMMA NewIdentity ==
  ASSUME OnTheWay, Waiting, Buffered, Printed, NEW id \in Nat,
         id \notin 1 .. linesRead, ~(id > Len(Lines) /\ id <= Len(Lines) + strays)
  PROVE  Places(id) = 0
<1>1. ASSUME NEW d \in Lawful PROVE d.id # id
  <2>1. Whole(d) \/ Strange(d)
    BY DEF Lawful, Datagrams
  <2> QED
    BY <2>1 DEF Whole, Strange
<1>2. ASSUME NEW h \in Hosts, NEW s \in Seq(LawfulTo(h)) PROVE Seen(s, id) = 0
  <2>1. \A k \in DOMAIN s : s[k].id # id
    BY <1>1, InSequence DEF LawfulTo
  <2> QED
    BY <2>1, SeenNone
<1>3. Flying(network, id) = 0
  BY <1>1, FlyingNone DEF OnTheWay
<1> QED
  BY <1>2, <1>3 DEF Places, Waiting, Buffered, Printed, Hosts

LEMMA PlacesTypes ==
  ASSUME OnTheWay, Waiting, Buffered, Printed, NEW id
  PROVE  /\ Seen(shown, id) \in Nat /\ Seen(inbox["server"], id) \in Nat /\ Seen(inbox["client"], id) \in Nat
         /\ Seen(usBuf, id) \in Nat /\ Flying(network, id) \in Nat
<1>1. "server" \in Hosts /\ "client" \in Hosts
  BY DEF Hosts
<1>2. inbox["server"] \in Seq(LawfulTo("server")) /\ inbox["client"] \in Seq(LawfulTo("client"))
  BY <1>1 DEF Waiting
<1> QED
  BY <1>2, SeenFinite, FlyingFinite DEF OnTheWay, Buffered, Printed

LEMMA PlacesTypesAfter ==
  ASSUME OnTheWay', Waiting', Buffered', Printed', NEW id
  PROVE  /\ Seen(shown', id) \in Nat /\ Seen(inbox'["server"], id) \in Nat /\ Seen(inbox'["client"], id) \in Nat
         /\ Seen(usBuf', id) \in Nat /\ Flying(network', id) \in Nat
<1>1. "server" \in Hosts /\ "client" \in Hosts
  BY DEF Hosts
<1>2. inbox'["server"] \in Seq(LawfulTo("server")') /\ inbox'["client"] \in Seq(LawfulTo("client")')
  BY <1>1 DEF Waiting
<1> QED
  BY <1>2, SeenFinite, FlyingFinite DEF OnTheWay, Buffered, Printed

(* What a step may make more of, and of which identity. *)
LEMMA RecvMoves ==
  ASSUME UdpCounts, OnTheWay, Waiting, Buffered, Printed, UsRecv, NEW id
  PROVE  Places(id)' <= Places(id)
<1> DEFINE d == Head(inbox["server"])
           e == [d EXCEPT !.size = Cut(@, MAX_BUFF_SIZE)]
<1>1. inbox["server"] \in Seq(LawfulTo("server")) /\ inbox["server"] # <<>>
  BY DEF UsRecv, Waiting, Hosts
<1>2. d \in Lawful
  BY <1>1 DEF LawfulTo
<1>3. e.id = d.id
  BY <1>2, CutLawful
<1>4. /\ usBuf' = <<e>> /\ shown' = shown /\ network' = network
      /\ inbox'["server"] = Tail(inbox["server"]) /\ inbox'["client"] = inbox["client"]
  BY DEF UsRecv, Waiting, Hosts, utVars
<1> HIDE DEF e
<1>5. Seen(<<e>>, id) = One(d.id = id)
  BY <1>3, SeenOne
<1>6. Seen(Tail(inbox["server"]), id) + One(d.id = id) <= Seen(inbox["server"], id)
  BY <1>1, SeenTail
<1>7. Tail(inbox["server"]) \in Seq(LawfulTo("server"))
  BY <1>1
<1>8. Seen(Tail(inbox["server"]), id) \in Nat /\ One(d.id = id) \in Nat
  BY <1>7, SeenFinite DEF One
<1>9. Places(id)' = Seen(shown, id) + Seen(Tail(inbox["server"]), id) + Seen(inbox["client"], id)
                    + One(d.id = id) + Flying(network, id)
  BY <1>4, <1>5 DEF Places
<1> QED
  BY <1>6, <1>8, <1>9, PlacesTypes DEF Places

LEMMA SendMoves ==
  ASSUME UdpCounts, OnTheWay, Waiting, Buffered, Printed, UsSend, NEW id
  PROVE  Places(id)' <= Places(id)
<1> DEFINE x == Datagram("server", usBuf[1].from, usBuf[1].id, Received)
<1>1. usBuf \in Seq(LawfulTo("server")) /\ Len(usBuf) = 1
  BY DEF UsSend, Buffered
<1>2. usBuf = <<usBuf[1]>>
  BY <1>1
<1>3. x.id = usBuf[1].id
  BY DEF Datagram
<1>4. Seen(usBuf, id) = One(x.id = id)
  BY <1>2, <1>3, SeenOne
<1>5. /\ usBuf' = <<>> /\ shown' = shown /\ inbox' = inbox
      /\ network' = network \cup {x} \/ network' = network
  BY DEF UsSend, utVars
<1> HIDE DEF x
<1>6. One(x.id = id) \in Nat
  BY DEF One
<1>7. Flying(network', id) <= Flying(network, id) + One(x.id = id)
  BY <1>5, <1>6, FlyingMore, PlacesTypes DEF OnTheWay
<1>8. Flying(network', id) \in Nat
  <2>1. IsFiniteSet(network')
    BY <1>5, FS_AddElement DEF OnTheWay
  <2> QED
    BY <2>1, FlyingFinite
<1>9. Places(id)' = Seen(shown, id) + Seen(inbox["server"], id) + Seen(inbox["client"], id)
                    + 0 + Flying(network', id)
  BY <1>5, SeenEmpty DEF Places
<1> QED
  BY <1>4, <1>6, <1>7, <1>8, <1>9, PlacesTypes DEF Places

LEMMA PrintMoves ==
  ASSUME UdpCounts, OnTheWay, Waiting, Buffered, Printed, UtRecv, NEW id
  PROVE  Places(id)' <= Places(id)
<1>1. UNCHANGED <<usBuf, network>> /\ DOMAIN inbox = Hosts
  BY DEF UtRecv, usVars, Waiting
<1>2. CASE UNCHANGED <<shown, inbox>>
  BY <1>1, <1>2, PlacesTypes DEF Places
<1>3. CASE ~UNCHANGED <<shown, inbox>>
  <2> DEFINE d == Head(inbox["client"])
             e == [d EXCEPT !.size = Cut(@, SOCKET_PACKET_LEN)]
  <2>1. inbox["client"] \in Seq(LawfulTo("client")) /\ inbox["client"] # <<>>
    BY <1>3 DEF UtRecv, Waiting, Hosts
  <2>2. d \in Lawful /\ d.to = "client"
    BY <2>1 DEF LawfulTo
  <2>c. e.id = d.id /\ e \in Lawful /\ e.to = d.to
    BY <2>2, CutLawful
  <2>3. e.id = d.id /\ e \in LawfulTo("client")
    BY <2>2, <2>c DEF LawfulTo
  <2>4. /\ shown' = Append(shown, e) \/ shown' = shown
        /\ inbox'["client"] = Tail(inbox["client"]) /\ inbox'["server"] = inbox["server"]
    BY <1>1, <1>3 DEF UtRecv, Hosts
  <2> HIDE DEF e
  <2>5. One(d.id = id) \in Nat
    BY DEF One
  <2>6. Seen(Append(shown, e), id) = Seen(shown, id) + One(d.id = id)
    BY <2>3, SeenAppend DEF Printed
  <2>7. Seen(shown', id) \in Nat /\ Seen(shown', id) <= Seen(shown, id) + One(d.id = id)
    <3>1. Seen(shown, id) \in Nat
      BY PlacesTypes
    <3>2. Seen(shown', id) \in {Seen(shown, id), Seen(shown, id) + One(d.id = id)}
      BY <2>4, <2>6
    <3> QED
      BY <2>5, <3>1, <3>2
  <2>8. Seen(Tail(inbox["client"]), id) + One(d.id = id) <= Seen(inbox["client"], id)
    BY <2>1, SeenTail
  <2>9. Tail(inbox["client"]) \in Seq(LawfulTo("client"))
    BY <2>1
  <2>10. Seen(Tail(inbox["client"]), id) \in Nat
    BY <2>9, SeenFinite
  <2>11. Places(id)' = Seen(shown', id) + Seen(inbox["server"], id) + Seen(Tail(inbox["client"]), id)
                       + Seen(usBuf, id) + Flying(network, id)
    BY <1>1, <2>4 DEF Places
  <2> QED
    BY <2>5, <2>7, <2>8, <2>10, <2>11, PlacesTypes DEF Places
<1> QED
  BY <1>2, <1>3

LEMMA HandlerMoves ==
  ASSUME OnTheWay, Waiting, Buffered, Printed, UsTerminate \/ UsHandler \/ UtHandler, NEW id
  PROVE  Places(id)' <= Places(id)
<1>1. UNCHANGED <<shown, usBuf, network>> /\ DOMAIN inbox = Hosts
  BY DEF UsTerminate, UsHandler, UtHandler, usVars, utVars, Waiting
<1>2. PICK h \in Hosts : inbox' = [inbox EXCEPT ![h] = <<>>]
  BY DEF UsTerminate, UsHandler, UtHandler, Hosts
<1>3. /\ Seen(inbox'["server"], id) \in {0, Seen(inbox["server"], id)}
      /\ Seen(inbox'["client"], id) \in {0, Seen(inbox["client"], id)}
  BY <1>1, <1>2, SeenEmpty DEF Hosts
<1>4. Places(id)' = Seen(shown, id) + Seen(inbox'["server"], id) + Seen(inbox'["client"], id)
                    + Seen(usBuf, id) + Flying(network, id)
  BY <1>1 DEF Places
<1> QED
  BY <1>3, <1>4, PlacesTypes DEF Places

LEMMA ArriveMoves ==
  ASSUME UdpCounts, OnTheWay, Waiting, Buffered, Printed, Arrive, NEW id
  PROVE  Places(id)' - copies' <= Places(id) - copies
<1>1. UNCHANGED <<shown, usBuf>> /\ DOMAIN inbox = Hosts
  BY DEF Arrive, usVars, utVars, Waiting
<1>2. PICK d \in network :
        /\ d.to \in Hosts /\ inbox' = [inbox EXCEPT ![d.to] = Append(inbox[d.to], d)]
        /\ \/ network' = network \ {d} /\ copies' = copies
           \/ copies' = copies + 1 /\ network' = network
  BY DEF Arrive
<1>3. PICK h \in Hosts : h = d.to
  BY <1>2
<1>4. d \in LawfulTo(h) /\ inbox[h] \in Seq(LawfulTo(h))
  BY <1>3 DEF OnTheWay, LawfulTo, Waiting
<1>5. One(d.id = id) \in 0 .. 1
  BY DEF One
<1>6. Seen(Append(inbox[h], d), id) = Seen(inbox[h], id) + One(d.id = id)
  BY <1>4, SeenAppend
<1>7. Seen(inbox'["server"], id) + Seen(inbox'["client"], id)
        = Seen(inbox["server"], id) + Seen(inbox["client"], id) + One(d.id = id)
  <2>1. CASE h = "server"
    <3>1. inbox'["server"] = Append(inbox["server"], d) /\ inbox'["client"] = inbox["client"]
      BY <1>1, <1>2, <1>3, <2>1 DEF Hosts
    <3> QED
      BY <1>5, <1>6, <2>1, <3>1, PlacesTypes
  <2>2. CASE h = "client"
    <3>1. inbox'["client"] = Append(inbox["client"], d) /\ inbox'["server"] = inbox["server"]
      BY <1>1, <1>2, <1>3, <2>2 DEF Hosts
    <3> QED
      BY <1>5, <1>6, <2>2, <3>1, PlacesTypes
  <2> QED
    BY <2>1, <2>2 DEF Hosts
<1>8. PICK s \in Nat, c \in Nat : s = Seen(inbox'["server"], id) /\ c = Seen(inbox'["client"], id)
  <2>1. inbox'["server"] \in Seq(Lawful) /\ inbox'["client"] \in Seq(Lawful)
    <3>1. \A g \in Hosts : inbox[g] \in Seq(Lawful)
      BY SeqOfMore DEF Waiting, LawfulTo
    <3>2. d \in Lawful
      BY DEF OnTheWay
    <3>3. \A g \in Hosts : inbox'[g] = inbox[g] \/ inbox'[g] = Append(inbox[g], d)
      BY <1>1, <1>2
    <3>4. \A g \in Hosts : Append(inbox[g], d) \in Seq(Lawful)
      BY <3>1, <3>2
    <3> QED
      BY <3>1, <3>3, <3>4 DEF Hosts
  <2> QED
    BY <2>1, SeenFinite
<1>9. Flying(network', id) \in Nat /\ copies \in Nat
      /\ \/ Flying(network', id) + One(d.id = id) = Flying(network, id) /\ copies' = copies
         \/ Flying(network', id) = Flying(network, id) /\ copies' = copies + 1
  <2>1. CASE network' = network \ {d} /\ copies' = copies
    <3>1. IsFiniteSet(network')
      BY <2>1, FS_RemoveElement DEF OnTheWay
    <3>2. Flying(network \ {d}, id) + One(d.id = id) = Flying(network, id)
      BY FlyingLess DEF OnTheWay
    <3> QED
      BY <2>1, <3>1, <3>2, FlyingFinite DEF UdpCounts
  <2>2. CASE copies' = copies + 1 /\ network' = network
    BY <2>2, PlacesTypes DEF UdpCounts
  <2> QED
    BY <1>2, <2>1, <2>2
<1>10. Places(id)' = Seen(shown, id) + s + c + Seen(usBuf, id) + Flying(network', id)
  BY <1>1, <1>8 DEF Places
<1> QED
  BY <1>5, <1>7, <1>8, <1>9, <1>10, PlacesTypes DEF Places

(* A new identity has been nowhere before. *)
LEMMA NewMoves ==
  ASSUME OnTheWay, Waiting, Buffered, Printed, NEW x, NEW id \in Nat,
         UNCHANGED <<shown, inbox, usBuf>>, network' = network \cup {x},
         x.id = id => Places(id) = 0
  PROVE  Places(id)' <= Places(id) \/ Places(id)' <= 1
<1>1. Flying(network', id) <= Flying(network, id) + One(x.id = id)
  BY FlyingMore DEF OnTheWay
<1>2. Flying(network', id) \in Nat
  BY FS_AddElement, FlyingFinite DEF OnTheWay
<1>3. Places(id)' = Seen(shown, id) + Seen(inbox["server"], id) + Seen(inbox["client"], id)
                    + Seen(usBuf, id) + Flying(network', id)
  BY DEF Places
<1> QED
  BY <1>1, <1>2, <1>3, PlacesTypes DEF Places, One

LEMMA NextOnce ==
  ASSUME UdpCounts, OnTheWay, Waiting, Buffered, Printed, OncePerCopy, [UdpNext]_udpVars
  PROVE  OncePerCopy'
<1>1. copies \in Nat /\ copies' \in Nat /\ copies <= copies'
  BY UdpCounters DEF UdpCounts
<1>2. SUFFICES ASSUME NEW id \in Nat PROVE Places(id)' <= 1 + copies'
  BY DEF OncePerCopy
<1>3. Places(id) \in Nat /\ Places(id) <= 1 + copies
  BY PlacesTypes DEF Places, OncePerCopy
<1>n. Places(id)' \in Nat
  <2>1. UdpCounts' /\ OnTheWay' /\ Waiting' /\ Buffered' /\ Printed'
    BY UdpCounters, NextOnTheWay, NextWaiting, NextBuffered, NextPrinted
  <2> QED
    BY <2>1, PlacesTypesAfter DEF Places
<1>4. CASE UsRecv \/ UsSend \/ UtRecv \/ UsTerminate \/ UsHandler \/ UtHandler
  BY <1>1, <1>3, <1>4, <1>n, RecvMoves, SendMoves, PrintMoves, HandlerMoves
<1>5. CASE Arrive
  BY <1>1, <1>3, <1>5, <1>n, ArriveMoves
<1>6. CASE UtReadStdin /\ linesRead' = linesRead + 1 /\ network' # network
  <2>1. PICK n \in Nat : n = linesRead + 1
    BY DEF UdpCounts
  <2> DEFINE x == Datagram("client", "server", n, Lines[n])
  <2>2. UNCHANGED <<shown, inbox, usBuf>> /\ network' = network \cup {x}
    BY <1>6, <2>1 DEF UtReadStdin, usVars
  <2>3. x.id = n
    BY DEF Datagram
  <2>4. n \notin 1 .. linesRead /\ n <= Len(Lines)
    <3>1. linesRead < linesTyped
      BY <1>6 DEF UtReadStdin, UdpCounts
    <3> QED
      BY <2>1, <3>1, UdpConstants DEF UdpCounts
  <2>5. x.id = id => Places(id) = 0
    BY <2>3, <2>4, NewIdentity, UdpConstants
  <2> HIDE DEF x
  <2> QED
    BY <1>1, <1>3, <1>n, <2>2, <2>5, NewMoves
<1>7. CASE Stray
  <2>1. PICK h \in Hosts, s \in Sizes : network' = network \cup {Datagram("other", h, StrayId, s)}
    BY <1>7 DEF Stray
  <2>2. PICK n \in Nat : n = StrayId /\ n > Len(Lines) + strays
    BY UdpConstants DEF StrayId, UdpCounts
  <2> DEFINE x == Datagram("other", h, n, s)
  <2>3. UNCHANGED <<shown, inbox, usBuf>> /\ network' = network \cup {x}
    BY <1>7, <2>1, <2>2 DEF Stray, usVars, utVars
  <2>4. x.id = n
    BY DEF Datagram
  <2>5. n \notin 1 .. linesRead
    BY <2>2, UdpConstants DEF UdpCounts
  <2>6. x.id = id => Places(id) = 0
    BY <2>2, <2>4, <2>5, NewIdentity, UdpConstants DEF UdpCounts
  <2> HIDE DEF x
  <2> QED
    BY <1>1, <1>3, <1>n, <2>3, <2>6, NewMoves
<1>8. CASE UNCHANGED <<shown, inbox, usBuf, network>>
  <2>1. Places(id)' = Places(id)
    BY <1>8 DEF Places
  <2> QED
    BY <1>1, <1>3, <2>1
<1> QED
  <2>1. UtReadStdin => UNCHANGED <<shown, inbox, usBuf>>
                       /\ (network' = network \/ linesRead' = linesRead + 1)
    BY DEF UtReadStdin, usVars
  <2> QED
    BY <1>4, <1>5, <1>6, <1>7, <1>8, <2>1 DEF UdpNext, UdpServer, UdpClient, UsStart, UsRecvFails,
       UtLoop, UtBind, UdpType, UdpEndOfInput, udpVars, usVars, utVars, netVars

LEMMA UdpAlways == UdpSpec => []UdpInv
<1>1. UdpInv /\ [UdpNext]_udpVars => UdpInv'
  BY UdpCounters, NextOnTheWay, NextWaiting, NextBuffered, NextPrinted, NextOnce DEF UdpInv
<1> QED
  BY <1>1, UdpInitInv, PTL DEF UdpSpec

LEMMA UdpSafe == UdpInv => UdpEchoes
<1> SUFFICES ASSUME UdpInv, NEW k \in DOMAIN shown
             PROVE  /\ TimesShown(shown[k].id) <= 1 + copies
                    /\ shown[k].from = "server" =>
                         shown[k].id \in 1 .. linesRead /\ shown[k].size = Lines[shown[k].id]
                    /\ shown[k].from # "server" => shown[k].id > Len(Lines)
  BY DEF UdpEchoes
<1> USE DEF UdpInv
<1>1. shown[k] \in LawfulTo("client")
  BY InSequence DEF Printed
<1>2. shown[k].id \in Nat
  BY <1>1, UdpConstants DEF LawfulTo, Lawful, Datagrams
<1>3. TimesShown(shown[k].id) <= 1 + copies
  <2>1. Places(shown[k].id) <= 1 + copies
    BY <1>2 DEF OncePerCopy
  <2>2. Seen(shown, shown[k].id) <= Places(shown[k].id)
    BY PlacesTypes DEF Places
  <2>3. Seen(shown, shown[k].id) \in Nat /\ Places(shown[k].id) \in Nat /\ copies \in Nat
    BY PlacesTypes DEF Places, UdpCounts
  <2>4. TimesShown(shown[k].id) = Seen(shown, shown[k].id)
    BY DEF TimesShown, Seen
  <2> QED
    BY <2>1, <2>2, <2>3, <2>4
<1>4. shown[k].from \in {"server", "client", "other"} /\ shown[k].to = "client"
  BY <1>1 DEF LawfulTo, Lawful, Datagrams
<1>5. /\ shown[k].from = "server" => Whole(shown[k])
      /\ shown[k].from # "server" => Strange(shown[k])
  BY <1>1, <1>4 DEF LawfulTo, Lawful
<1> QED
  BY <1>3, <1>5 DEF Whole, Strange

(* What is shown of the network is what was sent, by whom and to whom,     *)
(* wherever it was lost, doubled or reordered: by the datagram programs    *)
(* (udp_echo.c:160-176, udp_test.c:170-199), by multicast_recv            *)
(* (multicast_recv.c:269-290) and of mgroup (multicast_group.c:100-121),   *)
(* for buffers of any size and any number of lines, datagrams and groups.  *)
THEOREM DatagramsShown == UdpSpec /\ MulticastSpec => []DatagramsAreTrue
<1>1. UdpInv /\ McInv => DatagramsAreTrue
  BY UdpSafe, McSafe DEF DatagramsAreTrue
<1> QED
  BY <1>1, UdpAlways, McAlways, PTL
-----------------------------------------------------------------------------
(* All programs of MCPrograms, one of which runs. *)

(* The types that the invariants above leave out. *)
UdpControl ==
  /\ usPc \in {"start", "recv", "send", "closing", "exit"} /\ fd_server \in BOOLEAN
  /\ Ut!LoopTypeOK /\ utEnded \in BOOLEAN
McControl ==
  /\ mrPc \in {"socket", "bind", "join", "recv", "exit"}
  /\ fd_sock \in {"none", "bound", "member", "lost", "closed"}
  /\ mgPc \in {"options", "read", "exit"}
McBounds == mgSock \in -1 .. Len(mgArgs) /\ unicasts \in 0 .. MaxUnicast

LEMMA NextUdpControl == UdpControl /\ [UdpNext]_udpVars => UdpControl'
<1> SUFFICES ASSUME UdpControl, [UdpNext]_udpVars PROVE UdpControl'
  OBVIOUS
<1> USE DEF UdpControl, Ut!LoopTypeOK
<1>1. CASE UdpServer \/ UsHandler
  BY <1>1 DEF UdpServer, UsStart, UsRecv, AfterRecv, UsRecvFails, AfterError, UsSend, UsTerminate,
     UsHandler, utLoop, userVars
<1>2. CASE UtLoop
  BY <1>2 DEF UtLoop, Ut!Start, Ut!BuildFlags, Ut!SelectReady, Ut!SelectFails, Ut!Terminate,
     usVars, userVars
<1>3. CASE UtBind \/ UtReadStdin \/ UtRecv \/ UtHandler
  BY <1>3 DEF UtBind, UtReadStdin, Ut!AfterStdin, UtRecv, UtHandler, Ut!Handler, Ut!AfterSelectError,
     usVars, userVars
<1>4. CASE UdpType \/ Arrive \/ Stray
  BY <1>4 DEF UdpType, Arrive, Stray, usVars, utLoop, userVars
<1>5. CASE UdpEndOfInput \/ UNCHANGED udpVars
  BY <1>5 DEF UdpEndOfInput, udpVars, usVars, utLoop, userVars
<1> QED
  BY <1>1, <1>2, <1>3, <1>4, <1>5 DEF UdpNext, UdpClient

LEMMA NextMcControl == McControl /\ [MulticastNext]_mcVars => McControl'
<1> SUFFICES ASSUME McControl, [MulticastNext]_mcVars PROVE McControl'
  OBVIOUS
<1> USE DEF McControl, mrVars, mgVars
<1>1. CASE McReceiver
  BY <1>1 DEF McReceiver, McGiveUp, McSocket, McBind, McJoin, McRecv, MayLose
<1>2. CASE McGroup
  BY <1>2 DEF McGroup, McOption, McOptionsEnd, McRead
<1>3. CASE SetupSend \/ SendWord \/ McArrive \/ McUnicast \/ UNCHANGED mcVars
  BY <1>3 DEF SetupSend, SendWord, McArrive, McUnicast, mcVars
<1> QED
  BY <1>1, <1>2, <1>3 DEF MulticastNext

LEMMA NextMcBounds == McRuns /\ McBounds /\ [MulticastNext]_mcVars => McBounds'
<1> SUFFICES ASSUME McRuns, McBounds, [MulticastNext]_mcVars PROVE McBounds'
  OBVIOUS
<1>1. mgArgs' = mgArgs
  BY McLasts
<1>2. CASE McOption
  <2>1. mgSock' = -1 \/ mgSock' = mgAt
    BY <1>2 DEF McOption
  <2>2. mgAt \in 1 .. Len(mgArgs) /\ Len(mgArgs) \in Nat
    BY <1>2 DEF McOption, McRuns
  <2>3. unicasts' = unicasts
    BY <1>2 DEF McOption
  <2> QED
    BY <1>1, <2>1, <2>2, <2>3 DEF McBounds
<1>3. CASE McUnicast
  <2>1. mgSock' = mgSock /\ unicasts < MaxUnicast /\ unicasts' = unicasts + 1
    BY <1>3 DEF McUnicast, mgVars
  <2> QED
    BY <1>1, <2>1, MulticastOK DEF MulticastOK, McBounds
<1>4. CASE UNCHANGED <<mgSock, unicasts>>
  BY <1>1, <1>4 DEF McBounds
<1> QED
  BY <1>2, <1>3, <1>4 DEF MulticastNext, McReceiver, McGiveUp, McSocket, McBind, McJoin, McRecv,
     SetupSend, SendWord, McGroup, McOptionsEnd, McRead, McArrive, mcVars, mgVars

UdpAll == UdpInv /\ UdpControl
McAll  == McInv /\ McControl /\ McBounds

LEMMA UdpTypes == UdpAll => UdpTypeOK
<1> SUFFICES ASSUME UdpAll PROVE UdpTypeOK
  OBVIOUS
<1> USE DEF UdpAll, UdpInv
<1>1. \A h \in Hosts : LawfulTo(h) \subseteq Datagrams
  BY DEF LawfulTo, Lawful
<1>2. "server" \in Hosts /\ "client" \in Hosts
  BY DEF Hosts
<1>3. usBuf \in Seq(Datagrams) /\ Len(usBuf) <= 1 /\ shown \in Seq(Datagrams)
  BY <1>1, <1>2, SeqOfMore DEF Buffered, Printed
<1>4. \A h \in Hosts : inbox[h] \in Seq(Datagrams)
  BY <1>1, SeqOfMore DEF Waiting
<1>5. inbox \in [Hosts -> Seq(Datagrams)]
  <2>1. inbox = [h \in Hosts |-> inbox[h]]
    BY DEF Waiting
  <2> QED
    BY <1>4, <2>1
<1>6. network \subseteq Datagrams
  BY DEF OnTheWay, Lawful
<1> QED
  BY <1>3, <1>5, <1>6 DEF UdpTypeOK, UdpControl, UdpCounts

LEMMA McTypes == McAll => MulticastTypeOK
  BY DEF McAll, McInv, McRuns, McControl, McBounds, MulticastTypeOK

(* A program that is not the one that runs. *)
LEMMA MonIdleInv == MonIdle => MonInv
<1> SUFFICES ASSUME MonIdle PROVE MonInv
  OBVIOUS
<1> USE DEF MonIdle, ExitedWith0
<1>1. TypeOK
  <2>1. NoStatus \in Statuses /\ ExitedWith0 \in Statuses
    BY DEF NoStatus, Statuses
  <2>2. /\ interrupts \in 0 .. MaxInterrupts /\ pending \subseteq AllSignals
        /\ sent \in Seq(Signals) /\ delivered \in Seq(AllSignals)
    BY ConstantsOK, EmptySeq DEF ConstantsOK
  <2> QED
    BY <2>1, <2>2 DEF TypeOK
<1>2. Kernel /\ MonControl /\ Passing
  BY DEF Kernel, MonControl, Passing, NoStatus
<1>3. Sourced
  BY Constants DEF Sourced, NoStatus
<1>4. Bounded
  <2>1. ASSUME NEW s \in Signals PROVE Count(delivered, s) = 0 /\ Count(sent, s) = 0 /\ InFlight(s) = 0
    BY CountOfEmpty DEF InFlight, One
  <2>2. One(pc = "handler") = 0
    BY DEF One
  <2>3. interrupts \in Nat
    BY ConstantsOK DEF ConstantsOK
  <2> QED
    BY <2>1, <2>2, <2>3 DEF Bounded
<1> QED
  BY <1>1, <1>2, <1>3, <1>4 DEF MonInv, Transparent

LEMMA TcIdleInv == TcIdle => IInv
<1> SUFFICES ASSUME TcIdle PROVE IInv
  OBVIOUS
<1>1. /\ tcPc = "exit" /\ fd_tcp = FALSE /\ tcFlags = {} /\ ended = TRUE
      /\ link = "none" /\ error = "none" /\ echoPc = "gone"
      /\ tcBuf = <<>> /\ printed = <<>> /\ forward = <<>> /\ back = <<>> /\ echoBuf = <<>>
  BY DEF TcIdle
<1>2. typed = 0 /\ taken = 0
  BY DEF TcIdle
<1>3. Len(<<>>) = 0 /\ <<>> \in Seq(1 .. taken)
  OBVIOUS
<1>4. Control
  BY <1>1 DEF Control, Tc!LoopTypeOK
<1>5. Counts
  BY <1>2, TcSizes DEF Counts
<1>6. Bytes
  <2>1. 0 <= CHUNK /\ 0 <= FORWARD /\ 0 <= ECHO_CHUNK /\ 0 <= BACK
    BY TcSizes
  <2> QED
    BY <1>1, <1>3, <2>1, Zenon DEF Bytes
<1>7. ClientBuffer /\ ServerBuffer /\ Flags /\ Limited
  BY <1>1 DEF ClientBuffer, ServerBuffer, Flags, Limited
<1>8. Connection
  BY <1>1, <1>2, Zenon DEF Connection
<1>9. Chain
  BY <1>1, EmptyRun DEF Chain
<1> QED
  BY <1>4, <1>5, <1>6, <1>7, <1>8, <1>9 DEF IInv

LEMMA UdpIdleInv == UdpIdle => UdpAll
<1> SUFFICES ASSUME UdpIdle PROVE UdpAll
  OBVIOUS
<1> USE DEF UdpIdle
<1>1. UdpCounts
  BY UdpConstants DEF UdpCounts
<1>2. OnTheWay /\ Waiting /\ Buffered /\ Printed
  BY FS_EmptySet DEF OnTheWay, Waiting, Buffered, Printed
<1>3. ASSUME NEW id \in Nat PROVE Places(id) = 0
  <2>1. inbox["server"] = <<>> /\ inbox["client"] = <<>>
    BY DEF Hosts
  <2>2. Flying({}, id) = 0
    BY FlyingNone
  <2> QED
    BY <2>1, <2>2, SeenEmpty DEF Places
<1>4. OncePerCopy
  BY <1>3 DEF OncePerCopy
<1>5. UdpControl
  BY DEF UdpControl, Ut!LoopTypeOK
<1> QED
  BY <1>1, <1>2, <1>4, <1>5 DEF UdpInv, UdpAll

LEMMA UdpStartInv == UdpInit => UdpAll
  BY UdpInitInv DEF UdpInit, Ut!LoopInit, UdpControl, Ut!LoopTypeOK, UdpAll

LEMMA PsIdleInv == PsIdle => PsInv
<1> SUFFICES ASSUME PsIdle PROVE PsInv
  OBVIOUS
<1> USE DEF PsIdle
<1>1. psLine = [percent |-> 0, used |-> 0, same |-> FALSE] /\ 0 \in Word
  BY WordsOf, PsConstants DEF NoLine, Word
<1>2. PsTypes
  <2>1. interval \in Nat /\ loops \in Nat /\ wait \in 0 .. interval /\ count \in 0 .. loops
    OBVIOUS
  <2>2. reused \in 0 .. MaxReuse /\ file \in 0 .. reused
    BY PsConstants
  <2>3. \A f \in Times : g_taskStat[f] \in Word
    BY <1>1
  <2>4. fields \in [12 .. 17 -> 0 .. MaxTicks]
    BY PsConstants
  <2>5. psLine \in [percent : Word, used : Nat, same : BOOLEAN]
    BY <1>1
  <2>6. /\ psPc \in {"find", "first", "sleep", "look", "read", "exit", "killed"} /\ psPc = "exit"
        /\ g_running \in BOOLEAN /\ proc \in {"runs", "zombie", "gone"} /\ same \in BOOLEAN
    OBVIOUS
  <2>7. used \in Nat /\ blanks \in 0 .. 2 /\ loops = 0 /\ count = 0
        /\ \A f \in 12 .. 17 : fields[f] \in 0 .. MaxTicks
    BY <2>4
  <2> HIDE DEF PsIdle
  <2>8. PsTypeOK
    BY <2>1, <2>2, <2>3, <2>5, <2>6, <2>7 DEF PsTypeOK
  <2> QED
    BY <2>4, <2>6, <2>7, <2>8 DEF PsTypes
<1>3. PsCounts /\ PercentIsTrue
  BY <1>1 DEF PsCounts, PercentIsTrue
<1> QED
  BY <1>2, <1>3 DEF PsInv

LEMMA McIdleInv == McIdle => McAll
<1> SUFFICES ASSUME McIdle PROVE McAll
  OBVIOUS
<1> USE DEF McIdle
<1>1. McRuns
  <2>1. /\ msRun.words = <<>> /\ msAt = 1 /\ mgArgs = <<>> /\ mgAt = 1 /\ mgRead = 1
        /\ mgInput = <<<<>>>> /\ mgBuffer = EXIT /\ unicasts = MaxUnicast
    OBVIOUS
  <2>2. EXIT \in [1 .. Len(EXIT) -> Nat] /\ MaxUnicast \in Nat
    BY McConstants, MulticastOK DEF MulticastOK
  <2>3. <<>> \in Seq(Nat) /\ Len(<<>>) = 0 /\ <<>> \in Seq([opt : {"j", "l"}, group : STRING])
    BY EmptySeq
  <2>4. <<<<>>>> \in Seq(Seq(Nat)) /\ Len(<<<<>>>>) = 1
    BY <2>3
  <2> QED
    BY <2>1, <2>2, <2>3, <2>4 DEF McRuns
<1>2. McNetwork /\ McShown /\ McHolds
  BY EmptySeq DEF McNetwork, McShown, McHolds
<1>3. McEnds
  <2>1. ~ByLine
    BY DEF ByLine
  <2> QED
    BY <2>1 DEF McEnds
<1>4. McControl
  BY DEF McControl
<1>5. McBounds
  <2>1. Len(mgArgs) = 0 /\ mgSock = -1
    OBVIOUS
  <2> QED
    BY <2>1, MulticastOK DEF MulticastOK, McBounds
<1> QED
  BY <1>1, <1>2, <1>3, <1>4, <1>5 DEF McInv, McAll

LEMMA McStartInv == MulticastInit => McAll
<1> SUFFICES ASSUME MulticastInit PROVE McAll
  OBVIOUS
<1>1. McInv
  BY McInitInv
<1>2. McControl
  BY DEF MulticastInit, McControl
<1>3. McBounds
  <2>1. mgSock = -1 /\ unicasts = 0 /\ Len(mgArgs) \in Nat
    BY <1>1 DEF MulticastInit, McInv, McRuns
  <2> QED
    BY <2>1, MulticastOK DEF MulticastOK, McBounds
<1> QED
  BY <1>1, <1>2, <1>3 DEF McAll

ProgramsInv == MonInv /\ IInv /\ UdpAll /\ PsInv /\ McAll

LEMMA ProgramsStart == ProgramsInit => ProgramsInv
<1> SUFFICES ASSUME ProgramsInit PROVE ProgramsInv
  OBVIOUS
<1>1. /\ Init \/ MonIdle
      /\ TcInit \/ TcIdle
      /\ UdpInit \/ UdpIdle
      /\ PsInit \/ PsIdle
      /\ MulticastInit \/ McIdle
  BY DEF ProgramsInit
<1> QED
  BY <1>1, MonInitInv, MonIdleInv, InitIInv, TcIdleInv, UdpStartInv, UdpIdleInv, PsInitInv, PsIdleInv,
     McStartInv, McIdleInv DEF ProgramsInv

LEMMA ProgramsStep ==
  ProgramsInv /\ [ProgramsNext]_<<vars, tcVars, udpVars, psVars, mcVars>> => ProgramsInv'
<1> SUFFICES ASSUME ProgramsInv, [ProgramsNext]_<<vars, tcVars, udpVars, psVars, mcVars>>
             PROVE  ProgramsInv'
  OBVIOUS
<1>1. /\ [Next]_vars /\ [TcNext]_tcVars /\ [UdpNext]_udpVars /\ [PsNext]_psVars
      /\ [MulticastNext]_mcVars
  BY DEF ProgramsNext
<1>2. MonInv' /\ IInv'
  BY <1>1, MonNextInv, NextIInv DEF ProgramsInv
<1>3. UdpAll'
  BY <1>1, UdpCounters, NextOnTheWay, NextWaiting, NextBuffered, NextPrinted, NextOnce, NextUdpControl
     DEF ProgramsInv, UdpAll, UdpInv
<1>4. PsInv'
  BY <1>1, PsNextTypes, PsNextCounts, PsNextPercent DEF ProgramsInv, PsInv
<1>5. McAll'
  BY <1>1, McNextRuns, McNextNetwork, McNextShown, McNextHolds, McNextEnds, NextMcControl, NextMcBounds
     DEF ProgramsInv, McAll, McInv
<1> QED
  BY <1>2, <1>3, <1>4, <1>5 DEF ProgramsInv

LEMMA ProgramsAlways == ProgramsSpec => []ProgramsInv
<1>1. ProgramsSpec => ProgramsInit /\ [][ProgramsNext]_<<vars, tcVars, udpVars, psVars, mcVars>>
  BY DEF ProgramsSpec
<1> QED
  BY <1>1, ProgramsStart, ProgramsStep, PTL

(* Whichever program is started, all variables keep their types. *)
THEOREM ProgramsTyping == ProgramsSpec => []ProgramsTypeOK
<1>1. ProgramsInv => ProgramsTypeOK
  BY UdpTypes, McTypes, TypesInParts DEF ProgramsInv, ProgramsTypeOK, MonInv, IInv, PsInv, PsTypes
<1> QED
  BY <1>1, ProgramsAlways, PTL

(* In one run of MCPrograms, whichever program it is of: signals are kept  *)
(* (sigmon.c:97-112), the echo never stands still (tcp_client.c:182-195),  *)
(* the datagrams shown are true (udp_echo.c:160-176,                       *)
(* multicast_recv.c:269-290), and so is each percentage                    *)
(* (psstat.c:166-205).                                                     *)
THEOREM ProgramsSafe ==
  ProgramsSpec => [](SignalsAreKept /\ NoStandstill /\ DatagramsAreTrue /\ PercentIsTrue)
<1>1. ProgramsInv => SignalsAreKept /\ NoStandstill
  BY Invented, NotBothStand DEF ProgramsInv, MonInv, SignalsAreKept
<1>2. ProgramsInv => DatagramsAreTrue /\ PercentIsTrue
  BY UdpSafe, McSafe DEF ProgramsInv, UdpAll, McAll, PsInv, DatagramsAreTrue
<1> QED
  BY <1>1, <1>2, ProgramsAlways, PTL
=============================================================================
