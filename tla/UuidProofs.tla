----------------------------- MODULE UuidProofs -----------------------------
(***************************************************************************)
(* Proofs about Uuid.  For any number of processes sharing the directory:  *)
(* its type invariant, and that one run of one process never repeats a     *)
(* timestamp while the clock is not set back.  With one process in the     *)
(* directory: the node ID on disk is kept, the state on disk is never too  *)
(* old, the clock sequence follows the clock, and no UUID is ever          *)
(* repeated, over any number of crashes and restarts, or any set-backs the *)
(* clock sequence can count.                                               *)
(***************************************************************************)
EXTENDS Uuid, TLAPS

(* No process has taken more UUIDs out of one reading of the clock than    *)
(* the reading has ticks: with gettimeofday, no more than ten calls in one *)
(* microsecond.  uuid.c does not see to it, for UUIDS_PER_TICK is 1024.    *)
NoBurst ==
  \A p \in Procs : static[p].time_last # 0 => static[p].uuids_this_tick < RESOLUTION

(* The last stamp; a run that has not read the clock has none. *)
High(p) ==
  IF static[p].time_last = 0 THEN 0 ELSE static[p].time_last + static[p].uuids_this_tick

ClockRuns == clock > 0

HasTimestamp(p) ==
  pc[p] \in {"node", "nodeOpen", "nodeClose", "read", "write", "close", "return"}

(* A reading once taken is the present one or a whole resolution behind.   *)
ClockAhead ==
  setBacks = 0 =>
    /\ RESOLUTION <= clock
    /\ \A p \in Procs : \/ static[p].time_last = clock
                        \/ static[p].time_last + RESOLUTION <= clock

StampIsHigh == \A p \in Procs : HasTimestamp(p) => frame[p].timestamp = High(p)

IssuedNumbered == \A a \in issued : a.run <= run[a.proc]

(* What a run has issued lies at or below its last stamp, and strictly     *)
(* below a stamp it has taken and not issued yet.                          *)
IssuedBelow ==
  setBacks = 0 =>
    \A a \in issued :
      a.run = run[a.proc] =>
        /\ a.uuid.ts <= High(a.proc)
        /\ HasTimestamp(a.proc) => a.uuid.ts < frame[a.proc].timestamp

IInv ==
  /\ TypeOK /\ ClockRuns /\ ClockAhead /\ StampIsHigh
  /\ IssuedNumbered /\ IssuedBelow /\ UniqueInRun
-----------------------------------------------------------------------------
(* The initial state is well typed. *)
LEMMA InitTypeOK == Init => TypeOK
  BY ConstantsOK DEF Init, ConstantsOK, TypeOK, Statics, Frames, SavedState, Seqs,
     AllNodes, Locations, FreshStatics, FreshFrame, ZeroState

(* Every step keeps the types; the count of a reading stays within         *)
(* UUIDS_PER_TICK because get_current_time only counts on when there is    *)
(* room.                                                                   *)
LEMMA NextTypeOK == TypeOK /\ [Next]_vars => TypeOK'
<1> SUFFICES ASSUME TypeOK, [Next]_vars PROVE TypeOK'
  OBVIOUS
<1> USE ConstantsOK DEF ConstantsOK, TypeOK, Goto, env, files, hist
<1>1. ASSUME NEW p \in Procs, Enter(p) PROVE TypeOK'
  BY <1>1 DEF Enter, Locations
<1>2. ASSUME NEW p \in Procs, GetCurrentTime(p) PROVE TypeOK'
  <2>1. static[p] \in Statics /\ frame[p] \in Frames
    OBVIOUS
  <2>2. CountInTick(static[p]) \in 0 .. UUIDS_PER_TICK
    BY <1>2, <2>1 DEF GetCurrentTime, CountInTick, TimeReady, NewReading, RoomInTick, Statics
  <2>3. static' \in [Procs -> Statics]
    BY <1>2, <2>1, <2>2 DEF GetCurrentTime, Statics
  <2>4. frame' \in [Procs -> Frames]
    BY <1>2, <2>1, <2>2 DEF GetCurrentTime, Frames
  <2> QED
    BY <1>2, <2>3, <2>4 DEF GetCurrentTime, Locations
<1>3. ASSUME NEW p \in Procs, GetNode(p) PROVE TypeOK'
  <2>1. ASSUME NEW n \in AllNodes,
               static' = [static EXCEPT ![p].node_inited = TRUE, ![p].saved_node = n],
               frame' = [frame EXCEPT ![p].node = n]
        PROVE static' \in [Procs -> Statics] /\ frame' \in [Procs -> Frames]
    <3>1. static[p] \in Statics /\ frame[p] \in Frames
      OBVIOUS
    <3>2. [static[p] EXCEPT !.node_inited = TRUE, !.saved_node = n] \in Statics
      BY <3>1 DEF Statics
    <3>3. [frame[p] EXCEPT !.node = n] \in Frames
      BY <3>1 DEF Frames
    <3>4. static' = [static EXCEPT ![p] = [static[p] EXCEPT !.node_inited = TRUE, !.saved_node = n]]
      BY <2>1
    <3>5. frame' = [frame EXCEPT ![p] = [frame[p] EXCEPT !.node = n]]
      BY <2>1
    <3> QED
      BY <3>2, <3>3, <3>4, <3>5
  <2>2. static[p].saved_node \in AllNodes /\ NodeIds \subseteq AllNodes
    BY DEF Statics, AllNodes
  <2>3. NodeFileFound => NodeRead(static[p].saved_node) \in AllNodes
    BY <2>2 DEF NodeRead, NodeFileFound
  <2>4. \E n \in AllNodes :
          /\ static' = [static EXCEPT ![p].node_inited = TRUE, ![p].saved_node = n]
          /\ frame' = [frame EXCEPT ![p].node = n]
    BY <1>3, <2>2, <2>3 DEF GetNode
  <2>5. pc' \in [Procs -> Locations]
    BY <1>3 DEF GetNode, Locations
  <2> QED
    BY <1>3, <2>1, <2>4, <2>5 DEF GetNode
<1>4. ASSUME NEW p \in Procs, OpenNodeFile(p) PROVE TypeOK'
  BY <1>4 DEF OpenNodeFile, Locations
<1>5. ASSUME NEW p \in Procs, CloseNodeFile(p) PROVE TypeOK'
  BY <1>5 DEF CloseNodeFile, Locations, Statics
<1>6. ASSUME NEW p \in Procs, ReadState(p) PROVE TypeOK'
  <2>1. static[p] \in Statics /\ frame[p] \in Frames
    OBVIOUS
  <2>2. StateRead(static[p]) \in SavedState
    BY <2>1 DEF StateRead, Statics
  <2>3. Found(static[p]) \in BOOLEAN
    BY <2>1 DEF Found, Statics
  <2>4. static' \in [Procs -> Statics]
    <3>1. [static[p] EXCEPT !.read_inited = Found(static[p]), !.st = StateRead(static[p])]
            \in Statics
      BY <2>1, <2>2, <2>3 DEF Statics
    <3>2. static' = [static EXCEPT ![p] =
            [static[p] EXCEPT !.read_inited = Found(static[p]), !.st = StateRead(static[p])]]
      BY <1>6 DEF ReadState
    <3> QED
      BY <3>1, <3>2
  <2>5. ClockSeqs(Found(static[p]), StateRead(static[p]), frame[p].node, frame[p].timestamp)
          \subseteq Seqs
    BY <2>2 DEF ClockSeqs, SavedState, Seqs
  <2>6. frame' \in [Procs -> Frames]
    BY <1>6, <2>5 DEF ReadState, Frames
  <2> QED
    BY <1>6, <2>4, <2>6 DEF ReadState, Locations
<1>7. ASSUME NEW p \in Procs, WriteState(p) PROVE TypeOK'
  <2>1. static[p] \in Statics /\ frame[p] \in Frames
    OBVIOUS
  <2>2. Volatile(p) \in SavedState
    BY <2>1 DEF Volatile, SavedState, Frames
  <2>3. NextSave(static[p], frame[p].timestamp) \in Nat
    BY <2>1 DEF NextSave, Statics, Frames
  <2>4. static' \in [Procs -> Statics]
    <3> DEFINE s == [static[p] EXCEPT !.write_inited = TRUE,
                                      !.next_save = NextSave(static[p], frame[p].timestamp),
                                      !.st = Volatile(p)]
    <3>1. s \in Statics
      BY <2>1, <2>2, <2>3 DEF Statics
    <3>2. static' = [static EXCEPT ![p] = s]
      BY <1>7 DEF WriteState
    <3> QED
      BY <3>1, <3>2
  <2> QED
    BY <1>7, <2>4 DEF WriteState, Locations
<1>8. ASSUME NEW p \in Procs, CloseStateFile(p) PROVE TypeOK'
  <2>1. AfterSave(frame[p].timestamp) \in Nat
    BY DEF AfterSave, Frames
  <2>2. static' \in [Procs -> Statics]
    BY <1>8, <2>1 DEF CloseStateFile, Statics
  <2>3. stateFile' \in SavedState
    BY <1>8 DEF CloseStateFile, Statics
  <2> QED
    BY <1>8, <2>2, <2>3 DEF CloseStateFile, Locations
<1>9. ASSUME NEW p \in Procs, Return(p) PROVE TypeOK'
  <2>1. FormatV1(frame[p]) \in [ts : Nat, cs : Nat, node : AllNodes]
    BY DEF FormatV1, Frames, Seqs
  <2>2. frame' \in [Procs -> Frames]
    BY <1>9 DEF Return, Frames, FreshFrame, Seqs, AllNodes
  <2> QED
    BY <1>9, <2>1, <2>2 DEF Return, Locations
<1>10. ASSUME NEW p \in Procs, Crash(p) PROVE TypeOK'
  BY <1>10 DEF Crash, Locations
<1>11. ASSUME NEW p \in Procs, Restart(p) PROVE TypeOK'
  <2>1. FreshStatics \in Statics /\ FreshFrame \in Frames
    BY DEF FreshStatics, FreshFrame, Statics, Frames, SavedState, ZeroState, Seqs, AllNodes
  <2> QED
    BY <1>11, <2>1 DEF Restart, Locations
<1>12. CASE Tick
  BY <1>12 DEF Tick
<1>13. CASE SetBack
  BY <1>13 DEF SetBack
<1>14. CASE UNCHANGED vars
  BY <1>14 DEF vars
<1> QED
  BY <1>1, <1>2, <1>3, <1>4, <1>5, <1>6, <1>7, <1>8, <1>9, <1>10, <1>11,
     <1>12, <1>13, <1>14 DEF Next, UuidCreate

(* The type invariant holds in every reachable state, whatever the number  *)
(* of processes, the resolution of the clock and the bounds.               *)
THEOREM Typing == Spec => []TypeOK
<1>1. Init => TypeOK
  BY InitTypeOK
<1>2. TypeOK /\ [Next]_vars => TypeOK'
  BY NextTypeOK
<1> QED
  BY <1>1, <1>2, PTL DEF Spec
-----------------------------------------------------------------------------
(* The parts of the inductive invariant hold initially: nothing is issued  *)
(* and the first reading is one resolution after a zeroed time_last.       *)
LEMMA InitIInv == Init => IInv
  BY InitTypeOK, ConstantsOK
  DEF Init, IInv, ConstantsOK, ClockRuns, ClockAhead, StampIsHigh, HasTimestamp, IssuedNumbered,
      IssuedBelow, UniqueInRun, FreshStatics

(* Steps that change neither the clock readings nor the stamps nor what is *)
(* issued keep the invariant.                                              *)
LEMMA Quiet ==
  ASSUME IInv, TypeOK', [Next]_vars,
         clock' = clock, setBacks' = setBacks, run' = run, issued' = issued,
         \A p \in Procs : /\ static[p].time_last = static'[p].time_last
                          /\ static[p].uuids_this_tick = static'[p].uuids_this_tick
                          /\ frame[p].timestamp = frame'[p].timestamp
                          /\ HasTimestamp(p)' => HasTimestamp(p)
  PROVE  IInv'
<1>1. ClockRuns' /\ ClockAhead'
  BY DEF IInv, ClockRuns, ClockAhead
<1>2. StampIsHigh'
  BY DEF IInv, StampIsHigh, High
<1>3. IssuedNumbered' /\ UniqueInRun'
  BY DEF IInv, IssuedNumbered, UniqueInRun
<1>4. \A a \in issued : a.proc \in Procs
  BY DEF IInv, TypeOK
<1>5. IssuedBelow'
  BY <1>4 DEF IInv, IssuedBelow, High
<1> QED
  BY <1>1, <1>2, <1>3, <1>5 DEF IInv

(* A new stamp lies strictly above the last one: a changed reading is at   *)
(* least a resolution later, and the count did not reach the resolution.   *)
LEMMA NewStamp ==
  ASSUME NoBurst, IInv, TypeOK', NEW p \in Procs, GetCurrentTime(p)
  PROVE  IInv'
<1> USE ConstantsOK DEF ConstantsOK
<1>1. /\ static[p] \in Statics /\ clock \in Nat /\ clock > 0
      /\ RESOLUTION \in Nat /\ UUIDS_PER_TICK \in Nat
  BY DEF IInv, TypeOK, ClockRuns
<1>2. /\ UNCHANGED <<clock, setBacks, run, issued>>
      /\ static'[p].time_last = clock
      /\ static'[p].uuids_this_tick = CountInTick(static[p])
      /\ frame'[p].timestamp = clock + CountInTick(static[p])
      /\ \A q \in Procs \ {p} : static'[q] = static[q] /\ frame'[q] = frame[q] /\ pc'[q] = pc[q]
  BY DEF GetCurrentTime, Goto, env, hist, IInv, TypeOK, Statics, Frames
<1>3. High(p)' = clock + CountInTick(static[p])
  BY <1>1, <1>2 DEF High
<1>4. setBacks = 0 => High(p) < High(p)'
  <2> SUFFICES ASSUME setBacks = 0 PROVE High(p) < clock + CountInTick(static[p])
    BY <1>3
  <2>1. CASE NewReading(static[p])
    <3>1. static[p].time_last + RESOLUTION <= clock
      BY <2>1 DEF IInv, ClockAhead, NewReading
    <3>2. static[p].time_last # 0 => static[p].uuids_this_tick < RESOLUTION
      BY DEF NoBurst
    <3> QED
      BY <1>1, <2>1, <3>1, <3>2 DEF High, CountInTick, Statics
  <2>2. CASE ~NewReading(static[p])
    BY <1>1, <2>2 DEF High, CountInTick, NewReading, Statics
  <2> QED
    BY <2>1, <2>2
<1>5. ClockRuns' /\ ClockAhead'
  BY <1>2 DEF IInv, ClockRuns, ClockAhead
<1>6. StampIsHigh'
  <2> SUFFICES ASSUME NEW q \in Procs, HasTimestamp(q)' PROVE (frame[q].timestamp = High(q))'
    BY DEF StampIsHigh
  <2>1. CASE q = p
    BY <1>2, <1>3, <2>1
  <2>2. CASE q # p
    BY <1>2, <2>2 DEF IInv, StampIsHigh, HasTimestamp, High
  <2> QED
    BY <2>1, <2>2
<1>7. IssuedNumbered' /\ UniqueInRun'
  BY <1>2 DEF IInv, IssuedNumbered, UniqueInRun
<1>8. IssuedBelow'
  <2> SUFFICES ASSUME setBacks = 0, NEW a \in issued, a.run = run[a.proc]
               PROVE  /\ a.uuid.ts <= High(a.proc)'
                      /\ HasTimestamp(a.proc)' => a.uuid.ts < frame'[a.proc].timestamp
    BY <1>2 DEF IssuedBelow
  <2>1. a.proc \in Procs /\ a.uuid.ts \in Nat
    BY DEF IInv, TypeOK
  <2>2. a.uuid.ts <= High(a.proc)
    BY DEF IInv, IssuedBelow
  <2>3. CASE a.proc = p
    <3>1. High(p) \in Nat /\ High(p)' \in Int
      BY <1>1, <1>3 DEF High, Statics, CountInTick
    <3> QED
      BY <1>2, <1>3, <1>4, <2>1, <2>2, <2>3, <3>1
  <2>4. CASE a.proc # p
    BY <1>2, <2>1, <2>2, <2>4 DEF IInv, IssuedBelow, HasTimestamp, High
  <2> QED
    BY <2>3, <2>4
<1> QED
  BY <1>5, <1>6, <1>7, <1>8 DEF IInv

(* Returning issues the stamp, which is above all the run has issued.      *)
LEMMA NewIssue ==
  ASSUME IInv, TypeOK', NEW p \in Procs, Return(p)
  PROVE  IInv'
<1> DEFINE new == [proc |-> p, run |-> run[p], n |-> made[p], uuid |-> FormatV1(frame[p])]
<1>1. /\ UNCHANGED <<clock, setBacks, run, static>>
      /\ issued' = issued \cup {new}
      /\ pc[p] = "return" /\ pc'[p] = "idle"
      /\ \A q \in Procs \ {p} : frame'[q] = frame[q] /\ pc'[q] = pc[q]
  BY DEF Return, Goto, env, IInv, TypeOK
<1>2. /\ new.proc = p /\ new.run = run[p] /\ new.uuid.ts = frame[p].timestamp
      /\ frame[p].timestamp = High(p) /\ HasTimestamp(p) /\ ~HasTimestamp(p)'
  BY <1>1 DEF FormatV1, IInv, StampIsHigh, HasTimestamp
<1>3. frame[p].timestamp \in Nat
  BY DEF IInv, TypeOK, Frames
<1>4. \A a \in issued : a.proc \in Procs /\ a.run \in Nat /\ run[a.proc] \in Nat /\ a.uuid.ts \in Nat
  BY DEF IInv, TypeOK
<1>5. ClockRuns' /\ ClockAhead' /\ StampIsHigh'
  BY <1>1, <1>2 DEF IInv, ClockRuns, ClockAhead, StampIsHigh, HasTimestamp, High
<1>6. IssuedNumbered'
  BY <1>1, <1>2, <1>4 DEF IInv, IssuedNumbered, TypeOK
<1>7. \A q \in Procs : High(q)' = High(q)
  BY <1>1 DEF High
<1>8. setBacks = 0 => \A a \in issued : a.proc = p /\ a.run = run[p] => a.uuid.ts < new.uuid.ts
  BY <1>2 DEF IInv, IssuedBelow
<1>9. IssuedBelow'
  <2> SUFFICES ASSUME setBacks = 0, NEW a \in issued', a.run = run[a.proc]
               PROVE  /\ a.uuid.ts <= High(a.proc)'
                      /\ HasTimestamp(a.proc)' => a.uuid.ts < frame'[a.proc].timestamp
    BY <1>1 DEF IssuedBelow
  <2>1. CASE a = new
    BY <1>2, <1>3, <1>7, <2>1
  <2>2. CASE a \in issued /\ a.proc = p
    BY <1>2, <1>7, <2>2 DEF IInv, IssuedBelow
  <2>3. CASE a \in issued /\ a.proc # p
    BY <1>1, <1>4, <1>7, <2>3 DEF IInv, IssuedBelow, HasTimestamp
  <2> QED
    BY <1>1, <2>1, <2>2, <2>3
<1>10. UniqueInRun'
  <2> SUFFICES ASSUME setBacks = 0, NEW a \in issued', NEW b \in issued',
                      a.proc = b.proc, a.run = b.run, a.uuid.ts = b.uuid.ts
               PROVE  a = b
    BY <1>1 DEF UniqueInRun
  <2>1. CASE a \in issued /\ b \in issued
    BY <2>1 DEF IInv, UniqueInRun
  <2>2. CASE a = new /\ b \in issued
    BY <1>2, <1>3, <1>4, <1>8, <2>2
  <2>3. CASE a \in issued /\ b = new
    BY <1>2, <1>3, <1>4, <1>8, <2>3
  <2> QED
    BY <1>1, <2>1, <2>2, <2>3
<1> QED
  BY <1>5, <1>6, <1>9, <1>10 DEF IInv

(* A restarted process has issued nothing in its new run. *)
LEMMA NewRun ==
  ASSUME IInv, TypeOK', NEW p \in Procs, Restart(p)
  PROVE  IInv'
<1>1. /\ UNCHANGED <<clock, setBacks, issued>>
      /\ static'[p].time_last = 0 /\ run'[p] = run[p] + 1 /\ pc'[p] = "idle"
      /\ \A q \in Procs \ {p} : /\ static'[q] = static[q] /\ frame'[q] = frame[q]
                                /\ run'[q] = run[q] /\ pc'[q] = pc[q]
  BY DEF Restart, Goto, env, IInv, TypeOK, FreshStatics
<1>2. ClockRuns' /\ ClockAhead'
  BY <1>1, ConstantsOK DEF IInv, ClockRuns, ClockAhead, ConstantsOK
<1>3. StampIsHigh'
  BY <1>1 DEF IInv, StampIsHigh, HasTimestamp, High
<1>4. \A a \in issued : a.proc \in Procs /\ a.run \in Nat /\ run[a.proc] \in Nat
  BY DEF IInv, TypeOK
<1>5. IssuedNumbered'
  BY <1>1, <1>4 DEF IInv, IssuedNumbered
<1>6. \A a \in issued : a.run = run'[a.proc] => a.proc # p
  BY <1>1, <1>4 DEF IInv, IssuedNumbered
<1>7. IssuedBelow'
  BY <1>1, <1>4, <1>6 DEF IInv, IssuedBelow, HasTimestamp, High
<1>8. UniqueInRun'
  BY <1>1 DEF IInv, UniqueInRun
<1> QED
  BY <1>2, <1>3, <1>5, <1>7, <1>8 DEF IInv

(* Every step keeps the invariant. *)
LEMMA NextIInv == NoBurst /\ IInv /\ [Next]_vars => IInv'
<1> SUFFICES ASSUME NoBurst, IInv, [Next]_vars PROVE IInv'
  OBVIOUS
<1>t. TypeOK'
  BY NextTypeOK DEF IInv
<1>0. TypeOK
  BY DEF IInv
<1>1. ASSUME NEW p \in Procs, Enter(p) PROVE IInv'
  BY <1>1, <1>t, <1>0, Quiet DEF Enter, Goto, env, hist, files, HasTimestamp, TypeOK
<1>2. ASSUME NEW p \in Procs, GetCurrentTime(p) PROVE IInv'
  BY <1>2, <1>t, NewStamp
<1>3. ASSUME NEW p \in Procs, GetNode(p) PROVE IInv'
  <2>1. \A q \in Procs : /\ static[q].time_last = static'[q].time_last
                         /\ static[q].uuids_this_tick = static'[q].uuids_this_tick
                         /\ frame[q].timestamp = frame'[q].timestamp
    <3>1. PICK n : /\ static' = [static EXCEPT ![p].node_inited = TRUE, ![p].saved_node = n]
                   /\ frame' = [frame EXCEPT ![p].node = n]
      BY <1>3 DEF GetNode
    <3>2. \A q \in Procs : static[q] \in Statics /\ frame[q] \in Frames
      BY <1>0 DEF TypeOK
    <3> QED
      BY <1>0, <3>1, <3>2 DEF TypeOK, Statics, Frames
  <2>2. \A q \in Procs : HasTimestamp(q)' => HasTimestamp(q)
    BY <1>3, <1>0 DEF GetNode, Goto, HasTimestamp, TypeOK
  <2> QED
    BY <1>3, <1>t, <2>1, <2>2, Quiet DEF GetNode, env, hist
<1>4. ASSUME NEW p \in Procs, OpenNodeFile(p) PROVE IInv'
  BY <1>4, <1>t, <1>0, Quiet DEF OpenNodeFile, Goto, env, hist, HasTimestamp, TypeOK
<1>5. ASSUME NEW p \in Procs, CloseNodeFile(p) PROVE IInv'
  BY <1>5, <1>t, <1>0, Quiet DEF CloseNodeFile, Goto, env, hist, HasTimestamp, TypeOK
<1>6. ASSUME NEW p \in Procs, ReadState(p) PROVE IInv'
  <2>1. \A q \in Procs : /\ static[q].time_last = static'[q].time_last
                         /\ static[q].uuids_this_tick = static'[q].uuids_this_tick
                         /\ frame[q].timestamp = frame'[q].timestamp
    BY <1>6, <1>0 DEF ReadState, TypeOK, Statics, Frames
  <2>2. \A q \in Procs : HasTimestamp(q)' => HasTimestamp(q)
    BY <1>6, <1>0 DEF ReadState, Goto, HasTimestamp, TypeOK
  <2> QED
    BY <1>6, <1>t, <2>1, <2>2, Quiet DEF ReadState, env, hist
<1>7. ASSUME NEW p \in Procs, WriteState(p) PROVE IInv'
  <2>1. \A q \in Procs : /\ static[q].time_last = static'[q].time_last
                         /\ static[q].uuids_this_tick = static'[q].uuids_this_tick
                         /\ frame[q].timestamp = frame'[q].timestamp
    <3>1. \A q \in Procs : static[q] \in Statics
      BY <1>0 DEF TypeOK
    <3>2. /\ frame' = frame
          /\ static' = [static EXCEPT ![p] =
               [static[p] EXCEPT !.write_inited = TRUE,
                                 !.next_save = NextSave(static[p], frame[p].timestamp),
                                 !.st = Volatile(p)]]
      BY <1>7 DEF WriteState
    <3> QED
      BY <1>0, <3>1, <3>2 DEF TypeOK, Statics
  <2>2. \A q \in Procs : HasTimestamp(q)' => HasTimestamp(q)
    BY <1>7, <1>0 DEF WriteState, Goto, HasTimestamp, TypeOK
  <2> QED
    BY <1>7, <1>t, <2>1, <2>2, Quiet DEF WriteState, env, hist
<1>8. ASSUME NEW p \in Procs, CloseStateFile(p) PROVE IInv'
  <2>1. \A q \in Procs : /\ static[q].time_last = static'[q].time_last
                         /\ static[q].uuids_this_tick = static'[q].uuids_this_tick
                         /\ frame[q].timestamp = frame'[q].timestamp
    BY <1>8, <1>0 DEF CloseStateFile, TypeOK, Statics
  <2>2. \A q \in Procs : HasTimestamp(q)' => HasTimestamp(q)
    BY <1>8, <1>0 DEF CloseStateFile, Goto, HasTimestamp, TypeOK
  <2> QED
    BY <1>8, <1>t, <2>1, <2>2, Quiet DEF CloseStateFile, env, hist
<1>9. ASSUME NEW p \in Procs, Return(p) PROVE IInv'
  BY <1>9, <1>t, NewIssue
<1>10. ASSUME NEW p \in Procs, Crash(p) PROVE IInv'
  BY <1>10, <1>t, <1>0, Quiet DEF Crash, env, hist, files, HasTimestamp, TypeOK
<1>11. ASSUME NEW p \in Procs, Restart(p) PROVE IInv'
  BY <1>11, <1>t, NewRun
<1>12. CASE Tick
  <2>1. /\ clock' = clock + RESOLUTION
        /\ UNCHANGED <<setBacks, pc, static, frame, run, issued>>
    BY <1>12 DEF Tick, hist
  <2>2. ClockRuns' /\ ClockAhead'
    BY <2>1, <1>0, ConstantsOK DEF IInv, ClockRuns, ClockAhead, TypeOK, ConstantsOK, Statics
  <2> QED
    BY <1>t, <2>1, <2>2
    DEF IInv, StampIsHigh, HasTimestamp, High, IssuedNumbered, IssuedBelow, UniqueInRun
<1>13. CASE SetBack
  <2>1. setBacks' # 0
    BY <1>13, <1>0 DEF SetBack, TypeOK
  <2>2. ClockRuns'
    BY <1>13, <1>0 DEF SetBack, ClockRuns, TypeOK
  <2> QED
    BY <1>13, <1>t, <2>1, <2>2
    DEF SetBack, hist, IInv, ClockAhead, StampIsHigh, HasTimestamp, High, IssuedNumbered,
        IssuedBelow, UniqueInRun
<1>14. CASE UNCHANGED vars
  BY <1>14, <1>t, Quiet DEF vars, HasTimestamp
<1> QED
  BY <1>1, <1>2, <1>3, <1>4, <1>5, <1>6, <1>7, <1>8, <1>9, <1>10, <1>11,
     <1>12, <1>13, <1>14 DEF Next, UuidCreate

(* As long as no process takes more UUIDs out of one reading than the      *)
(* reading has ticks, one run of one process never issues a timestamp      *)
(* twice while the clock is not set back: the loop of get_current_time     *)
(* (uuid.c:134-166), for any number of processes interleaving in the       *)
(* directory and dying anywhere, with any UUIDS_PER_TICK and RESOLUTION.   *)
THEOREM RunsAreUnique == Spec /\ []NoBurst => []UniqueInRun
<1>1. Init => IInv
  BY InitIInv
<1>2. NoBurst /\ IInv /\ [Next]_vars => IInv'
  BY NextIInv
<1>3. IInv => UniqueInRun
  BY DEF IInv
<1> QED
  BY <1>1, <1>2, <1>3, PTL DEF Spec
-----------------------------------------------------------------------------
(* One process works in the directory. *)
Alone == \A p, q \in Procs : p = q

-----------------------------------------------------------------------------
(* Lemmas about remainders. *)

LEMMA Remainder ==
  ASSUME NEW n \in Nat \ {0}, NEW a \in Nat
  PROVE  \E q, r \in Nat : r < n /\ a = n * q + r /\ r = a % n
OBVIOUS

LEMMA OneRemainder ==
  ASSUME NEW n \in Nat \ {0}, NEW i \in Int, NEW r \in 0 .. n - 1
  PROVE  (n * i + r) % n = r
OBVIOUS

(* Two multiples of n are n apart. *)
LEMMA MultiplesApart ==
  ASSUME NEW n \in Nat \ {0}, NEW a \in Nat, NEW b \in Nat, a % n = 0, b % n = 0, a < b
  PROVE  a + n <= b
<1>1. PICK i \in Nat : a = n * i
  BY Remainder
<1>2. PICK j \in Nat : b = n * j
  BY Remainder
<1>3. i + 1 <= j
  <2>1. i >= j => n * i >= n * j
    OBVIOUS
  <2> QED
    BY <1>1, <1>2, <2>1
<1>4. n * (i + 1) <= n * j
  BY <1>3
<1>5. n * (i + 1) = n * i + n
  OBVIOUS
<1> QED
  BY <1>1, <1>2, <1>4, <1>5

LEMMA MultiplesAdd ==
  ASSUME NEW n \in Nat \ {0}, NEW a \in Nat, a % n = 0
  PROVE  (a + n) % n = 0
<1>1. PICK i \in Nat : a = n * i
  BY Remainder
<1>2. n * (i + 1) = n * i + n
  OBVIOUS
<1>3. (n * (i + 1) + 0) % n = 0
  BY OneRemainder
<1> QED
  BY <1>1, <1>2, <1>3

(* Going on by less than a whole round leads elsewhere. *)
LEMMA PartOfRound ==
  ASSUME NEW n \in Nat \ {0}, NEW x \in 0 .. n - 1, NEW d \in 1 .. n - 1
  PROVE  (x + d) % n # x
<1>1. CASE x + d < n
  BY <1>1
<1>2. CASE x + d >= n
  <2>1. x + d = n * 1 + (x + d - n) /\ x + d - n \in 0 .. n - 1
    BY <1>2
  <2>2. (x + d) % n = x + d - n
    BY <2>1, OneRemainder
  <2> QED
    BY <2>2
<1> QED
  BY <1>1, <1>2

LEMMA NextRemainder ==
  ASSUME NEW n \in Nat \ {0}, NEW a \in Nat, NEW b \in Nat, a % n = b % n
  PROVE  (a + 1) % n = (b + 1) % n
<1>1. PICK i \in Nat, r \in Nat : r < n /\ a = n * i + r /\ r = a % n
  BY Remainder
<1>2. PICK j \in Nat : b = n * j + r
  BY <1>1, Remainder
<1>3. CASE r + 1 < n
  <2>1. PICK t \in 0 .. n - 1 : t = r + 1
    BY <1>3
  <2>2. (n * i + t) % n = t
    BY OneRemainder
  <2>3. (n * j + t) % n = t
    BY OneRemainder
  <2>4. a + 1 = n * i + t /\ b + 1 = n * j + t
    BY <1>1, <1>2, <2>1
  <2> QED
    BY <2>2, <2>3, <2>4
<1>4. CASE r + 1 = n
  <2>1. (n * (i + 1) + 0) % n = 0 /\ (n * (j + 1) + 0) % n = 0
    BY OneRemainder
  <2>2. n * (i + 1) = n * i + n /\ n * (j + 1) = n * j + n
    OBVIOUS
  <2>3. a + 1 = n * (i + 1) + 0 /\ b + 1 = n * (j + 1) + 0
    BY <1>1, <1>2, <1>4, <2>2
  <2> QED
    BY <2>1, <2>3
<1> QED
  BY <1>1, <1>3, <1>4

(* A word that wraps still counts in its low part. *)
LEMMA WordNext ==
  ASSUME NEW cs \in Seqs
  PROVE  /\ (cs + 1) % SEQ_WORD \in Seqs
         /\ ((cs + 1) % SEQ_WORD) % SEQ_FIELD = (cs + 1) % SEQ_FIELD
<1>1. /\ SEQ_WORD \in Nat \ {0} /\ SEQ_FIELD \in Nat \ {0} /\ SEQ_WORD % SEQ_FIELD = 0
      /\ cs \in 0 .. SEQ_WORD - 1
  BY ConstantsOK DEF ConstantsOK, Seqs
<1>2. CASE cs + 1 < SEQ_WORD
  <2>1. (cs + 1) % SEQ_WORD = cs + 1
    BY <1>1, <1>2
  <2> QED
    BY <1>1, <1>2, <2>1 DEF Seqs
<1>3. CASE cs + 1 = SEQ_WORD
  <2>1. (cs + 1) % SEQ_WORD = 0 /\ 0 % SEQ_FIELD = 0
    BY <1>1, <1>3
  <2> QED
    BY <1>1, <1>3, <2>1 DEF Seqs
<1> QED
  BY <1>1, <1>2, <1>3
-----------------------------------------------------------------------------
(* What the actions leave alone. *)

SameTime(p)  == /\ static'[p].time_last = static[p].time_last
                /\ static'[p].uuids_this_tick = static[p].uuids_this_tick
SameNode(p)  == /\ static'[p].node_inited = static[p].node_inited
                /\ static'[p].saved_node = static[p].saved_node
SameState(p) == /\ static'[p].read_inited = static[p].read_inited
                /\ static'[p].st = static[p].st
SameSave(p)  == /\ static'[p].write_inited = static[p].write_inited
                /\ static'[p].next_save = static[p].next_save

LEMMA TypesAt ==
  ASSUME TypeOK, NEW p \in Procs
  PROVE  /\ static[p] \in Statics /\ frame[p] \in Frames /\ pc[p] \in Locations
         /\ run[p] \in Nat /\ made[p] \in Nat
         /\ static[p].time_last \in Nat /\ static[p].uuids_this_tick \in Nat
         /\ static[p].next_save \in Nat /\ static[p].st \in SavedState
         /\ static[p].write_inited \in BOOLEAN /\ static[p].read_inited \in BOOLEAN
         /\ static[p].node_inited \in BOOLEAN /\ static[p].saved_node \in AllNodes
         /\ frame[p].timestamp \in Nat /\ frame[p].clockseq \in Seqs /\ frame[p].node \in AllNodes
<1>1. static[p] \in Statics /\ frame[p] \in Frames /\ pc[p] \in Locations
      /\ run[p] \in Nat /\ made[p] \in Nat
  BY DEF TypeOK
<1> QED
  BY <1>1, ConstantsOK DEF Statics, Frames, ConstantsOK

LEMMA EnterEffect ==
  ASSUME TypeOK, NEW p \in Procs, Enter(p)
  PROVE  /\ pc[p] = "idle" /\ pc'[p] = "time"
         /\ UNCHANGED <<clock, setBacks, writable, files, static, frame, run, made, issued>>
  BY DEF Enter, Goto, env, hist, TypeOK

LEMMA TimeEffect ==
  ASSUME TypeOK, NEW p \in Procs, GetCurrentTime(p)
  PROVE  /\ pc[p] = "time" /\ pc'[p] = "node" /\ TimeReady(static[p])
         /\ static'[p].time_last = clock
         /\ static'[p].uuids_this_tick = CountInTick(static[p])
         /\ frame'[p].timestamp = clock + CountInTick(static[p])
         /\ frame'[p].clockseq = frame[p].clockseq /\ frame'[p].node = frame[p].node
         /\ SameNode(p) /\ SameState(p) /\ SameSave(p)
         /\ UNCHANGED <<clock, setBacks, writable, stateFile, nodeFile, run, made, issued>>
<1>1. static[p] \in Statics /\ frame[p] \in Frames
  BY TypesAt
<1> QED
  BY <1>1 DEF GetCurrentTime, Goto, env, files, hist, TypeOK, Statics, Frames,
     SameNode, SameState, SameSave

LEMMA GetNodeEffect ==
  ASSUME TypeOK, NEW p \in Procs, GetNode(p)
  PROVE  /\ pc[p] = "node" /\ pc'[p] \in {"nodeOpen", "read"}
         /\ pc'[p] = "nodeOpen" => ~static[p].node_inited /\ nodeFile = NoFile
         /\ static[p].node_inited => static'[p].saved_node = static[p].saved_node
         /\ static'[p].node_inited = TRUE /\ frame'[p].node = static'[p].saved_node
         /\ frame'[p].timestamp = frame[p].timestamp /\ frame'[p].clockseq = frame[p].clockseq
         /\ SameTime(p) /\ SameState(p) /\ SameSave(p)
         /\ UNCHANGED <<clock, setBacks, writable, stateFile, nodeFile, run, made, issued>>
<1>1. static[p] \in Statics /\ frame[p] \in Frames
  BY TypesAt
<1>2. PICK n : /\ static' = [static EXCEPT ![p].node_inited = TRUE, ![p].saved_node = n]
               /\ frame' = [frame EXCEPT ![p].node = n]
               /\ static[p].node_inited => n = static[p].saved_node
  BY DEF GetNode
<1>3. /\ static'[p] = [static[p] EXCEPT !.node_inited = TRUE, !.saved_node = n]
      /\ frame'[p] = [frame[p] EXCEPT !.node = n]
  BY <1>2 DEF TypeOK
<1>4. /\ static'[p].node_inited = TRUE /\ static'[p].saved_node = n /\ frame'[p].node = n
      /\ frame'[p].timestamp = frame[p].timestamp /\ frame'[p].clockseq = frame[p].clockseq
      /\ SameTime(p) /\ SameState(p) /\ SameSave(p)
  BY <1>1, <1>3 DEF Statics, Frames, SameTime, SameState, SameSave
<1>5. /\ pc[p] = "node" /\ pc'[p] \in {"nodeOpen", "read"}
      /\ pc'[p] = "nodeOpen" => ~static[p].node_inited /\ nodeFile = NoFile
      /\ UNCHANGED <<clock, setBacks, writable, stateFile, nodeFile, run, made, issued>>
  BY DEF GetNode, Goto, NodeFileFound, env, files, hist, TypeOK
<1> QED
  BY <1>2, <1>4, <1>5

LEMMA OpenNodeFileEffect ==
  ASSUME TypeOK, NEW p \in Procs, OpenNodeFile(p)
  PROVE  /\ pc[p] = "nodeOpen"
         /\ \/ pc'[p] = "nodeClose" /\ nodeFile' = Torn
            \/ pc'[p] = "read" /\ nodeFile' = nodeFile
         /\ UNCHANGED <<clock, setBacks, writable, stateFile, static, frame, run, made, issued>>
  BY DEF OpenNodeFile, Goto, env, hist, TypeOK

LEMMA CloseNodeFileEffect ==
  ASSUME TypeOK, NEW p \in Procs, CloseNodeFile(p)
  PROVE  /\ pc[p] = "nodeClose" /\ pc'[p] = "read"
         /\ UNCHANGED <<clock, setBacks, writable, stateFile, static, frame, run, made, issued>>
  BY DEF CloseNodeFile, Goto, env, hist, TypeOK

LEMMA ReadStateEffect ==
  ASSUME TypeOK, NEW p \in Procs, ReadState(p)
  PROVE  /\ pc[p] = "read" /\ pc'[p] = "write"
         /\ static'[p].read_inited = Found(static[p])
         /\ static'[p].st = StateRead(static[p])
         /\ frame'[p].clockseq \in ClockSeqs(Found(static[p]), StateRead(static[p]),
                                             frame[p].node, frame[p].timestamp)
         /\ frame'[p].timestamp = frame[p].timestamp /\ frame'[p].node = frame[p].node
         /\ SameTime(p) /\ SameNode(p) /\ SameSave(p)
         /\ UNCHANGED <<clock, setBacks, writable, stateFile, nodeFile, run, made, issued>>
<1>1. static[p] \in Statics /\ frame[p] \in Frames
  BY TypesAt
<1>2. PICK cs \in ClockSeqs(Found(static[p]), StateRead(static[p]),
                            frame[p].node, frame[p].timestamp) :
        frame' = [frame EXCEPT ![p].clockseq = cs]
  BY DEF ReadState
<1>3. /\ static'[p] = [static[p] EXCEPT !.read_inited = Found(static[p]),
                                        !.st = StateRead(static[p])]
      /\ frame'[p] = [frame[p] EXCEPT !.clockseq = cs]
  BY <1>2 DEF ReadState, TypeOK
<1>4. /\ static'[p].read_inited = Found(static[p]) /\ static'[p].st = StateRead(static[p])
      /\ frame'[p].clockseq = cs
      /\ frame'[p].timestamp = frame[p].timestamp /\ frame'[p].node = frame[p].node
      /\ SameTime(p) /\ SameNode(p) /\ SameSave(p)
  BY <1>1, <1>3 DEF Statics, Frames, SameTime, SameNode, SameSave
<1>5. /\ pc[p] = "read" /\ pc'[p] = "write"
      /\ UNCHANGED <<clock, setBacks, writable, stateFile, nodeFile, run, made, issued>>
  BY DEF ReadState, Goto, env, files, hist, TypeOK
<1> QED
  BY <1>4, <1>5

LEMMA WriteStateEffect ==
  ASSUME TypeOK, NEW p \in Procs, WriteState(p)
  PROVE  /\ pc[p] = "write"
         /\ static'[p].write_inited = TRUE
         /\ static'[p].next_save = NextSave(static[p], frame[p].timestamp)
         /\ static'[p].st = Volatile(p)
         /\ static'[p].read_inited = static[p].read_inited
         /\ \/ ~SaveDue(p) /\ pc'[p] = "return" /\ stateFile' = stateFile
            \/ SaveDue(p) /\ writable /\ pc'[p] = "close" /\ stateFile' = Torn
            \/ SaveDue(p) /\ ~writable /\ pc'[p] = "dead" /\ stateFile' = stateFile
         /\ SameTime(p) /\ SameNode(p)
         /\ UNCHANGED <<clock, setBacks, writable, nodeFile, frame, run, made, issued>>
<1>1. static[p] \in Statics
  BY TypesAt
<1>2. static'[p] = [static[p] EXCEPT !.write_inited = TRUE,
                                     !.next_save = NextSave(static[p], frame[p].timestamp),
                                     !.st = Volatile(p)]
  BY DEF WriteState, TypeOK
<1>3. /\ static'[p].write_inited = TRUE
      /\ static'[p].next_save = NextSave(static[p], frame[p].timestamp)
      /\ static'[p].st = Volatile(p)
      /\ static'[p].read_inited = static[p].read_inited
      /\ SameTime(p) /\ SameNode(p)
  BY <1>1, <1>2 DEF Statics, SameTime, SameNode
<1>4. /\ pc[p] = "write"
      /\ \/ ~SaveDue(p) /\ pc'[p] = "return" /\ stateFile' = stateFile
         \/ SaveDue(p) /\ writable /\ pc'[p] = "close" /\ stateFile' = Torn
         \/ SaveDue(p) /\ ~writable /\ pc'[p] = "dead" /\ stateFile' = stateFile
      /\ UNCHANGED <<clock, setBacks, writable, nodeFile, frame, run, made, issued>>
  BY DEF WriteState, Goto, env, hist, TypeOK
<1> QED
  BY <1>3, <1>4

LEMMA CloseStateFileEffect ==
  ASSUME TypeOK, NEW p \in Procs, CloseStateFile(p)
  PROVE  /\ pc[p] = "close" /\ pc'[p] = "return"
         /\ stateFile' = static[p].st
         /\ static'[p].next_save = frame[p].timestamp + SAVE_PERIOD
         /\ static'[p].write_inited = static[p].write_inited
         /\ SameTime(p) /\ SameNode(p) /\ SameState(p)
         /\ UNCHANGED <<clock, setBacks, writable, nodeFile, frame, run, made, issued>>
<1>1. static[p] \in Statics
  BY TypesAt
<1>2. static'[p] = [static[p] EXCEPT !.next_save = AfterSave(frame[p].timestamp)]
  BY DEF CloseStateFile, TypeOK
<1>3. /\ static'[p].next_save = frame[p].timestamp + SAVE_PERIOD
      /\ static'[p].write_inited = static[p].write_inited
      /\ SameTime(p) /\ SameNode(p) /\ SameState(p)
  BY <1>1, <1>2 DEF Statics, AfterSave, SameTime, SameNode, SameState
<1>4. /\ pc[p] = "close" /\ pc'[p] = "return" /\ stateFile' = static[p].st
      /\ UNCHANGED <<clock, setBacks, writable, nodeFile, frame, run, made, issued>>
  BY DEF CloseStateFile, Goto, env, hist, TypeOK
<1> QED
  BY <1>3, <1>4

Issue(p) == [proc |-> p, run |-> run[p], n |-> made[p], uuid |-> FormatV1(frame[p])]

LEMMA ReturnEffect ==
  ASSUME TypeOK, NEW p \in Procs, Return(p)
  PROVE  /\ pc[p] = "return" /\ pc'[p] = "idle"
         /\ issued' = issued \cup {Issue(p)}
         /\ Issue(p).proc = p /\ Issue(p).run = run[p] /\ Issue(p).n = made[p]
         /\ Issue(p).uuid.ts = frame[p].timestamp
         /\ Issue(p).uuid.cs = frame[p].clockseq % SEQ_FIELD
         /\ made'[p] = made[p] + 1
         /\ UNCHANGED <<clock, setBacks, writable, stateFile, nodeFile, static, run>>
  BY DEF Return, Goto, env, files, TypeOK, Issue, FormatV1

LEMMA RestartEffect ==
  ASSUME TypeOK, NEW p \in Procs, Restart(p)
  PROVE  /\ pc[p] = "dead" /\ pc'[p] = "idle" /\ NewReading(static[p])
         /\ static'[p].time_last = 0 /\ static'[p].write_inited = FALSE
         /\ static'[p].node_inited = FALSE
         /\ run'[p] = run[p] + 1
         /\ UNCHANGED <<clock, setBacks, writable, stateFile, nodeFile, made, issued>>
  BY DEF Restart, Goto, env, files, TypeOK, FreshStatics

LEMMA CrashEffect ==
  ASSUME TypeOK, NEW p \in Procs, Crash(p)
  PROVE  /\ pc[p] # "dead" /\ pc'[p] = "dead"
         /\ UNCHANGED <<clock, setBacks, writable, stateFile, nodeFile, static, frame,
                        run, made, issued>>
  BY DEF Crash, env, files, hist, TypeOK

(* Every step is one of the only process, or of the clock. *)
LEMMA OneSteps ==
  ASSUME Alone, NEW p \in Procs, [Next]_vars
  PROVE  \/ Enter(p) \/ GetCurrentTime(p) \/ GetNode(p) \/ OpenNodeFile(p) \/ CloseNodeFile(p)
         \/ ReadState(p) \/ WriteState(p) \/ CloseStateFile(p) \/ Return(p)
         \/ Crash(p) \/ Restart(p) \/ Tick \/ SetBack \/ UNCHANGED vars
<1>1. ASSUME NEW q \in Procs, Enter(q) \/ UuidCreate(q) \/ Crash(q) \/ Restart(q)
      PROVE  Enter(p) \/ UuidCreate(p) \/ Crash(p) \/ Restart(p)
  <2>1. q = p
    BY DEF Alone
  <2> QED
    BY <1>1, <2>1
<1> QED
  BY <1>1 DEF Next, UuidCreate

LEMMA ClockEffect ==
  ASSUME Tick \/ SetBack \/ UNCHANGED vars
  PROVE  UNCHANGED <<writable, stateFile, nodeFile, pc, static, frame, run, made, issued>>
  BY DEF Tick, SetBack, vars, files, hist
-----------------------------------------------------------------------------
(* The node ID on disk. *)

(* The file is being made only where there was none, and is Torn until it  *)
(* is closed.                                                              *)
NodeInProgress(p) ==
  /\ pc[p] = "nodeOpen" => nodeFile = NoFile
  /\ pc[p] = "nodeClose" => nodeFile = Torn

LEMMA NextNodeInProgress ==
  ASSUME Alone, TypeOK, NEW p \in Procs, NodeInProgress(p), [Next]_vars
  PROVE  NodeInProgress(p)'
<1> USE DEF NodeInProgress
<1>1. CASE Enter(p) \/ GetCurrentTime(p)
  BY <1>1, EnterEffect, TimeEffect
<1>2. CASE GetNode(p)
  BY <1>2, GetNodeEffect
<1>3. CASE OpenNodeFile(p) \/ CloseNodeFile(p)
  BY <1>3, OpenNodeFileEffect, CloseNodeFileEffect
<1>4. CASE ReadState(p) \/ WriteState(p) \/ CloseStateFile(p)
  BY <1>4, ReadStateEffect, WriteStateEffect, CloseStateFileEffect
<1>5. CASE Return(p) \/ Crash(p) \/ Restart(p)
  BY <1>5, ReturnEffect, CrashEffect, RestartEffect
<1>6. CASE Tick \/ SetBack \/ UNCHANGED vars
  BY <1>6, ClockEffect
<1> QED
  BY <1>1, <1>2, <1>3, <1>4, <1>5, <1>6, OneSteps

(* A process alone in its directory never changes a complete nodeid file,  *)
(* over any number of crashes and restarts (sysdep.c:16-33).               *)
THEOREM NodeIdKept == ASSUME Alone PROVE Spec => NodeFileStable
<1> DEFINE Progress == \A p \in Procs : NodeInProgress(p)
           Stable   == nodeFile \in NodeIds => nodeFile' = nodeFile
<1>1. Init => TypeOK /\ Progress
  BY InitTypeOK DEF Init, NodeInProgress
<1>2. TypeOK /\ Progress /\ [Next]_vars => TypeOK' /\ Progress'
  BY Alone, NextTypeOK, NextNodeInProgress
<1>3. ASSUME TypeOK, Progress, [Next]_vars PROVE [Stable]_vars
  <2>1. nodeFile \in NodeIds => nodeFile # NoFile /\ nodeFile # Torn
    BY FilesOK DEF FilesOK, AllNodes
  <2>2. ASSUME NEW p \in Procs, ~(UNCHANGED nodeFile) PROVE Stable
    <3>1. NodeInProgress(p)
      BY <1>3
    <3>2. OpenNodeFile(p) \/ CloseNodeFile(p)
      <4>1. ~(Enter(p) \/ GetCurrentTime(p) \/ GetNode(p) \/ ReadState(p))
        BY <1>3, <2>2, EnterEffect, TimeEffect, GetNodeEffect, ReadStateEffect DEF files
      <4>2. ~(WriteState(p) \/ CloseStateFile(p) \/ Return(p))
        BY <1>3, <2>2, WriteStateEffect, CloseStateFileEffect, ReturnEffect
      <4>3. ~(Crash(p) \/ Restart(p) \/ Tick \/ SetBack \/ UNCHANGED vars)
        BY <1>3, <2>2, CrashEffect, RestartEffect, ClockEffect
      <4> QED
        BY <1>3, <4>1, <4>2, <4>3, OneSteps
    <3>3. nodeFile \in {NoFile, Torn}
      BY <1>3, <3>1, <3>2, OpenNodeFileEffect, CloseNodeFileEffect DEF NodeInProgress
    <3> QED
      BY <2>1, <3>3
  <2>3. Procs = {} => UNCHANGED nodeFile
    BY <1>3, ClockEffect DEF Next
  <2> QED
    BY <2>2, <2>3
<1> QED
  BY <1>1, <1>2, <1>3, PTL DEF Spec, NodeFileStable
-----------------------------------------------------------------------------
(* The state on disk. *)

(* Once a run has saved its state, the file holds what it saved last, or   *)
(* is being rewritten, or was when the process died.  Where files cannot   *)
(* be created a process dies at its first save.                            *)
Saved(p) ==
  static[p].write_inited =>
    \/ stateFile = Torn /\ pc[p] \in {"close", "dead"}
    \/ /\ stateFile \in SavedState /\ static[p].next_save = stateFile.ts + SAVE_PERIOD
       /\ pc[p] # "close"
    \/ ~writable

AtReturn(p) ==
  pc[p] \in {"close", "return"} => static[p].write_inited /\ static[p].st = Volatile(p)

(* The state is saved when it is due, not later.                           *)
Due(p) ==
  /\ pc[p] = "close" => frame[p].timestamp >= static[p].next_save
  /\ pc[p] = "return" => frame[p].timestamp < static[p].next_save

Unwritable(p) ==
  ~writable => /\ issued = {} /\ pc[p] \notin {"close", "return"}
               /\ static[p].write_inited => pc[p] = "dead"

(* What the present run has issued is from before its next save.           *)
BeforeSave(p) ==
  \A a \in issued : a.proc = p /\ a.run = run[p] =>
    static[p].write_inited /\ a.uuid.ts < static[p].next_save

Runs(p) == \A a \in issued : a.proc = p => a.run <= run[p]

(* Without a save, the place of the next one does not move.                *)
LEMMA NotDue ==
  ASSUME TypeOK, NEW p \in Procs
  PROVE  /\ NextSave(static[p], frame[p].timestamp) \in Nat
         /\ static[p].write_inited =>
              NextSave(static[p], frame[p].timestamp) = static[p].next_save
         /\ ~SaveDue(p) => static[p].write_inited
         /\ SaveDue(p) <=> frame[p].timestamp >= NextSave(static[p], frame[p].timestamp)
<1>1. frame[p].timestamp \in Nat /\ static[p].next_save \in Nat
  BY TypesAt
<1> QED
  BY <1>1 DEF SaveDue, NextSave

LEMMA NextSaved ==
  ASSUME Alone, TypeOK, NEW p \in Procs, Saved(p), AtReturn(p), [Next]_vars
  PROVE  Saved(p)'
<1>t. frame[p].timestamp \in Nat /\ static[p].st \in SavedState /\ static[p].write_inited \in BOOLEAN
  BY TypesAt
<1>1. CASE Enter(p) \/ GetCurrentTime(p) \/ GetNode(p)
  BY <1>1, EnterEffect, TimeEffect, GetNodeEffect DEF Saved, files, SameSave
<1>2. CASE OpenNodeFile(p) \/ CloseNodeFile(p) \/ ReadState(p)
  BY <1>2, OpenNodeFileEffect, CloseNodeFileEffect, ReadStateEffect DEF Saved, SameSave
<1>3. CASE WriteState(p)
  <2>1. ~SaveDue(p) => static[p].write_inited /\ static'[p].next_save = static[p].next_save
    BY <1>3, NotDue, WriteStateEffect
  <2> QED
    BY <1>3, <2>1, WriteStateEffect DEF Saved
<1>4. CASE CloseStateFile(p)
  <2>1. stateFile' = static[p].st /\ static[p].st.ts = frame[p].timestamp
    BY <1>4, CloseStateFileEffect DEF AtReturn, Volatile
  <2>2. static'[p].next_save = stateFile'.ts + SAVE_PERIOD /\ pc'[p] = "return"
    BY <1>4, <2>1, CloseStateFileEffect
  <2> QED
    BY <1>t, <2>1, <2>2 DEF Saved
<1>5. CASE Return(p) \/ Crash(p) \/ Restart(p)
  BY <1>5, ReturnEffect, CrashEffect, RestartEffect DEF Saved
<1>6. CASE Tick \/ SetBack \/ UNCHANGED vars
  BY <1>6, ClockEffect DEF Saved
<1> QED
  BY <1>1, <1>2, <1>3, <1>4, <1>5, <1>6, OneSteps

LEMMA NextAtReturn ==
  ASSUME Alone, TypeOK, NEW p \in Procs, AtReturn(p), [Next]_vars
  PROVE  AtReturn(p)'
<1> USE DEF AtReturn
<1>1. CASE Enter(p) \/ GetCurrentTime(p) \/ GetNode(p)
  BY <1>1, EnterEffect, TimeEffect, GetNodeEffect
<1>2. CASE OpenNodeFile(p) \/ CloseNodeFile(p) \/ ReadState(p)
  BY <1>2, OpenNodeFileEffect, CloseNodeFileEffect, ReadStateEffect
<1>3. CASE WriteState(p)
  BY <1>3, WriteStateEffect DEF Volatile
<1>4. CASE CloseStateFile(p)
  BY <1>4, CloseStateFileEffect DEF Volatile, SameState
<1>5. CASE Return(p) \/ Crash(p) \/ Restart(p)
  BY <1>5, ReturnEffect, CrashEffect, RestartEffect
<1>6. CASE Tick \/ SetBack \/ UNCHANGED vars
  BY <1>6, ClockEffect DEF Volatile
<1> QED
  BY <1>1, <1>2, <1>3, <1>4, <1>5, <1>6, OneSteps

LEMMA NextDue ==
  ASSUME Alone, TypeOK, NEW p \in Procs, Due(p), [Next]_vars
  PROVE  Due(p)'
<1>t. frame[p].timestamp \in Nat /\ static[p].next_save \in Nat
  BY TypesAt
<1>1. CASE Enter(p) \/ GetCurrentTime(p) \/ GetNode(p)
  BY <1>1, EnterEffect, TimeEffect, GetNodeEffect DEF Due
<1>2. CASE OpenNodeFile(p) \/ CloseNodeFile(p) \/ ReadState(p)
  BY <1>2, OpenNodeFileEffect, CloseNodeFileEffect, ReadStateEffect DEF Due
<1>3. CASE WriteState(p)
  <2>1. static'[p].next_save = NextSave(static[p], frame[p].timestamp)
    BY <1>3, WriteStateEffect
  <2>2. IF SaveDue(p) THEN frame[p].timestamp >= static'[p].next_save
                      ELSE frame[p].timestamp < static'[p].next_save
    BY <1>t, <2>1, NotDue
  <2> QED
    BY <1>3, <2>2, WriteStateEffect DEF Due
<1>4. CASE CloseStateFile(p)
  <2>1. frame[p].timestamp < frame[p].timestamp + SAVE_PERIOD
    BY <1>t, ConstantsOK DEF ConstantsOK
  <2> QED
    BY <1>4, <2>1, CloseStateFileEffect DEF Due
<1>5. CASE Return(p) \/ Crash(p) \/ Restart(p)
  BY <1>5, ReturnEffect, CrashEffect, RestartEffect DEF Due
<1>6. CASE Tick \/ SetBack \/ UNCHANGED vars
  BY <1>6, ClockEffect DEF Due
<1> QED
  BY <1>1, <1>2, <1>3, <1>4, <1>5, <1>6, OneSteps

LEMMA NextUnwritable ==
  ASSUME Alone, TypeOK, NEW p \in Procs, Unwritable(p), [Next]_vars
  PROVE  Unwritable(p)'
<1> USE DEF Unwritable
<1>1. CASE Enter(p) \/ GetCurrentTime(p) \/ GetNode(p)
  BY <1>1, EnterEffect, TimeEffect, GetNodeEffect DEF SameSave
<1>2. CASE OpenNodeFile(p) \/ CloseNodeFile(p) \/ ReadState(p)
  BY <1>2, OpenNodeFileEffect, CloseNodeFileEffect, ReadStateEffect DEF SameSave
<1>3. CASE WriteState(p)
  <2>1. pc[p] = "write" /\ ~SaveDue(p) => writable
    BY NotDue
  <2> QED
    BY <1>3, <2>1, WriteStateEffect
<1>4. CASE CloseStateFile(p)
  BY <1>4, CloseStateFileEffect
<1>5. CASE Return(p) \/ Crash(p) \/ Restart(p)
  BY <1>5, ReturnEffect, CrashEffect, RestartEffect
<1>6. CASE Tick \/ SetBack \/ UNCHANGED vars
  BY <1>6, ClockEffect
<1> QED
  BY <1>1, <1>2, <1>3, <1>4, <1>5, <1>6, OneSteps

LEMMA NextRuns ==
  ASSUME Alone, TypeOK, NEW p \in Procs, Runs(p), [Next]_vars
  PROVE  Runs(p)'
<1> USE DEF Runs
<1>t. run[p] \in Nat /\ \A a \in issued : a.run \in Nat
  BY DEF TypeOK
<1>1. CASE Enter(p) \/ GetCurrentTime(p) \/ GetNode(p)
  BY <1>1, EnterEffect, TimeEffect, GetNodeEffect
<1>2. CASE OpenNodeFile(p) \/ CloseNodeFile(p) \/ ReadState(p)
  BY <1>2, OpenNodeFileEffect, CloseNodeFileEffect, ReadStateEffect
<1>3. CASE WriteState(p) \/ CloseStateFile(p)
  BY <1>3, WriteStateEffect, CloseStateFileEffect
<1>4. CASE Return(p)
  BY <1>t, <1>4, ReturnEffect
<1>5. CASE Crash(p)
  BY <1>5, CrashEffect
<1>6. CASE Restart(p)
  <2>1. run'[p] = run[p] + 1 /\ issued' = issued
    BY <1>6, RestartEffect
  <2>2. \A n \in Nat : n <= run[p] => n <= run[p] + 1
    BY <1>t
  <2> QED
    BY <1>t, <2>1, <2>2
<1>7. CASE Tick \/ SetBack \/ UNCHANGED vars
  BY <1>7, ClockEffect
<1> QED
  BY <1>1, <1>2, <1>3, <1>4, <1>5, <1>6, <1>7, OneSteps

LEMMA NextBeforeSave ==
  ASSUME Alone, TypeOK, NEW p \in Procs, Runs(p), Due(p), AtReturn(p), BeforeSave(p), [Next]_vars
  PROVE  BeforeSave(p)'
<1> USE DEF BeforeSave
<1>t. /\ run[p] \in Nat /\ \A a \in issued : a.run \in Nat /\ a.uuid.ts \in Nat
      /\ frame[p].timestamp \in Nat /\ static[p].next_save \in Nat
  BY TypesAt DEF TypeOK
<1>0. ASSUME UNCHANGED <<issued, run>>, SameSave(p) PROVE BeforeSave(p)'
  BY <1>0 DEF SameSave
<1>1. CASE Enter(p) \/ GetCurrentTime(p) \/ GetNode(p)
  BY <1>0, <1>1, EnterEffect, TimeEffect, GetNodeEffect DEF SameSave
<1>2. CASE OpenNodeFile(p) \/ CloseNodeFile(p) \/ ReadState(p)
  BY <1>0, <1>2, OpenNodeFileEffect, CloseNodeFileEffect, ReadStateEffect DEF SameSave
<1>3. CASE WriteState(p)
  <2>1. static[p].write_inited => static'[p].next_save = static[p].next_save
    BY <1>3, NotDue, WriteStateEffect
  <2> QED
    BY <1>3, <2>1, WriteStateEffect
<1>4. CASE CloseStateFile(p)
  <2>1. frame[p].timestamp >= static[p].next_save
    BY <1>4, CloseStateFileEffect DEF Due
  <2>2. static'[p].next_save = frame[p].timestamp + SAVE_PERIOD /\ SAVE_PERIOD \in Nat
    BY <1>4, CloseStateFileEffect, ConstantsOK DEF ConstantsOK
  <2>3. \A n \in Nat : n < static[p].next_save => n < static'[p].next_save
    BY <1>t, <2>1, <2>2
  <2> QED
    BY <1>t, <1>4, <2>3, CloseStateFileEffect
<1>5. CASE Return(p)
  <2>1. frame[p].timestamp < static[p].next_save /\ static[p].write_inited
    BY <1>5, ReturnEffect DEF Due, AtReturn
  <2> QED
    BY <1>5, <2>1, ReturnEffect
<1>6. CASE Crash(p)
  BY <1>6, CrashEffect
<1>7. CASE Restart(p)
  <2>1. \A a \in issued : a.proc = p => a.run # run[p] + 1
    BY <1>t DEF Runs
  <2> QED
    BY <1>7, <2>1, RestartEffect
<1>8. CASE Tick \/ SetBack \/ UNCHANGED vars
  BY <1>8, ClockEffect
<1> QED
  BY <1>1, <1>2, <1>3, <1>4, <1>5, <1>6, <1>7, <1>8, OneSteps

SaveInv(p) == Runs(p) /\ Saved(p) /\ AtReturn(p) /\ Due(p) /\ Unwritable(p) /\ BeforeSave(p)

LEMMA InitSaveInv == ASSUME Init, NEW p \in Procs PROVE SaveInv(p)
<1>1. /\ issued = {} /\ pc[p] = "idle" /\ static[p].write_inited = FALSE
  BY DEF Init, FreshStatics
<1> QED
  BY <1>1 DEF SaveInv, Runs, Saved, AtReturn, Due, Unwritable, BeforeSave

LEMMA NextSaveInv ==
  ASSUME Alone, TypeOK, NEW p \in Procs, SaveInv(p), [Next]_vars
  PROVE  SaveInv(p)'
<1>1. Runs(p)' /\ Saved(p)' /\ AtReturn(p)'
  BY NextRuns, NextSaved, NextAtReturn DEF SaveInv
<1>2. Due(p)' /\ Unwritable(p)' /\ BeforeSave(p)'
  BY NextDue, NextUnwritable, NextBeforeSave DEF SaveInv
<1> QED
  BY <1>1, <1>2 DEF SaveInv

(* What a crash can lose: every UUID of the present run is less than       *)
(* SAVE_PERIOD newer than the state on disk, unless the process died while *)
(* rewriting the file (write_state, uuid.c:113-128).                       *)
THEOREM LossIsBounded == ASSUME Alone PROVE Spec => []LossWindow
<1> DEFINE Inv == TypeOK /\ \A p \in Procs : SaveInv(p)
<1>1. Init => Inv
  BY InitTypeOK, InitSaveInv
<1>2. Inv /\ [Next]_vars => Inv'
  <2> SUFFICES ASSUME Inv, [Next]_vars PROVE Inv'
    OBVIOUS
  <2>1. TypeOK'
    BY NextTypeOK
  <2>2. ASSUME NEW p \in Procs PROVE SaveInv(p)'
    BY Alone, NextSaveInv
  <2> QED
    BY <2>1, <2>2
<1>3. Inv => LossWindow
  <2> SUFFICES ASSUME Inv, NEW a \in issued, a.run = run[a.proc], stateFile # Torn
               PROVE  stateFile # NoFile /\ a.uuid.ts < stateFile.ts + SAVE_PERIOD
    BY DEF LossWindow
  <2>1. a.proc \in Procs
    BY DEF TypeOK
  <2>2. SaveInv(a.proc)
    BY <2>1
  <2>3. static[a.proc].write_inited /\ a.uuid.ts < static[a.proc].next_save /\ writable
    BY <2>1, <2>2 DEF SaveInv, BeforeSave, Unwritable
  <2>4. stateFile \in SavedState /\ static[a.proc].next_save = stateFile.ts + SAVE_PERIOD
    BY <2>2, <2>3 DEF SaveInv, Saved
  <2> QED
    BY <2>3, <2>4, FilesOK DEF FilesOK
<1> QED
  BY <1>1, <1>2, <1>3, PTL DEF Spec
-----------------------------------------------------------------------------
(* The clock sequence. *)

(* UUIDs are numbered over all runs of their process.                      *)
Numbered(p) ==
  /\ \A a \in issued : a.proc = p => a.n < made[p]
  /\ \A a, b \in issued : a.proc = p /\ b.proc = p /\ a.n = b.n => a = b

(* The node ID of a run is the one it began with.                          *)
NodeKnown(p) ==
  /\ pc[p] \in {"nodeOpen", "nodeClose", "read", "write", "close", "return"} =>
       static[p].node_inited /\ frame[p].node = static[p].saved_node
  /\ static[p].write_inited =>
       /\ static[p].node_inited
       /\ pc[p] # "dead" => static[p].st.node = static[p].saved_node

(* A run that never found the file has written it with its first UUID, and *)
(* reads back with the second one what it wrote.                           *)
ReadsBack(p) ==
  static[p].write_inited /\ ~static[p].read_inited =>
    /\ pc[p] # "write"
    /\ pc[p] \notin {"close", "dead"} => stateFile = static[p].st

Waiting(p) == pc[p] \in {"idle", "time", "node", "nodeOpen", "nodeClose", "read"}
Decided(p) == pc[p] \in {"write", "close", "return"}

(* The run's last UUID, if it has one, decides about the next one.         *)
IsLast(p, a) == a.proc = p /\ a.run = run[p] /\ a.n + 1 = made[p]
Follows(a, ts, seq) == seq = IF ts < a.uuid.ts THEN (a.uuid.cs + 1) % SEQ_FIELD ELSE a.uuid.cs
LastIsKnown(p) ==
  \A a \in issued : IsLast(p, a) =>
    /\ Waiting(p) => static[p].st.ts = a.uuid.ts /\ static[p].st.cs % SEQ_FIELD = a.uuid.cs
    /\ Decided(p) => Follows(a, frame[p].timestamp, frame[p].clockseq % SEQ_FIELD)

LEMMA NextNumbered ==
  ASSUME Alone, TypeOK, NEW p \in Procs, Numbered(p), [Next]_vars
  PROVE  Numbered(p)'
<1> USE DEF Numbered
<1>t. made[p] \in Nat /\ \A a \in issued : a.n \in Nat
  BY DEF TypeOK
<1>1. ASSUME UNCHANGED <<issued, made>> PROVE Numbered(p)'
  BY <1>1
<1>2. CASE Return(p)
  <2>1. /\ issued' = issued \cup {Issue(p)} /\ made'[p] = made[p] + 1
        /\ Issue(p).proc = p /\ Issue(p).n = made[p]
    BY <1>2, ReturnEffect
  <2>2. \A a \in issued : a.proc = p => a.n < made[p] + 1 /\ a.n # made[p]
    BY <1>t
  <2> QED
    BY <1>t, <2>1, <2>2
<1>3. CASE Enter(p) \/ GetCurrentTime(p) \/ GetNode(p) \/ OpenNodeFile(p) \/ CloseNodeFile(p)
  BY <1>1, <1>3, EnterEffect, TimeEffect, GetNodeEffect, OpenNodeFileEffect, CloseNodeFileEffect
<1>4. CASE ReadState(p) \/ WriteState(p) \/ CloseStateFile(p)
  BY <1>1, <1>4, ReadStateEffect, WriteStateEffect, CloseStateFileEffect
<1>5. CASE Crash(p) \/ Restart(p)
  BY <1>1, <1>5, CrashEffect, RestartEffect
<1>6. CASE Tick \/ SetBack \/ UNCHANGED vars
  BY <1>1, <1>6, ClockEffect
<1> QED
  BY <1>2, <1>3, <1>4, <1>5, <1>6, OneSteps

(* What is read is what the run remembers, once it has saved something.    *)
LEMMA ReadsSame ==
  ASSUME TypeOK, NEW p \in Procs, ReadsBack(p), pc[p] = "read", static[p].write_inited
  PROVE  Found(static[p]) /\ StateRead(static[p]) = static[p].st
<1>1. static[p].read_inited \in BOOLEAN /\ static[p].st \in SavedState
  BY TypesAt
<1>2. ~static[p].read_inited => stateFile = static[p].st
  BY DEF ReadsBack
<1> QED
  BY <1>1, <1>2, FilesOK DEF FilesOK, Found, StateRead

LEMMA NextNodeKnown ==
  ASSUME Alone, TypeOK, NEW p \in Procs, ReadsBack(p), NodeKnown(p), [Next]_vars
  PROVE  NodeKnown(p)'
<1> USE DEF NodeKnown
<1>1. CASE Enter(p) \/ GetCurrentTime(p)
  BY <1>1, EnterEffect, TimeEffect DEF SameNode, SameState, SameSave
<1>2. CASE GetNode(p)
  BY <1>2, GetNodeEffect DEF SameState, SameSave
<1>3. CASE OpenNodeFile(p) \/ CloseNodeFile(p)
  BY <1>3, OpenNodeFileEffect, CloseNodeFileEffect
<1>8. CASE ReadState(p)
  <2>1. static[p].write_inited => static'[p].st = static[p].st
    BY <1>8, ReadsSame, ReadStateEffect
  <2> QED
    BY <1>8, <2>1, ReadStateEffect DEF SameNode, SameSave
<1>4. CASE WriteState(p)
  <2>0. static'[p].st = Volatile(p)
    BY <1>4, WriteStateEffect
  <2>1. static'[p].st.node = frame[p].node
    BY <2>0 DEF Volatile
  <2>2. /\ pc[p] = "write" /\ pc'[p] \in {"close", "return", "dead"} /\ UNCHANGED frame
        /\ SameNode(p)
    BY <1>4, WriteStateEffect
  <2> QED
    BY <2>1, <2>2 DEF SameNode
<1>5. CASE CloseStateFile(p)
  BY <1>5, CloseStateFileEffect DEF SameNode, SameState
<1>6. CASE Return(p) \/ Crash(p) \/ Restart(p)
  BY <1>6, ReturnEffect, CrashEffect, RestartEffect
<1>7. CASE Tick \/ SetBack \/ UNCHANGED vars
  BY <1>7, ClockEffect
<1> QED
  BY <1>1, <1>2, <1>3, <1>8, <1>4, <1>5, <1>6, <1>7, OneSteps

LEMMA NextReadsBack ==
  ASSUME Alone, TypeOK, NEW p \in Procs, ReadsBack(p), AtReturn(p), [Next]_vars
  PROVE  ReadsBack(p)'
<1> USE DEF ReadsBack
<1>1. CASE Enter(p) \/ GetCurrentTime(p) \/ GetNode(p)
  BY <1>1, EnterEffect, TimeEffect, GetNodeEffect DEF files, SameState, SameSave
<1>2. CASE OpenNodeFile(p) \/ CloseNodeFile(p)
  BY <1>2, OpenNodeFileEffect, CloseNodeFileEffect
<1>3. CASE ReadState(p)
  <2>1. static[p].write_inited => static'[p].read_inited
    BY <1>3, ReadsSame, ReadStateEffect
  <2> QED
    BY <1>3, <2>1, ReadStateEffect DEF SameSave
<1>4. CASE WriteState(p)
  <2>1. ~static[p].read_inited => SaveDue(p)
    BY <1>4, WriteStateEffect, NotDue
  <2> QED
    BY <1>4, <2>1, WriteStateEffect
<1>5. CASE CloseStateFile(p)
  BY <1>5, CloseStateFileEffect DEF SameState
<1>6. CASE Return(p) \/ Crash(p) \/ Restart(p)
  BY <1>6, ReturnEffect, CrashEffect, RestartEffect
<1>7. CASE Tick \/ SetBack \/ UNCHANGED vars
  BY <1>7, ClockEffect
<1> QED
  BY <1>1, <1>2, <1>3, <1>4, <1>5, <1>6, <1>7, OneSteps

SeqInv(p) == /\ SaveInv(p) /\ Numbered(p) /\ NodeKnown(p) /\ ReadsBack(p) /\ LastIsKnown(p)

(* The choice of clockseq follows the rule for the UUID before.            *)
LEMMA ReadFollows ==
  ASSUME TypeOK, NEW p \in Procs, SeqInv(p), ReadState(p), NEW a \in issued, IsLast(p, a)
  PROVE  Follows(a, frame'[p].timestamp, frame'[p].clockseq % SEQ_FIELD)
<1>1. pc[p] = "read" /\ frame'[p].timestamp = frame[p].timestamp
  BY ReadStateEffect
<1>2. static[p].write_inited
  BY DEF SeqInv, SaveInv, BeforeSave, IsLast
<1>3. Found(static[p]) /\ StateRead(static[p]) = static[p].st
  BY <1>1, <1>2, ReadsSame DEF SeqInv
<1>4. frame[p].node = static[p].st.node
  BY <1>1, <1>2 DEF SeqInv, NodeKnown
<1>5. frame'[p].clockseq \in ClockSeqs(TRUE, static[p].st, frame[p].node, frame[p].timestamp)
  BY <1>3, ReadStateEffect, Zenon
<1>6. PICK st \in SavedState : st = static[p].st
  BY TypesAt
<1>7. frame'[p].clockseq = IF frame[p].timestamp < st.ts THEN (st.cs + 1) % SEQ_WORD ELSE st.cs
  BY <1>4, <1>5, <1>6 DEF ClockSeqs
<1>8. st.ts = a.uuid.ts /\ st.cs % SEQ_FIELD = a.uuid.cs
  BY <1>1, <1>6 DEF SeqInv, LastIsKnown, Waiting
<1>9. ((st.cs + 1) % SEQ_WORD) % SEQ_FIELD = (a.uuid.cs + 1) % SEQ_FIELD
  <2>1. SEQ_FIELD \in Nat \ {0} /\ st.cs \in Seqs /\ st.cs \in Nat
    BY <1>6, ConstantsOK DEF ConstantsOK, SavedState, Seqs
  <2>2. PICK c \in 0 .. SEQ_FIELD - 1 : c = a.uuid.cs
    BY <1>8, <2>1
  <2>3. st.cs % SEQ_FIELD = c % SEQ_FIELD
    BY <1>8, <2>1, <2>2
  <2>4. (st.cs + 1) % SEQ_FIELD = (c + 1) % SEQ_FIELD
    <3>1. PICK x \in Nat, n \in Nat \ {0} : x = st.cs /\ n = SEQ_FIELD
      BY <2>1
    <3>2. c \in Nat /\ x % n = c % n
      BY <2>1, <2>2, <2>3, <3>1
    <3>3. (x + 1) % n = (c + 1) % n
      BY <3>2, NextRemainder
    <3> QED
      BY <3>1, <3>3
  <2> QED
    BY <2>1, <2>2, <2>4, WordNext
<1> QED
  BY <1>1, <1>7, <1>8, <1>9 DEF Follows

LEMMA NextLastIsKnown ==
  ASSUME Alone, TypeOK, NEW p \in Procs, SeqInv(p), [Next]_vars
  PROVE  LastIsKnown(p)'
<1>k. LastIsKnown(p)
  BY DEF SeqInv
<1>0. ASSUME UNCHANGED <<issued, run, made>>, Waiting(p)' => Waiting(p) /\ SameState(p), ~Decided(p)'
      PROVE  LastIsKnown(p)'
  BY <1>k, <1>0 DEF LastIsKnown, IsLast, SameState
<1>1. CASE Enter(p) \/ GetCurrentTime(p) \/ GetNode(p)
  <2>1. Waiting(p) /\ SameState(p) /\ ~Decided(p)'
    BY <1>1, EnterEffect, TimeEffect, GetNodeEffect DEF Waiting, Decided, SameState
  <2>2. UNCHANGED <<issued, run, made>>
    BY <1>1, EnterEffect, TimeEffect, GetNodeEffect
  <2> QED
    BY <1>0, <2>1, <2>2
<1>2. CASE OpenNodeFile(p) \/ CloseNodeFile(p)
  <2>1. Waiting(p) /\ SameState(p) /\ ~Decided(p)'
    BY <1>2, OpenNodeFileEffect, CloseNodeFileEffect DEF Waiting, Decided, SameState
  <2> QED
    BY <1>0, <1>2, <2>1, OpenNodeFileEffect, CloseNodeFileEffect
<1>3. CASE ReadState(p)
  <2>1. ~Waiting(p)' /\ UNCHANGED <<issued, run, made>>
    BY <1>3, ReadStateEffect DEF Waiting
  <2>2. \A a \in issued : IsLast(p, a) =>
          Follows(a, frame'[p].timestamp, frame'[p].clockseq % SEQ_FIELD)
    BY <1>3, ReadFollows
  <2> QED
    BY <2>1, <2>2 DEF LastIsKnown, IsLast
<1>4. CASE WriteState(p) \/ CloseStateFile(p)
  <2>1. Decided(p) /\ ~Waiting(p)' /\ UNCHANGED <<issued, run, made, frame>>
    BY <1>4, WriteStateEffect, CloseStateFileEffect DEF Decided, Waiting
  <2> QED
    BY <1>k, <2>1 DEF LastIsKnown, IsLast
<1>5. CASE Return(p)
  <2>1. /\ issued' = issued \cup {Issue(p)} /\ made'[p] = made[p] + 1 /\ UNCHANGED <<static, run>>
        /\ Issue(p).uuid.ts = frame[p].timestamp
        /\ Issue(p).uuid.cs = frame[p].clockseq % SEQ_FIELD
    BY <1>5, ReturnEffect
  <2>2. ~Decided(p)' /\ pc[p] = "return"
    BY <1>5, ReturnEffect DEF Decided
  <2>3. static[p].st = Volatile(p)
    BY <2>2 DEF SeqInv, SaveInv, AtReturn
  <2>4. static[p].st.ts = frame[p].timestamp /\ static[p].st.cs = frame[p].clockseq
    BY <2>3 DEF Volatile
  <2>5. made[p] \in Nat /\ \A a \in issued : a.n \in Nat
    BY DEF TypeOK
  <2>6. \A a \in issued : a.proc = p => a.n + 1 # made[p] + 1
    BY <2>5 DEF SeqInv, Numbered
  <2> QED
    BY <2>1, <2>2, <2>4, <2>6 DEF LastIsKnown, IsLast
<1>6. CASE Crash(p)
  BY <1>0, <1>6, CrashEffect DEF Waiting, Decided
<1>7. CASE Restart(p)
  <2>1. run'[p] = run[p] + 1 /\ issued' = issued
    BY <1>7, RestartEffect
  <2>2. run[p] \in Nat /\ \A a \in issued : a.run \in Nat
    BY DEF TypeOK
  <2>3. \A a \in issued : a.proc = p => a.run # run[p] + 1
    BY <2>2 DEF SeqInv, SaveInv, Runs
  <2> QED
    BY <2>1, <2>3 DEF LastIsKnown, IsLast
<1>8. CASE Tick \/ SetBack \/ UNCHANGED vars
  BY <1>k, <1>8, ClockEffect DEF LastIsKnown, IsLast, Waiting, Decided
<1> QED
  BY <1>1, <1>2, <1>3, <1>4, <1>5, <1>6, <1>7, <1>8, OneSteps

LEMMA NextSeqInv ==
  ASSUME Alone, TypeOK, NEW p \in Procs, SeqInv(p), [Next]_vars
  PROVE  SeqInv(p)'
<1>1. SaveInv(p)' /\ Numbered(p)' /\ LastIsKnown(p)'
  BY NextSaveInv, NextNumbered, NextLastIsKnown DEF SeqInv
<1>2. NodeKnown(p)' /\ ReadsBack(p)'
  BY NextNodeKnown, NextReadsBack DEF SeqInv, SaveInv
<1> QED
  BY <1>1, <1>2 DEF SeqInv

LEMMA InitSeqInv == ASSUME Init, NEW p \in Procs PROVE SeqInv(p)
<1>1. issued = {} /\ pc[p] = "idle" /\ static[p].write_inited = FALSE
  BY DEF Init, FreshStatics
<1> QED
  BY <1>1, InitSaveInv DEF SeqInv, Numbered, NodeKnown, ReadsBack, LastIsKnown

(* A UUID that is issued follows the rule. *)
LEMMA NextSeqFollowsClock ==
  ASSUME Alone, TypeOK, \A p \in Procs : SeqInv(p), SeqFollowsClock, [Next]_vars
  PROVE  SeqFollowsClock'
<1> SUFFICES ASSUME NEW a \in issued', NEW b \in issued', NextOf(a, b), a.run = b.run
             PROVE  SeqRule(a, b)
  BY DEF SeqFollowsClock
<1>1. CASE a \in issued /\ b \in issued
  BY <1>1 DEF SeqFollowsClock
<1>2. CASE a \notin issued \/ b \notin issued
  <2>1. PICK p \in Procs : TRUE
    <3>1. Procs = {} => issued' = issued
      BY ClockEffect DEF Next
    <3> QED
      BY <1>2, <3>1
  <2>2. Return(p)
    <3>1. ~(Enter(p) \/ GetCurrentTime(p) \/ GetNode(p) \/ ReadState(p) \/ OpenNodeFile(p))
      BY <1>2, EnterEffect, TimeEffect, GetNodeEffect, ReadStateEffect, OpenNodeFileEffect
    <3>2. ~(CloseNodeFile(p) \/ WriteState(p) \/ CloseStateFile(p) \/ Crash(p) \/ Restart(p))
      BY <1>2, CloseNodeFileEffect, WriteStateEffect, CloseStateFileEffect, CrashEffect,
         RestartEffect
    <3>3. ~(Tick \/ SetBack \/ UNCHANGED vars)
      BY <1>2, ClockEffect
    <3> QED
      BY <3>1, <3>2, <3>3, OneSteps
  <2>3. /\ issued' = issued \cup {Issue(p)}
        /\ Issue(p).proc = p /\ Issue(p).run = run[p] /\ Issue(p).n = made[p]
        /\ Issue(p).uuid.ts = frame[p].timestamp
        /\ Issue(p).uuid.cs = frame[p].clockseq % SEQ_FIELD
    BY <2>2, ReturnEffect
  <2>4. a.proc = b.proc /\ b.n = a.n + 1
    BY DEF NextOf
  <2>5. made[p] \in Nat /\ \A x \in issued : x.n \in Nat /\ (x.proc = p => x.n < made[p])
    BY DEF TypeOK, SeqInv, Numbered
  <2>6. a \in issued /\ b = Issue(p)
    BY <1>2, <2>3, <2>4, <2>5
  <2>7. IsLast(p, a)
    BY <2>3, <2>4, <2>6 DEF IsLast
  <2>8. Follows(a, frame[p].timestamp, frame[p].clockseq % SEQ_FIELD)
    BY <2>2, <2>6, <2>7, ReturnEffect DEF SeqInv, LastIsKnown, Decided
  <2> QED
    BY <2>3, <2>6, <2>8 DEF Follows, SeqRule
<1> QED
  BY <1>1, <1>2

(* In one run the clock sequence moves on exactly when the timestamp goes  *)
(* backwards from one UUID to the next (uuid.c:39-44), whatever is done to *)
(* the clock and wherever earlier runs died.                               *)
THEOREM SequenceFollows == ASSUME Alone PROVE Spec => []SeqFollowsClock
<1> DEFINE Inv == TypeOK /\ (\A p \in Procs : SeqInv(p)) /\ SeqFollowsClock
<1>1. Init => Inv
  BY InitTypeOK, InitSeqInv DEF Init, SeqFollowsClock
<1>2. Inv /\ [Next]_vars => Inv'
  <2> SUFFICES ASSUME Inv, [Next]_vars PROVE Inv'
    OBVIOUS
  <2>1. TypeOK' /\ SeqFollowsClock'
    BY Alone, NextTypeOK, NextSeqFollowsClock
  <2>2. ASSUME NEW p \in Procs PROVE SeqInv(p)'
    BY Alone, NextSeqInv
  <2> QED
    BY <2>1, <2>2
<1>3. Inv => SeqFollowsClock
  OBVIOUS
<1> QED
  BY <1>1, <1>2, <1>3, PTL DEF Spec
-----------------------------------------------------------------------------
(* No UUID is issued twice. *)

(* The clock sequence has room for the times the clock is set back: the    *)
(* field of the repository counts to 16384 (uuid.h, format_uuid_v1).       *)
FewSetBacks == MaxSetBacks < SEQ_FIELD

FromOne(p) == run[p] >= 1 /\ \A a \in issued : a.proc = p => a.run >= 1

(* While the clock is not set back, earlier runs have issued only what is  *)
(* below its readings, since a restart takes longer than its resolution.   *)
OldBelow(p) ==
  setBacks = 0 =>
    \A a \in issued : a.proc = p /\ a.run < run[p] =>
      a.uuid.ts < clock /\ (HasTimestamp(p) => a.uuid.ts < frame[p].timestamp)

(* Readings are multiples of the resolution, wherever the clock is set.    *)
Readings(p) ==
  clock > 0 /\ clock % RESOLUTION = 0 /\ static[p].time_last % RESOLUTION = 0

(* Between two calls a run remembers its last stamp, and a new stamp is    *)
(* not that one.                                                           *)
Outside(p) == pc[p] \in {"idle", "time"}
Stamping(p) == pc[p] \in {"node", "nodeOpen", "nodeClose", "read"}
Remembers(p) == static[p].write_inited /\ Outside(p) => static[p].st.ts = High(p)
Stamped(p) ==
  static[p].write_inited /\ Stamping(p) => static[p].st.ts # frame[p].timestamp

(* From a UUID of the present run the clock sequence has moved on d times, *)
(* no more often than the clock was set back; a change that is not counted *)
(* yet is still seen in the clock (Debt) or in the new stamp (Fall).  If   *)
(* it has not moved, the stamps have.                                      *)
Debt(p) == IF clock < static[p].time_last THEN 1 ELSE 0
Fall(p) == IF Stamping(p) /\ frame[p].timestamp < static[p].st.ts THEN 1 ELSE 0
Present(p) == IF Decided(p) THEN frame[p].clockseq ELSE static[p].st.cs
Below(p, a) == IF Decided(p) THEN a.uuid.ts < frame[p].timestamp
                             ELSE a.uuid.ts <= static[p].st.ts
Moved(p, a, d) ==
  /\ (a.uuid.cs + d) % SEQ_FIELD = Present(p) % SEQ_FIELD
  /\ d + Debt(p) + Fall(p) <= setBacks
  /\ d = 0 => Below(p, a)
OfRun(p, a) == a.proc = p /\ a.run = run[p]
Apart(p) ==
  pc[p] # "dead" => \A a \in issued : OfRun(p, a) => \E d \in Nat : Moved(p, a, d)

LEMMA NextFromOne ==
  ASSUME Alone, TypeOK, NEW p \in Procs, FromOne(p), [Next]_vars
  PROVE  FromOne(p)'
<1> USE DEF FromOne
<1>0. ASSUME UNCHANGED <<issued, run>> PROVE FromOne(p)'
  BY <1>0
<1>1. CASE Return(p)
  <2>1. issued' = issued \cup {Issue(p)} /\ Issue(p).run = run[p] /\ UNCHANGED run
    BY <1>1, ReturnEffect
  <2> QED
    BY <2>1
<1>2. CASE Restart(p)
  <2>1. run'[p] = run[p] + 1 /\ issued' = issued /\ run[p] \in Nat
    BY <1>2, RestartEffect, TypesAt
  <2> QED
    BY <2>1
<1>3. CASE Enter(p) \/ GetCurrentTime(p) \/ GetNode(p) \/ OpenNodeFile(p) \/ CloseNodeFile(p)
  BY <1>0, <1>3, EnterEffect, TimeEffect, GetNodeEffect, OpenNodeFileEffect, CloseNodeFileEffect
<1>4. CASE ReadState(p) \/ WriteState(p) \/ CloseStateFile(p) \/ Crash(p)
  BY <1>0, <1>4, ReadStateEffect, WriteStateEffect, CloseStateFileEffect, CrashEffect
<1>5. CASE Tick \/ SetBack \/ UNCHANGED vars
  BY <1>0, <1>5, ClockEffect
<1> QED
  BY <1>1, <1>2, <1>3, <1>4, <1>5, OneSteps

LEMMA TickEffect ==
  ASSUME TypeOK, Tick
  PROVE  /\ clock' = clock + RESOLUTION /\ clock \in Nat /\ RESOLUTION \in Nat /\ RESOLUTION >= 1
         /\ UNCHANGED <<setBacks, pc, static, frame, run, issued>>
  BY ConstantsOK DEF Tick, TypeOK, ConstantsOK, hist

LEMMA SetBackEffect ==
  ASSUME TypeOK, SetBack
  PROVE  /\ clock' \in Nat /\ clock' >= 1 /\ clock' < clock /\ clock' % RESOLUTION = 0
         /\ setBacks' = setBacks + 1
         /\ UNCHANGED <<pc, static, frame, run, issued>>
  BY DEF SetBack, TypeOK, hist

LEMMA NextReadings ==
  ASSUME Alone, TypeOK, NEW p \in Procs, Readings(p), [Next]_vars
  PROVE  Readings(p)'
<1>r. RESOLUTION \in Nat \ {0} /\ clock \in Nat
  BY ConstantsOK DEF ConstantsOK, TypeOK
<1>0. ASSUME UNCHANGED clock, static'[p].time_last = static[p].time_last PROVE Readings(p)'
  BY <1>0 DEF Readings
<1>1. CASE GetCurrentTime(p)
  BY <1>1, TimeEffect DEF Readings
<1>2. CASE Restart(p)
  <2>1. static'[p].time_last = 0 /\ UNCHANGED clock
    BY <1>2, RestartEffect
  <2>2. 0 % RESOLUTION = 0
    BY <1>r
  <2> QED
    BY <2>1, <2>2 DEF Readings
<1>3. CASE Enter(p) \/ GetNode(p) \/ OpenNodeFile(p) \/ CloseNodeFile(p)
  BY <1>0, <1>3, EnterEffect, GetNodeEffect, OpenNodeFileEffect, CloseNodeFileEffect DEF SameTime
<1>4. CASE ReadState(p) \/ WriteState(p) \/ CloseStateFile(p)
  BY <1>0, <1>4, ReadStateEffect, WriteStateEffect, CloseStateFileEffect DEF SameTime
<1>5. CASE Return(p) \/ Crash(p)
  BY <1>0, <1>5, ReturnEffect, CrashEffect
<1>6. CASE Tick
  <2>1. clock' = clock + RESOLUTION /\ static' = static
    BY <1>6, TickEffect
  <2>2. (clock + RESOLUTION) % RESOLUTION = 0
    BY <1>r, MultiplesAdd DEF Readings
  <2> QED
    BY <1>r, <2>1, <2>2 DEF Readings
<1>7. CASE SetBack
  BY <1>7, SetBackEffect DEF Readings
<1>8. CASE UNCHANGED vars
  BY <1>8 DEF Readings, vars
<1> QED
  BY <1>1, <1>2, <1>3, <1>4, <1>5, <1>6, <1>7, <1>8, OneSteps

(* A new stamp falls below the last one exactly if the clock was set back  *)
(* behind its reading.                                                     *)
LEMMA StampMoves ==
  ASSUME NoBurst, TypeOK, ClockRuns, NEW p \in Procs, Readings(p), GetCurrentTime(p)
  PROVE  IF clock < static[p].time_last THEN frame'[p].timestamp < High(p)
                                        ELSE frame'[p].timestamp > High(p)
<1>1. PICK last \in Nat, count \in 0 .. UUIDS_PER_TICK :
        last = static[p].time_last /\ count = static[p].uuids_this_tick
  BY TypesAt DEF Statics
<1>2. frame'[p].timestamp = clock + (IF last # clock THEN 0 ELSE count + 1)
  BY <1>1, TimeEffect DEF CountInTick, NewReading
<1>3. RESOLUTION \in Nat \ {0} /\ clock \in Nat /\ UUIDS_PER_TICK \in Nat
  BY ConstantsOK DEF ConstantsOK, TypeOK
<1>4. /\ High(p) = IF last = 0 THEN 0 ELSE last + count
      /\ last # 0 => count < RESOLUTION
  BY <1>1 DEF High, NoBurst
<1>5. clock < last => clock + RESOLUTION <= last
  BY <1>1, <1>3, MultiplesApart DEF Readings
<1>6. last < clock => last + RESOLUTION <= clock
  BY <1>1, <1>3, MultiplesApart DEF Readings
<1>7. clock > 0
  BY DEF ClockRuns
<1>8. IF clock < last THEN frame'[p].timestamp < High(p) ELSE frame'[p].timestamp > High(p)
  BY <1>2, <1>3, <1>4, <1>5, <1>6, <1>7
<1> QED
  BY <1>1, <1>8

LEMMA NextRemembers ==
  ASSUME Alone, TypeOK, StampIsHigh, NEW p \in Procs, AtReturn(p), Remembers(p), [Next]_vars
  PROVE  Remembers(p)'
<1> USE DEF Remembers
<1>1. CASE Enter(p)
  BY <1>1, EnterEffect DEF Outside, High
<1>2. CASE Return(p)
  <2>1. pc[p] = "return" /\ static' = static /\ HasTimestamp(p)
    BY <1>2, ReturnEffect DEF HasTimestamp
  <2>2. static[p].st = Volatile(p) /\ frame[p].timestamp = High(p)
    BY <2>1 DEF AtReturn, StampIsHigh
  <2>3. static[p].st.ts = frame[p].timestamp
    BY <2>2 DEF Volatile
  <2> QED
    BY <2>1, <2>2, <2>3 DEF High
<1>3. CASE GetCurrentTime(p) \/ GetNode(p) \/ OpenNodeFile(p) \/ CloseNodeFile(p)
  BY <1>3, TimeEffect, GetNodeEffect, OpenNodeFileEffect, CloseNodeFileEffect DEF Outside
<1>4. CASE ReadState(p) \/ WriteState(p) \/ CloseStateFile(p)
  BY <1>4, ReadStateEffect, WriteStateEffect, CloseStateFileEffect DEF Outside
<1>5. CASE Crash(p) \/ Restart(p)
  BY <1>5, CrashEffect, RestartEffect DEF Outside
<1>6. CASE Tick \/ SetBack \/ UNCHANGED vars
  BY <1>6, ClockEffect DEF Outside, High
<1> QED
  BY <1>1, <1>2, <1>3, <1>4, <1>5, <1>6, OneSteps

LEMMA NextStamped ==
  ASSUME NoBurst, Alone, TypeOK, ClockRuns, NEW p \in Procs, Readings(p), Remembers(p),
         Stamped(p), [Next]_vars
  PROVE  Stamped(p)'
<1> USE DEF Stamped
<1>1. CASE GetCurrentTime(p)
  <2>1. frame'[p].timestamp # High(p)
    <3>1. High(p) \in Nat
      BY TypesAt DEF High
    <3>2. frame'[p].timestamp < High(p) \/ frame'[p].timestamp > High(p)
      BY <1>1, StampMoves
    <3> QED
      BY <3>1, <3>2
  <2>2. static[p].write_inited => static[p].st.ts = High(p)
    BY <1>1, TimeEffect DEF Remembers, Outside
  <2> QED
    BY <1>1, <2>1, <2>2, TimeEffect DEF SameState, SameSave
<1>2. CASE GetNode(p)
  BY <1>2, GetNodeEffect DEF Stamping, SameState, SameSave
<1>3. CASE OpenNodeFile(p) \/ CloseNodeFile(p)
  BY <1>3, OpenNodeFileEffect, CloseNodeFileEffect DEF Stamping
<1>4. CASE Enter(p) \/ ReadState(p) \/ WriteState(p) \/ CloseStateFile(p)
  BY <1>4, EnterEffect, ReadStateEffect, WriteStateEffect, CloseStateFileEffect DEF Stamping
<1>5. CASE Return(p) \/ Crash(p) \/ Restart(p)
  BY <1>5, ReturnEffect, CrashEffect, RestartEffect DEF Stamping
<1>6. CASE Tick \/ SetBack \/ UNCHANGED vars
  BY <1>6, ClockEffect DEF Stamping
<1> QED
  BY <1>1, <1>2, <1>3, <1>4, <1>5, <1>6, OneSteps

LEMMA NextOldBelow ==
  ASSUME NoBurst, Alone, IInv, NEW p \in Procs, Runs(p), OldBelow(p), [Next]_vars
  PROVE  OldBelow(p)'
<1>i. TypeOK
  BY DEF IInv
<1>t. /\ clock \in Nat /\ setBacks \in Nat /\ run[p] \in Nat
      /\ \A a \in issued : a.run \in Nat /\ a.uuid.ts \in Nat
  BY <1>i DEF TypeOK
<1>0. ASSUME UNCHANGED <<issued, run, clock, setBacks>>, HasTimestamp(p)' => HasTimestamp(p),
             frame'[p].timestamp = frame[p].timestamp
      PROVE  OldBelow(p)'
  BY <1>0 DEF OldBelow
<1>1. CASE GetCurrentTime(p)
  <2>1. frame'[p].timestamp >= clock /\ UNCHANGED <<issued, run, clock, setBacks>>
    <3>1. CountInTick(static[p]) \in Nat /\ frame'[p].timestamp = clock + CountInTick(static[p])
      BY <1>i, <1>1, TypesAt, TimeEffect DEF CountInTick
    <3>2. UNCHANGED <<issued, run, clock, setBacks>>
      BY <1>i, <1>1, TimeEffect
    <3> QED
      BY <1>t, <3>1, <3>2
  <2>2. \A n \in Nat : n < clock => n < frame'[p].timestamp
    <3>1. frame'[p].timestamp \in Nat
      BY <1>i, NextTypeOK, TypesAt DEF TypeOK, Frames
    <3> QED
      BY <1>t, <2>1, <3>1
  <2> QED
    BY <1>t, <2>1, <2>2 DEF OldBelow
<1>2. CASE Return(p)
  <2>1. /\ issued' = issued \cup {Issue(p)} /\ Issue(p).run = run[p]
        /\ UNCHANGED <<clock, setBacks, run>>
    BY <1>i, <1>2, ReturnEffect
  <2>2. ~HasTimestamp(p)'
    BY <1>i, <1>2, ReturnEffect DEF HasTimestamp
  <2> QED
    BY <1>t, <2>1, <2>2 DEF OldBelow
<1>3. CASE Restart(p)
  <2>1. /\ run'[p] = run[p] + 1 /\ UNCHANGED <<clock, setBacks, issued>>
        /\ static[p].time_last # clock
    BY <1>i, <1>3, RestartEffect DEF NewReading
  <2>2. ~HasTimestamp(p)'
    BY <1>i, <1>3, RestartEffect DEF HasTimestamp
  <2>3. ASSUME setBacks = 0, NEW a \in issued, a.proc = p, a.run = run[p]
        PROVE  a.uuid.ts < clock
    <3>1. a.uuid.ts <= High(p)
      BY <2>3 DEF IInv, IssuedBelow
    <3>2. static[p].time_last + RESOLUTION <= clock
      BY <2>1, <2>3 DEF IInv, ClockAhead
    <3>3. PICK last \in Nat, count \in 0 .. UUIDS_PER_TICK :
            last = static[p].time_last /\ count = static[p].uuids_this_tick
      BY <1>i, TypesAt DEF Statics
    <3>4. /\ High(p) = IF last = 0 THEN 0 ELSE last + count
          /\ last # 0 => count < RESOLUTION
      BY <3>3 DEF High, NoBurst
    <3>5. clock > 0
      BY DEF IInv, ClockRuns
    <3> QED
      BY <1>t, <3>1, <3>2, <3>3, <3>4, <3>5, ConstantsOK DEF ConstantsOK
  <2>4. \A a \in issued : a.run < run[p] + 1 => a.run < run[p] \/ a.run = run[p]
    BY <1>t
  <2> QED
    BY <2>1, <2>2, <2>3, <2>4 DEF OldBelow
<1>4. CASE Enter(p) \/ GetNode(p)
  BY <1>0, <1>i, <1>4, EnterEffect, GetNodeEffect DEF HasTimestamp
<1>5. CASE OpenNodeFile(p) \/ CloseNodeFile(p) \/ ReadState(p)
  BY <1>0, <1>i, <1>5, OpenNodeFileEffect, CloseNodeFileEffect, ReadStateEffect DEF HasTimestamp
<1>6. CASE WriteState(p) \/ CloseStateFile(p) \/ Crash(p)
  BY <1>0, <1>i, <1>6, WriteStateEffect, CloseStateFileEffect, CrashEffect DEF HasTimestamp
<1>7. CASE Tick
  <2>1. clock' >= clock /\ UNCHANGED <<setBacks, pc, frame, run, issued>>
    BY <1>i, <1>7, TickEffect
  <2>2. \A n \in Nat : n < clock => n < clock'
    BY <1>i, <1>7, TickEffect
  <2> QED
    BY <1>t, <2>1, <2>2 DEF OldBelow, HasTimestamp
<1>8. CASE SetBack
  <2>1. setBacks' # 0
    BY <1>i, <1>t, <1>8, SetBackEffect
  <2> QED
    BY <2>1 DEF OldBelow
<1>9. CASE UNCHANGED vars
  BY <1>9 DEF OldBelow, HasTimestamp, vars
<1> QED
  BY <1>1, <1>2, <1>3, <1>4, <1>5, <1>6, <1>7, <1>8, <1>9, OneSteps

LEMMA ApartTypes ==
  ASSUME TypeOK, NEW p \in Procs
  PROVE  /\ setBacks \in 0 .. MaxSetBacks /\ MaxSetBacks \in Nat /\ clock \in Nat
         /\ Debt(p) \in 0 .. 1 /\ Fall(p) \in 0 .. 1 /\ Present(p) \in Nat
         /\ \A a \in issued : a.uuid.ts \in Nat /\ a.uuid.cs \in Nat
         /\ SEQ_FIELD \in Nat \ {0}
<1>1. static[p].st.cs \in Nat /\ frame[p].clockseq \in Nat
  BY TypesAt DEF SavedState, Seqs
<1> QED
  BY <1>1, ConstantsOK DEF TypeOK, ConstantsOK, Debt, Fall, Present

(* Steps that leave clock, stamps and the two words alone.                 *)
LEMMA ApartKept ==
  ASSUME NEW p \in Procs, Apart(p), pc[p] # "dead", UNCHANGED <<clock, setBacks, issued, run>>,
         static'[p].time_last = static[p].time_last,
         frame'[p].timestamp = frame[p].timestamp, frame'[p].clockseq = frame[p].clockseq,
         Stamping(p)' <=> Stamping(p), Decided(p)' <=> Decided(p),
         static'[p].st = static[p].st \/ (Decided(p) /\ ~Stamping(p))
  PROVE  Apart(p)'
<1>1. Debt(p)' = Debt(p)
  BY DEF Debt
<1>2. Fall(p)' = Fall(p)
  BY Zenon DEF Fall
<1>3. Present(p)' = Present(p)
  BY Zenon DEF Present
<1>4. \A a \in issued : Below(p, a) => Below(p, a)'
  BY DEF Below
<1>5. \A a \in issued, d \in Nat : Moved(p, a, d) => Moved(p, a, d)'
  BY <1>1, <1>2, <1>3, <1>4 DEF Moved
<1> QED
  BY <1>5 DEF Apart, OfRun

(* A new stamp takes the debt over. *)
LEMMA ApartAtStamp ==
  ASSUME NoBurst, TypeOK, ClockRuns, NEW p \in Procs, Readings(p), Remembers(p),
         BeforeSave(p), Apart(p), GetCurrentTime(p)
  PROVE  Apart(p)'
<1> SUFFICES ASSUME NEW a \in issued, OfRun(p, a), NEW d \in Nat, Moved(p, a, d)
             PROVE  Moved(p, a, d)'
  <2>1. UNCHANGED <<issued, run>> /\ pc[p] # "dead"
    BY TimeEffect
  <2> QED
    BY <2>1 DEF Apart, OfRun
<1>1. /\ pc[p] = "time" /\ pc'[p] = "node" /\ static'[p].st = static[p].st
      /\ static'[p].time_last = clock /\ UNCHANGED <<clock, setBacks>>
  BY TimeEffect DEF SameState
<1>2. ~Decided(p) /\ ~Decided(p)' /\ ~Stamping(p) /\ Stamping(p)' /\ Outside(p)
  BY <1>1 DEF Decided, Stamping, Outside
<1>3. static[p].st.ts = High(p)
  BY <1>2 DEF Remembers, BeforeSave, OfRun
<1>4. IF clock < static[p].time_last THEN frame'[p].timestamp < static[p].st.ts
                                     ELSE frame'[p].timestamp > static[p].st.ts
  BY <1>3, StampMoves
<1>5. frame'[p].timestamp \in Nat /\ static[p].st.ts \in Nat
  <2>1. TypeOK'
    BY NextTypeOK DEF Next, UuidCreate
  <2>2. frame'[p] \in Frames
    BY <2>1 DEF TypeOK
  <2> QED
    BY <2>2, TypesAt DEF Frames, SavedState
<1>6. Fall(p)' = Debt(p)
  BY <1>1, <1>2, <1>4, <1>5 DEF Fall, Debt
<1>7. Fall(p) = 0 /\ Debt(p)' = 0
  <2>1. Fall(p) = 0
    BY <1>2 DEF Fall
  <2>2. Debt(p)' = 0
    BY <1>1, ApartTypes DEF Debt
  <2> QED
    BY <2>1, <2>2
<1>8. Present(p)' = Present(p)
  BY <1>1, <1>2 DEF Present
<1>9. Below(p, a)' <=> Below(p, a)
  BY <1>1, <1>2 DEF Below
<1>10. (d + Debt(p) + Fall(p) <= setBacks) <=> (d + Debt(p) + Fall(p) <= setBacks)'
  BY <1>1, <1>6, <1>7, ApartTypes
<1> QED
  BY <1>8, <1>9, <1>10 DEF Moved

(* Where the new stamp is below the last one, the clock sequence moves on. *)
LEMMA ApartAtRead ==
  ASSUME TypeOK, NEW p \in Procs, SeqInv(p), Stamped(p), Apart(p), ReadState(p)
  PROVE  Apart(p)'
<1> SUFFICES ASSUME NEW a \in issued, OfRun(p, a), NEW d \in Nat, Moved(p, a, d)
             PROVE  \E e \in Nat : Moved(p, a, e)'
  <2>1. UNCHANGED <<issued, run>> /\ pc[p] # "dead"
    BY ReadStateEffect
  <2> QED
    BY <2>1 DEF Apart, OfRun
<1>1. /\ pc[p] = "read" /\ pc'[p] = "write" /\ UNCHANGED <<clock, setBacks>>
      /\ static'[p].time_last = static[p].time_last
      /\ frame'[p].timestamp = frame[p].timestamp
  BY ReadStateEffect DEF SameTime
<1>2. ~Decided(p) /\ Decided(p)' /\ Stamping(p) /\ ~Stamping(p)'
  BY <1>1 DEF Decided, Stamping
<1>3. static[p].write_inited
  BY DEF SeqInv, SaveInv, BeforeSave, OfRun
<1>4. PICK st \in SavedState : st = static[p].st
  BY TypesAt
<1>5. frame'[p].clockseq = IF frame[p].timestamp < st.ts THEN (st.cs + 1) % SEQ_WORD ELSE st.cs
  <2>1. Found(static[p]) /\ StateRead(static[p]) = static[p].st
    BY <1>1, <1>3, ReadsSame DEF SeqInv
  <2>2. frame[p].node = static[p].st.node
    BY <1>1, <1>3 DEF SeqInv, NodeKnown
  <2>3. frame'[p].clockseq \in ClockSeqs(TRUE, static[p].st, frame[p].node, frame[p].timestamp)
    BY <2>1, ReadStateEffect, Zenon
  <2> QED
    BY <1>4, <2>2, <2>3 DEF ClockSeqs
<1>6. frame[p].timestamp # st.ts /\ frame[p].timestamp \in Nat /\ st.ts \in Nat /\ st.cs \in Seqs
  BY <1>2, <1>3, <1>4, TypesAt DEF Stamped, SavedState
<1>7. Debt(p)' = Debt(p) /\ Fall(p)' = 0 /\ Debt(p) \in 0 .. 1
  BY <1>1, <1>2, ApartTypes DEF Debt, Fall
<1>8. /\ Present(p) = st.cs /\ Present(p)' = frame'[p].clockseq
      /\ Below(p, a) <=> a.uuid.ts <= st.ts
      /\ Below(p, a)' <=> a.uuid.ts < frame[p].timestamp
  BY <1>1, <1>2, <1>4 DEF Present, Below
<1>9. /\ (a.uuid.cs + d) % SEQ_FIELD = st.cs % SEQ_FIELD
      /\ d + Debt(p) + Fall(p) <= setBacks
      /\ d = 0 => a.uuid.ts <= st.ts
  BY <1>8 DEF Moved
<1>10. a.uuid.ts \in Nat /\ a.uuid.cs \in Nat /\ setBacks \in Nat /\ SEQ_FIELD \in Nat \ {0}
  BY ApartTypes
<1>11. CASE frame[p].timestamp < st.ts
  <2>1. Fall(p) = 1
    BY <1>2, <1>4, <1>11 DEF Fall
  <2>2. (a.uuid.cs + (d + 1)) % SEQ_FIELD = Present(p)' % SEQ_FIELD
    <3>1. PICK x \in Nat, y \in Nat, n \in Nat \ {0} :
            x = a.uuid.cs + d /\ y = st.cs /\ n = SEQ_FIELD
      BY <1>6, <1>10 DEF Seqs
    <3>2. (x + 1) % n = (y + 1) % n
      BY <1>9, <3>1, NextRemainder
    <3>3. a.uuid.cs + (d + 1) = x + 1
      BY <1>10, <3>1
    <3>4. Present(p)' % SEQ_FIELD = (y + 1) % n
      BY <1>5, <1>6, <1>8, <1>11, <3>1, WordNext
    <3> QED
      BY <3>1, <3>2, <3>3, <3>4
  <2>3. (d + 1) + Debt(p)' + Fall(p)' <= setBacks'
    BY <1>1, <1>7, <1>9, <1>10, <2>1
  <2>4. Moved(p, a, d + 1)'
    BY <2>2, <2>3 DEF Moved
  <2> QED
    BY <2>4
<1>12. CASE ~(frame[p].timestamp < st.ts)
  <2>1. Fall(p) = 0
    BY <1>4, <1>12 DEF Fall
  <2>2. (a.uuid.cs + d) % SEQ_FIELD = Present(p)' % SEQ_FIELD
    BY <1>5, <1>8, <1>9, <1>12
  <2>3. d + Debt(p)' + Fall(p)' <= setBacks'
    BY <1>1, <1>7, <1>9, <1>10, <2>1
  <2>4. d = 0 => Below(p, a)'
    BY <1>6, <1>8, <1>9, <1>10, <1>12
  <2>5. Moved(p, a, d)'
    BY <2>2, <2>3, <2>4 DEF Moved
  <2> QED
    BY <2>5
<1> QED
  BY <1>11, <1>12

(* A UUID that is issued is the one the clock sequence stands at. *)
LEMMA ApartAtReturn ==
  ASSUME TypeOK, ClockAhead, NEW p \in Procs, AtReturn(p), Apart(p), Return(p)
  PROVE  Apart(p)'
<1>0. PICK new \in {Issue(p)} : TRUE
  OBVIOUS
<1>1. /\ pc[p] = "return" /\ pc'[p] = "idle" /\ issued' = issued \cup {new}
      /\ new.uuid.ts = frame[p].timestamp
      /\ new.uuid.cs = frame[p].clockseq % SEQ_FIELD
      /\ UNCHANGED <<clock, setBacks, static, run>>
  BY <1>0, ReturnEffect
<1>2. Decided(p) /\ ~Decided(p)' /\ ~Stamping(p) /\ ~Stamping(p)' /\ pc[p] # "dead"
  BY <1>1 DEF Decided, Stamping
<1>3. static[p].st.ts = frame[p].timestamp /\ static[p].st.cs = frame[p].clockseq
  <2>1. static[p].st = Volatile(p)
    BY <1>1 DEF AtReturn
  <2> QED
    BY <2>1 DEF Volatile
<1>4. Debt(p)' = Debt(p) /\ Fall(p)' = Fall(p) /\ Fall(p) = 0
  BY <1>1, <1>2 DEF Debt, Fall
<1>5. Present(p)' = Present(p) /\ Present(p) = frame[p].clockseq
  BY <1>1, <1>2, <1>3 DEF Present
<1>6. frame[p].timestamp \in Nat /\ frame[p].clockseq \in Nat /\ \A a \in issued : a.uuid.ts \in Nat
  BY ApartTypes, TypesAt DEF Seqs
<1>7. \A a \in issued : Below(p, a) => Below(p, a)'
  BY <1>1, <1>2, <1>3, <1>6 DEF Below
<1>8. \A a \in issued, d \in Nat : Moved(p, a, d) => Moved(p, a, d)'
  BY <1>1, <1>4, <1>5, <1>7 DEF Moved
<1>9. Moved(p, new, 0)'
  <2>1. (new.uuid.cs + 0) % SEQ_FIELD = Present(p)' % SEQ_FIELD
    <3>1. PICK x \in Nat, n \in Nat \ {0} : x = frame[p].clockseq /\ n = SEQ_FIELD
      BY <1>6, ApartTypes
    <3>2. x % n \in 0 .. n - 1
      BY <3>1
    <3>3. (n * 0 + (x % n)) % n = x % n
      BY <3>2, OneRemainder
    <3>4. n * 0 + (x % n) = (x % n) + 0
      BY <3>2
    <3> QED
      BY <1>1, <1>5, <3>1, <3>3, <3>4
  <2>2. Debt(p) <= setBacks
    <3>1. setBacks = 0 => static[p].time_last <= clock
      BY ConstantsOK, TypesAt DEF ClockAhead, ConstantsOK, TypeOK
    <3>2. setBacks \in Nat /\ static[p].time_last \in Nat /\ clock \in Nat
      BY ApartTypes, TypesAt
    <3> QED
      BY <3>1, <3>2 DEF Debt
  <2>3. 0 + Debt(p)' + Fall(p)' <= setBacks'
    BY <1>1, <1>4, <2>2, ApartTypes
  <2>4. Below(p, new)'
    BY <1>1, <1>2, <1>3, <1>6 DEF Below
  <2> QED
    BY <1>1, <2>1, <2>3, <2>4 DEF Moved
<1> QED
  BY <1>1, <1>2, <1>8, <1>9 DEF Apart, OfRun

LEMMA NextApart ==
  ASSUME NoBurst, Alone, TypeOK, ClockRuns, ClockAhead, NEW p \in Procs, Readings(p), Remembers(p),
         Stamped(p), SeqInv(p), Apart(p), [Next]_vars
  PROVE  Apart(p)'
<1>s. BeforeSave(p) /\ AtReturn(p) /\ Runs(p)
  BY DEF SeqInv, SaveInv
<1>1. CASE Enter(p)
  BY <1>1, EnterEffect, ApartKept DEF Stamping, Decided
<1>2. CASE GetCurrentTime(p)
  BY <1>2, <1>s, ApartAtStamp
<1>3. CASE GetNode(p)
  BY <1>3, GetNodeEffect, ApartKept DEF Stamping, Decided, SameTime, SameState
<1>4. CASE OpenNodeFile(p)
  BY <1>4, OpenNodeFileEffect, ApartKept DEF Stamping, Decided
<1>5. CASE CloseNodeFile(p)
  BY <1>5, CloseNodeFileEffect, ApartKept DEF Stamping, Decided
<1>6. CASE ReadState(p)
  BY <1>6, ApartAtRead
<1>7. CASE WriteState(p)
  <2>1. pc'[p] = "dead" => Apart(p)'
    BY DEF Apart
  <2>2. pc'[p] # "dead" => Apart(p)'
    BY <1>7, WriteStateEffect, ApartKept DEF Stamping, Decided, SameTime
  <2> QED
    BY <2>1, <2>2
<1>8. CASE CloseStateFile(p)
  BY <1>8, CloseStateFileEffect, ApartKept DEF Stamping, Decided, SameTime, SameState
<1>9. CASE Return(p)
  BY <1>9, <1>s, ApartAtReturn
<1>10. CASE Crash(p)
  BY <1>10, CrashEffect DEF Apart
<1>11. CASE Restart(p)
  <2>1. run'[p] = run[p] + 1 /\ issued' = issued
    BY <1>11, RestartEffect
  <2>2. run[p] \in Nat /\ \A a \in issued : a.run \in Nat
    BY DEF TypeOK
  <2>3. \A a \in issued : a.proc = p => a.run # run[p] + 1
    BY <1>s, <2>2 DEF Runs
  <2> QED
    BY <2>1, <2>3 DEF Apart, OfRun
<1>12. CASE Tick \/ SetBack
  <2>1. UNCHANGED <<pc, static, frame, issued, run>>
    BY <1>12, TickEffect, SetBackEffect
  <2>2. Present(p)' = Present(p) /\ Fall(p)' = Fall(p)
    BY <2>1 DEF Present, Fall, Decided, Stamping
  <2>3. \A a \in issued : Below(p, a)' <=> Below(p, a)
    BY <2>1 DEF Below, Decided
  <2>4. Debt(p)' - setBacks' <= Debt(p) - setBacks
    <3>1. CASE Tick
      BY <3>1, TickEffect, ApartTypes, TypesAt DEF Debt
    <3>2. CASE SetBack
      <4>1. Debt(p)' <= 1 /\ setBacks' = setBacks + 1
        BY <3>2, SetBackEffect DEF Debt
      <4>2. Debt(p)' \in 0 .. 1
        BY DEF Debt
      <4> QED
        BY <4>1, <4>2, ApartTypes
    <3> QED
      BY <1>12, <3>1, <3>2
  <2>5. setBacks' \in Nat /\ Debt(p)' \in 0 .. 1
    <3>1. TypeOK'
      BY NextTypeOK
    <3> QED
      BY <3>1 DEF TypeOK, Debt
  <2>6. ASSUME NEW d \in Nat, d + Debt(p) + Fall(p) <= setBacks
        PROVE  d + Debt(p)' + Fall(p)' <= setBacks'
    BY <2>2, <2>4, <2>5, <2>6, ApartTypes
  <2>7. \A a \in issued, d \in Nat : Moved(p, a, d) => Moved(p, a, d)'
    BY <2>2, <2>3, <2>6 DEF Moved
  <2> QED
    BY <2>1, <2>7 DEF Apart, OfRun
<1>13. CASE UNCHANGED vars
  <2>1. pc[p] = "dead" => Apart(p)'
    BY <1>13 DEF vars, Apart
  <2>2. pc[p] # "dead" => Apart(p)'
    BY <1>13, ApartKept DEF vars, Stamping, Decided
  <2> QED
    BY <2>1, <2>2
<1> QED
  BY <1>1, <1>2, <1>3, <1>4, <1>5, <1>6, <1>7, <1>8, <1>9, <1>10, <1>11, <1>12, <1>13, OneSteps

UniqueInv(p) ==
  /\ SeqInv(p) /\ FromOne(p) /\ OldBelow(p)
  /\ Readings(p) /\ Remembers(p) /\ Stamped(p) /\ Apart(p)

LEMMA NextUniqueInv ==
  ASSUME NoBurst, Alone, IInv, NEW p \in Procs, UniqueInv(p), [Next]_vars
  PROVE  UniqueInv(p)'
<1>1. TypeOK /\ ClockRuns /\ ClockAhead /\ StampIsHigh /\ Runs(p) /\ AtReturn(p)
  BY DEF IInv, UniqueInv, SeqInv, SaveInv
<1>2. SeqInv(p)' /\ FromOne(p)' /\ OldBelow(p)'
  BY <1>1, NextSeqInv, NextFromOne, NextOldBelow DEF UniqueInv
<1>3. Readings(p)' /\ Remembers(p)'
  BY <1>1, NextReadings, NextRemembers DEF UniqueInv
<1>4. Stamped(p)' /\ Apart(p)'
  BY <1>1, NextStamped, NextApart DEF UniqueInv
<1> QED
  BY <1>2, <1>3, <1>4 DEF UniqueInv

LEMMA InitUniqueInv == ASSUME Init, NEW p \in Procs PROVE UniqueInv(p)
<1>1. /\ issued = {} /\ pc[p] = "idle" /\ static[p].write_inited = FALSE /\ run[p] = 1
      /\ clock = RESOLUTION /\ static[p].time_last = 0
  BY DEF Init, FreshStatics
<1>2. RESOLUTION \in Nat \ {0} /\ RESOLUTION % RESOLUTION = 0 /\ 0 % RESOLUTION = 0
  <2>1. PICK n \in Nat \ {0} : n = RESOLUTION
    BY ConstantsOK DEF ConstantsOK
  <2>2. n % n = 0 /\ 0 % n = 0
    OBVIOUS
  <2> QED
    BY <2>1, <2>2
<1>3. Readings(p)
  BY <1>1, <1>2 DEF Readings
<1> QED
  BY <1>1, <1>3, InitSeqInv
     DEF UniqueInv, FromOne, OldBelow, Remembers, Stamped, Apart

(* Condition of UniqueUuids. *)
Trusted == setBacks = 0 \/ \A p \in Procs : run[p] = 1

(* What is issued is new. *)
LEMMA IssueIsNew ==
  ASSUME FewSetBacks, IInv, NEW p \in Procs, UniqueInv(p), Trusted, Return(p),
         NEW a \in issued, a.proc = p
  PROVE  a.uuid # Issue(p).uuid
<1>i. TypeOK
  BY DEF IInv
<1>1. /\ pc[p] = "return" /\ Issue(p).uuid.ts = frame[p].timestamp
      /\ Issue(p).uuid.cs = frame[p].clockseq % SEQ_FIELD
  BY <1>i, ReturnEffect
<1>2. HasTimestamp(p) /\ Decided(p) /\ pc[p] # "dead"
  BY <1>1 DEF HasTimestamp, Decided
<1>3. /\ a.run \in Nat /\ run[p] \in Nat /\ a.uuid.ts \in Nat /\ a.uuid.cs \in Nat
      /\ frame[p].timestamp \in Nat /\ frame[p].clockseq \in Nat
      /\ setBacks \in 0 .. MaxSetBacks /\ MaxSetBacks \in Nat /\ SEQ_FIELD \in Nat \ {0}
  BY <1>i, ApartTypes, TypesAt DEF TypeOK, Seqs
<1>4. a.run <= run[p] /\ a.run >= 1
  BY DEF UniqueInv, SeqInv, SaveInv, Runs, FromOne
<1>5. CASE a.run < run[p]
  <2>1. setBacks = 0
    BY <1>3, <1>4, <1>5 DEF Trusted
  <2>2. a.uuid.ts < frame[p].timestamp
    BY <1>2, <1>5, <2>1 DEF UniqueInv, OldBelow
  <2> QED
    BY <1>1, <1>3, <2>2
<1>6. CASE a.run = run[p]
  <2>1. PICK d \in Nat : Moved(p, a, d)
    BY <1>2, <1>6 DEF UniqueInv, Apart, OfRun
  <2>2. /\ (a.uuid.cs + d) % SEQ_FIELD = Issue(p).uuid.cs
        /\ d = 0 => a.uuid.ts < frame[p].timestamp
    BY <1>1, <1>2, <2>1 DEF Moved, Present, Below
  <2>3. d < SEQ_FIELD
    BY <1>3, <2>1, <1>i, ApartTypes DEF Moved, FewSetBacks
  <2>4. CASE d = 0
    BY <1>1, <1>3, <2>2, <2>4
  <2>5. CASE d # 0
    <3>1. PICK n \in Nat \ {0}, x \in Nat : n = SEQ_FIELD /\ x = a.uuid.cs
      BY <1>3
    <3>2. d \in 1 .. n - 1
      BY <2>3, <2>5, <3>1
    <3>3. x = Issue(p).uuid.cs => x \in 0 .. n - 1
      <4>1. PICK y \in Nat : y = frame[p].clockseq
        BY <1>3
      <4>2. y % n \in 0 .. n - 1
        OBVIOUS
      <4> QED
        BY <1>1, <3>1, <4>1, <4>2
    <3>4. x = Issue(p).uuid.cs => (x + d) % n # x
      BY <3>2, <3>3, PartOfRound
    <3> QED
      BY <2>2, <3>1, <3>4
  <2> QED
    BY <2>4, <2>5
<1> QED
  BY <1>3, <1>4, <1>5, <1>6

LEMMA NextUniqueUuids ==
  ASSUME FewSetBacks, Alone, IInv, \A p \in Procs : UniqueInv(p), UniqueUuids, [Next]_vars
  PROVE  UniqueUuids'
<1>i. TypeOK
  BY DEF IInv
<1>1. Trusted' => Trusted
  <2> SUFFICES ASSUME Trusted', ~Trusted PROVE FALSE
    OBVIOUS
  <2>1. PICK p \in Procs : run[p] # 1
    BY DEF Trusted
  <2>2. setBacks' = 0 => setBacks = 0
    <3>1. CASE SetBack
      BY <1>i, <3>1, SetBackEffect DEF TypeOK
    <3>2. CASE ~SetBack
      <4>1. CASE Tick \/ UNCHANGED vars
        BY <4>1 DEF Tick, vars
      <4>2. CASE ~(Tick \/ UNCHANGED vars)
        <5>1. CASE Enter(p) \/ GetCurrentTime(p) \/ GetNode(p) \/ ReadState(p)
          BY <1>i, <5>1, EnterEffect, TimeEffect, GetNodeEffect, ReadStateEffect
        <5>2. CASE OpenNodeFile(p) \/ CloseNodeFile(p) \/ WriteState(p) \/ CloseStateFile(p)
          BY <1>i, <5>2, OpenNodeFileEffect, CloseNodeFileEffect, WriteStateEffect,
             CloseStateFileEffect
        <5>3. CASE Return(p) \/ Crash(p) \/ Restart(p)
          BY <1>i, <5>3, ReturnEffect, CrashEffect, RestartEffect
        <5> QED
          BY <3>2, <4>2, <5>1, <5>2, <5>3, OneSteps
      <4> QED
        BY <4>1, <4>2
    <3> QED
      BY <3>1, <3>2
  <2>3. run'[p] # 1
    <3>1. run[p] \in Nat /\ run[p] >= 1
      BY <1>i, TypesAt DEF UniqueInv, FromOne
    <3>2. Restart(p) => run'[p] = run[p] + 1
      BY <1>i, RestartEffect
    <3>3. ~Restart(p) => run' = run
      <4>1. CASE Enter(p) \/ GetCurrentTime(p) \/ GetNode(p) \/ ReadState(p)
        BY <1>i, <4>1, EnterEffect, TimeEffect, GetNodeEffect, ReadStateEffect
      <4>2. CASE OpenNodeFile(p) \/ CloseNodeFile(p) \/ WriteState(p) \/ CloseStateFile(p)
        BY <1>i, <4>2, OpenNodeFileEffect, CloseNodeFileEffect, WriteStateEffect,
           CloseStateFileEffect
      <4>3. CASE Return(p) \/ Crash(p)
        BY <1>i, <4>3, ReturnEffect, CrashEffect
      <4>4. CASE Tick \/ SetBack \/ UNCHANGED vars
        BY <4>4, ClockEffect
      <4> QED
        BY <4>1, <4>2, <4>3, <4>4, OneSteps
    <3> QED
      BY <2>1, <3>1, <3>2, <3>3
  <2> QED
    BY <2>2, <2>3 DEF Trusted
<1> SUFFICES ASSUME Trusted', NEW a \in issued', NEW b \in issued', a.uuid = b.uuid
             PROVE  a = b
  BY DEF UniqueUuids, Trusted
<1>2. CASE a \in issued /\ b \in issued
  BY <1>1, <1>2 DEF UniqueUuids, Trusted
<1>3. CASE a \notin issued \/ b \notin issued
  <2>1. PICK p \in Procs : TRUE
    <3>1. Procs = {} => issued' = issued
      BY ClockEffect DEF Next
    <3> QED
      BY <1>3, <3>1
  <2>2. Return(p)
    <3>1. ~(Enter(p) \/ GetCurrentTime(p) \/ GetNode(p) \/ ReadState(p) \/ OpenNodeFile(p))
      BY <1>i, <1>3, EnterEffect, TimeEffect, GetNodeEffect, ReadStateEffect, OpenNodeFileEffect
    <3>2. ~(CloseNodeFile(p) \/ WriteState(p) \/ CloseStateFile(p) \/ Crash(p) \/ Restart(p))
      BY <1>i, <1>3, CloseNodeFileEffect, WriteStateEffect, CloseStateFileEffect, CrashEffect,
         RestartEffect
    <3>3. ~(Tick \/ SetBack \/ UNCHANGED vars)
      BY <1>3, ClockEffect
    <3> QED
      BY <3>1, <3>2, <3>3, OneSteps
  <2>3. issued' = issued \cup {Issue(p)}
    BY <1>i, <2>2, ReturnEffect
  <2>4. \A x \in issued : x.uuid # Issue(p).uuid
    <3> SUFFICES ASSUME NEW x \in issued PROVE x.uuid # Issue(p).uuid
      OBVIOUS
    <3>1. x.proc \in Procs
      BY <1>i DEF TypeOK
    <3>2. x.proc = p
      BY <3>1 DEF Alone
    <3> QED
      BY <1>1, <2>2, <3>2, IssueIsNew
  <2> QED
    BY <1>3, <2>3, <2>4
<1> QED
  BY <1>2, <1>3

(* A process alone in its directory never repeats a UUID: over any number  *)
(* of crashes and restarts if the clock is never set back, and over any    *)
(* change of the clock, up to as many set-backs as the clock sequence has  *)
(* values, if it survives them all (uuid.c:25-61, 134-166), as long as it  *)
(* takes no more UUIDs out of a reading than the reading has ticks.  The   *)
(* code with its 1024 UUIDS_PER_TICK does not enforce that on a clock of   *)
(* 10 ticks: the run UuidCoarseClock shows a repetition without it.        *)
THEOREM AllUnique == ASSUME Alone, FewSetBacks PROVE Spec /\ []NoBurst => []UniqueUuids
<1> DEFINE Inv == IInv /\ (\A p \in Procs : UniqueInv(p)) /\ UniqueUuids
<1>1. Init => Inv
  BY InitIInv, InitUniqueInv DEF Init, UniqueUuids
<1>2. NoBurst /\ Inv /\ [Next]_vars => Inv'
  <2> SUFFICES ASSUME NoBurst, Inv, [Next]_vars PROVE Inv'
    OBVIOUS
  <2>1. IInv' /\ UniqueUuids'
    BY Alone, FewSetBacks, NextIInv, NextUniqueUuids
  <2>2. ASSUME NEW p \in Procs PROVE UniqueInv(p)'
    BY Alone, NextUniqueInv
  <2> QED
    BY <2>1, <2>2
<1>3. Inv => UniqueUuids
  OBVIOUS
<1> QED
  BY <1>1, <1>2, <1>3, PTL DEF Spec
=============================================================================
