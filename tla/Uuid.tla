-------------------------------- MODULE Uuid --------------------------------
(***************************************************************************)
(* The version 1 UUID generator of uuid/uuid.c and uuid/sysdep.c.          *)
(*                                                                         *)
(* Several processes call uuid_create in one working directory.  Each has  *)
(* its own static variables; they share the files "state" and "nodeid" and *)
(* the system clock.  LOCK and UNLOCK expand to nothing (sysdep.h:24-25),  *)
(* so the calls interleave at every access to a shared file or the clock.  *)
(* fopen(.., "wb") truncates at once and fclose writes the data out, so a  *)
(* file being rewritten is Torn in between, and stays Torn if the writer   *)
(* dies there.                                                             *)
(***************************************************************************)
EXTENDS Integers, FiniteSets

CONSTANTS
  Procs,           \* the processes that generate UUIDs in one directory
  UUIDS_PER_TICK,  \* sysdep.h:21
  RESOLUTION,      \* 100ns ticks between two clock readings (gettimeofday: 10)
  SAVE_PERIOD,     \* uuid.c:127, ten seconds in 100ns ticks
  SEQ_WORD,        \* 2^16: clockseq is an unsigned16
  SEQ_FIELD,       \* 2^14: the part of clockseq a UUID carries
  NodeIds,         \* node IDs get_random_info may produce
  ZeroNode,        \* the all-zero node ID of a zero-initialised static
  NoFile, Torn,    \* a file that does not exist; one truncated and not written
  MaxClock,        \* bound: the last clock reading
  MaxUuids,        \* bound: calls of uuid_create per process
  MaxRuns,         \* bound: runs (incarnations) of each process
  MaxSetBacks      \* bound: times the clock is set back

ASSUME ConstantsOK ==
  /\ UUIDS_PER_TICK \in Nat /\ RESOLUTION \in Nat \ {0} /\ SAVE_PERIOD \in Nat \ {0}
  /\ SEQ_WORD \in Nat \ {0} /\ SEQ_FIELD \in Nat \ {0} /\ SEQ_WORD % SEQ_FIELD = 0
  /\ ZeroNode \notin NodeIds       \* sysdep.c:24 sets a bit of every random ID
  /\ MaxClock \in Nat /\ MaxUuids \in Nat /\ MaxRuns \in Nat /\ MaxSetBacks \in Nat

VARIABLES
  clock,      \* what gettimeofday returns, in 100ns ticks
  setBacks,   \* how often the clock was set back
  writable,   \* may files be created in the working directory?
  stateFile,  \* the file "state"
  nodeFile,   \* the file "nodeid"
  pc,         \* where each process is
  static,     \* the static variables of each process
  frame,      \* the locals of uuid_create in each process
  run,        \* which run of the program each process is in
  made,       \* how many calls each process has finished
  issued      \* history: every UUID returned, with who returned it and when

files == <<stateFile, nodeFile>>
env   == <<clock, setBacks, writable>>
hist  == <<run, made, issued>>
vars  == <<clock, setBacks, writable, stateFile, nodeFile,
           pc, static, frame, run, made, issued>>

Locations == {"idle", "time", "node", "nodeOpen", "nodeClose", "read",
              "write", "close", "return", "dead"}
Seqs      == 0 .. SEQ_WORD - 1
AllNodes  == NodeIds \cup {ZeroNode}
SavedState == [ts : Nat, cs : Seqs, node : AllNodes]       \* uuid_state

ASSUME FilesOK ==
  NoFile # Torn /\ {NoFile, Torn} \cap AllNodes = {} /\ {NoFile, Torn} \cap SavedState = {}

Statics   == [time_last : Nat, uuids_this_tick : 0 .. UUIDS_PER_TICK,
              node_inited : BOOLEAN, saved_node : AllNodes,
              read_inited : BOOLEAN, st : SavedState,
              write_inited : BOOLEAN, next_save : Nat]
Frames    == [timestamp : Nat, clockseq : Seqs, node : AllNodes]

ZeroState == [ts |-> 0, cs |-> 0, node |-> ZeroNode]
FreshStatics ==
  [time_last |-> 0, uuids_this_tick |-> UUIDS_PER_TICK,
   node_inited |-> FALSE, saved_node |-> ZeroNode,
   read_inited |-> FALSE, st |-> ZeroState,
   write_inited |-> FALSE, next_save |-> 0]
FreshFrame == [timestamp |-> 0, clockseq |-> 0, node |-> ZeroNode]

Init ==
  /\ clock = RESOLUTION /\ setBacks = 0
  /\ writable \in BOOLEAN
  /\ stateFile = NoFile /\ nodeFile = NoFile
  /\ pc     = [p \in Procs |-> "idle"]
  /\ static = [p \in Procs |-> FreshStatics]
  /\ frame  = [p \in Procs |-> FreshFrame]
  /\ run    = [p \in Procs |-> 1]
  /\ made   = [p \in Procs |-> 0]
  /\ issued = {}

Goto(p, from, to) == pc[p] = from /\ pc' = [pc EXCEPT ![p] = to]

-----------------------------------------------------------------------------
(* uuid_create, one action per access to the clock or to a shared file.    *)

(* Entry; LOCK is empty, so nothing keeps a second process out. *)
Enter(p) ==
  /\ made[p] < MaxUuids
  /\ Goto(p, "idle", "time")
  /\ UNCHANGED <<env, files, static, frame, hist>>

(* The loop of get_current_time stops when the reading has changed since   *)
(* the last UUID, or when the count for this reading is not used up.       *)
NewReading(s) == s.time_last # clock
RoomInTick(s) == s.uuids_this_tick < UUIDS_PER_TICK
TimeReadyRoomOnly(s) == RoomInTick(s)                              \* mutant
TimeReady(s) == NewReading(s) \/ RoomInTick(s)
CountNotTaken(s) == IF NewReading(s) THEN 0 ELSE s.uuids_this_tick \* mutant
CountInTick(s) == IF NewReading(s) THEN 0 ELSE s.uuids_this_tick + 1

GetCurrentTime(p) ==
  /\ Goto(p, "time", "node")
  /\ TimeReady(static[p])
  /\ LET count == CountInTick(static[p]) IN
       /\ static' = [static EXCEPT ![p].time_last = clock,
                                   ![p].uuids_this_tick = count]
       /\ frame' = [frame EXCEPT ![p].timestamp = clock + count]
  /\ UNCHANGED <<env, files, hist>>

(* get_ieee_node_identifier: fread leaves the zeroed static alone when the *)
(* file is empty.                                                          *)
NodeFileNeverFound == FALSE                                        \* mutant
NodeFileFound == nodeFile # NoFile
NodeRead(old) == IF nodeFile = Torn THEN old ELSE nodeFile

GetNode(p) ==
  LET s == static[p]
      Use(n) == /\ static' = [static EXCEPT ![p].node_inited = TRUE,
                                            ![p].saved_node = n]
                /\ frame' = [frame EXCEPT ![p].node = n]
  IN /\ \/ s.node_inited /\ Use(s.saved_node) /\ Goto(p, "node", "read")
        \/ /\ ~s.node_inited /\ NodeFileFound
           /\ Use(NodeRead(s.saved_node)) /\ Goto(p, "node", "read")
        \/ /\ ~s.node_inited /\ ~NodeFileFound
           /\ \E n \in NodeIds : Use(n)
           /\ Goto(p, "node", "nodeOpen")
     /\ UNCHANGED <<env, files, hist>>

(* A failing fopen is tolerated here: the ID is used but not kept. *)
OpenNodeFile(p) ==
  /\ IF writable
       THEN nodeFile' = Torn     /\ Goto(p, "nodeOpen", "nodeClose")
       ELSE UNCHANGED nodeFile /\ Goto(p, "nodeOpen", "read")
  /\ UNCHANGED <<env, stateFile, static, frame, hist>>

CloseNodeFile(p) ==
  /\ Goto(p, "nodeClose", "read")
  /\ nodeFile' = static[p].saved_node
  /\ UNCHANGED <<env, stateFile, static, frame, hist>>

(* read_state: the file is read only until it was found once. *)
Found(s)     == s.read_inited \/ stateFile # NoFile
StateReadAgain(s) == IF stateFile \in {NoFile, Torn} THEN s.st ELSE stateFile  \* mutant
StateRead(s) == IF s.read_inited \/ stateFile \in {NoFile, Torn} THEN s.st ELSE stateFile

(* The choice of clockseq, uuid.c:41-44. *)
ClockSeqsWide(found, st, node, timestamp) ==                       \* mutant
  IF ~found \/ node # st.node THEN Seqs
  ELSE {IF timestamp < st.ts THEN st.cs + 1 ELSE st.cs}
ClockSeqsFrozen(found, st, node, timestamp) ==                     \* mutant
  IF ~found \/ node # st.node THEN Seqs ELSE {st.cs}
ClockSeqs(found, st, node, timestamp) ==
  IF ~found \/ node # st.node THEN Seqs                      \* true_random()
  ELSE IF timestamp < st.ts THEN {(st.cs + 1) % SEQ_WORD}
  ELSE {st.cs}

ReadState(p) ==
  LET s  == static[p]
      st == StateRead(s)
  IN /\ Goto(p, "read", "write")
     /\ static' = [static EXCEPT ![p].read_inited = Found(s), ![p].st = st]
     /\ \E cs \in ClockSeqs(Found(s), st, frame[p].node, frame[p].timestamp) :
          frame' = [frame EXCEPT ![p].clockseq = cs]
     /\ UNCHANGED <<env, files, hist>>

(* write_state: the volatile copy always, the file only when it is due.    *)
(* The result of fopen is not tested: without a writable directory the     *)
(* fwrite to a null stream kills the process.                              *)
NextSave(s, timestamp) == IF s.write_inited THEN s.next_save ELSE timestamp
Volatile(p) == [ts |-> frame[p].timestamp, cs |-> frame[p].clockseq, node |-> frame[p].node]
SaveDueLate(p) ==                                                  \* mutant
  frame[p].timestamp > NextSave(static[p], frame[p].timestamp)
SaveDue(p)  == frame[p].timestamp >= NextSave(static[p], frame[p].timestamp)
AfterSave(timestamp) == timestamp + SAVE_PERIOD

WriteState(p) ==
  /\ static' = [static EXCEPT
                  ![p].write_inited = TRUE,
                  ![p].next_save = NextSave(static[p], frame[p].timestamp),
                  ![p].st = Volatile(p)]
  /\ \/ ~SaveDue(p) /\ Goto(p, "write", "return") /\ UNCHANGED stateFile
     \/ SaveDue(p) /\ writable /\ Goto(p, "write", "close") /\ stateFile' = Torn
     \/ SaveDue(p) /\ ~writable /\ Goto(p, "write", "dead") /\ UNCHANGED stateFile
  /\ UNCHANGED <<env, nodeFile, frame, hist>>

CloseStateFile(p) ==
  /\ Goto(p, "close", "return")
  /\ stateFile' = static[p].st
  /\ static' = [static EXCEPT ![p].next_save = AfterSave(frame[p].timestamp)]
  /\ UNCHANGED <<env, nodeFile, frame, hist>>

(* UNLOCK is empty; format_uuid_v1 keeps the low 14 bits of clockseq. *)
FormatV1(f) == [ts |-> f.timestamp, cs |-> f.clockseq % SEQ_FIELD, node |-> f.node]

Return(p) ==
  /\ Goto(p, "return", "idle")
  /\ issued' = issued \cup {[proc |-> p, run |-> run[p], n |-> made[p],
                             uuid |-> FormatV1(frame[p])]}
  /\ made' = [made EXCEPT ![p] = @ + 1]
  /\ frame' = [frame EXCEPT ![p] = FreshFrame]
  /\ UNCHANGED <<env, files, static, run>>

-----------------------------------------------------------------------------
(* The environment: processes die anywhere and are started again, and the  *)
(* clock advances or is set back.                                          *)

Crash(p) ==
  /\ pc[p] # "dead" /\ run[p] < MaxRuns
  /\ pc' = [pc EXCEPT ![p] = "dead"]
  /\ UNCHANGED <<env, files, static, frame, hist>>

(* Starting a process takes longer than the resolution of the clock. *)
Restart(p) ==
  /\ run[p] < MaxRuns
  /\ NewReading(static[p])
  /\ Goto(p, "dead", "idle")
  /\ static' = [static EXCEPT ![p] = FreshStatics]
  /\ frame'  = [frame EXCEPT ![p] = FreshFrame]
  /\ run' = [run EXCEPT ![p] = @ + 1]
  /\ UNCHANGED <<env, files, made, issued>>

Tick ==
  /\ clock + RESOLUTION <= MaxClock
  /\ clock' = clock + RESOLUTION
  /\ UNCHANGED <<setBacks, writable, files, pc, static, frame, hist>>

SetBack ==
  /\ setBacks < MaxSetBacks
  /\ \E c \in 1 .. clock - 1 : c % RESOLUTION = 0 /\ clock' = c
  /\ setBacks' = setBacks + 1
  /\ UNCHANGED <<writable, files, pc, static, frame, hist>>

UuidCreate(p) ==
  \/ GetCurrentTime(p) \/ GetNode(p) \/ OpenNodeFile(p) \/ CloseNodeFile(p)
  \/ ReadState(p) \/ WriteState(p) \/ CloseStateFile(p) \/ Return(p)

Next ==
  \/ \E p \in Procs : Enter(p) \/ UuidCreate(p) \/ Crash(p) \/ Restart(p)
  \/ Tick
  \/ SetBack

Spec == Init /\ [][Next]_vars

(* A process inside uuid_create keeps running and time keeps passing. *)
FairSpec == Spec /\ WF_vars(Tick) /\ \A p \in Procs : WF_vars(UuidCreate(p))
-----------------------------------------------------------------------------
(* Properties.                                                             *)

InCreate(p) == pc[p] \notin {"idle", "dead"}

(* Every variable keeps its type; in particular clockseq stays a 16-bit    *)
(* word through clockseq++ (uuid.c:44).                                    *)
TypeOK ==
  /\ clock \in Nat /\ setBacks \in 0 .. MaxSetBacks /\ writable \in BOOLEAN
  /\ stateFile \in SavedState \cup {NoFile, Torn}
  /\ nodeFile \in AllNodes \cup {NoFile, Torn}
  /\ pc \in [Procs -> Locations]
  /\ static \in [Procs -> Statics]
  /\ frame \in [Procs -> Frames]
  /\ run \in [Procs -> Nat]
  /\ made \in [Procs -> Nat]
  /\ issued \in SUBSET [proc : Procs, run : Nat, n : Nat,
                        uuid : [ts : Nat, cs : Nat, node : AllNodes]]

(* No two calls of uuid_create return the same UUID as long as the process *)
(* survives all changes of the clock, or the clock is never set back while *)
(* it dies and restarts: the purpose of the timestamp count, the clock     *)
(* sequence and the saved state together.  Where both happen, the state on *)
(* disk can be too old to show that the clock went back.                   *)
UniqueUuids ==
  setBacks = 0 \/ (\A p \in Procs : run[p] = 1) =>
    \A a, b \in issued : a.uuid = b.uuid => a = b

(* While the clock is never set back, one run of one process never returns *)
(* the same timestamp twice, whatever other processes do to the shared     *)
(* files meanwhile (get_current_time, uuid.c:134-166).                     *)
UniqueInRun ==
  setBacks = 0 =>
    \A a, b \in issued :
      a.proc = b.proc /\ a.run = b.run /\ a.uuid.ts = b.uuid.ts => a = b

NextOf(a, b) == a.proc = b.proc /\ b.n = a.n + 1
SeqRule(a, b) ==
  b.uuid.cs = IF b.uuid.ts < a.uuid.ts THEN (a.uuid.cs + 1) % SEQ_FIELD ELSE a.uuid.cs

(* In one run the clock sequence moves on exactly when the timestamp goes  *)
(* backwards from one UUID to the next (uuid.c:39-44).                     *)
SeqFollowsClock ==
  \A a, b \in issued : NextOf(a, b) /\ a.run = b.run => SeqRule(a, b)

(* What a crash can lose: while a process is alone in its directory, every *)
(* UUID of its present run is less than SAVE_PERIOD newer than the state   *)
(* on disk, unless the process died while rewriting the file (write_state, *)
(* uuid.c:113-128).                                                        *)
LossWindow ==
  \A a \in issued :
    a.run = run[a.proc] /\ stateFile # Torn =>
      /\ stateFile # NoFile
      /\ a.uuid.ts < stateFile.ts + SAVE_PERIOD

(* While no second process works in the directory, a nodeid file that was  *)
(* written completely is never changed again, so every later run has the   *)
(* node ID of the first one, over crashes too (sysdep.c:16-33).            *)
NodeFileStable == [][(nodeFile \in NodeIds) => (nodeFile' = nodeFile)]_vars

(* "This sample implementation generates a random node ID" (sysdep.c:8):   *)
(* no UUID carries the all-zero ID of the zeroed static.                   *)
NodeIsRandom == \A a \in issued : a.uuid.node # ZeroNode

(* The spin of get_current_time ends, whatever is done to the clock: a     *)
(* call returns or its process dies, or the bound has stopped the clock at *)
(* the very reading the process has used up.                               *)
CallReturns ==
  \A p \in Procs :
    pc[p] = "time" ~> (~InCreate(p) \/ (clock + RESOLUTION > MaxClock /\ ~NewReading(static[p])))
=============================================================================
