---------------------------- MODULE MCPrograms ----------------------------
(***************************************************************************)
(* Small instances of the programs that wait for a process, a terminal or  *)
(* a network, for TLC.  They do not interact: in a behaviour one of them   *)
(* is started, the others are not.                                         *)
(***************************************************************************)
EXTENDS Sigmon, TcpClient, UdpEcho, Psstat, Multicast

LineLengths == <<1, 2>>

(* The receiver listens to any group; others are sent to, joined and left. *)
(* The input of mgroup comes in lines, with and without its word, and in   *)
(* pieces.                                                                 *)
ExitWord == <<1, 2>>
SendSet  == {[group |-> g, words |-> <<3>>] : g \in {"other", "six"}}
Option(o, g) == [opt |-> o, group |-> g]
OptionSets == {<<Option("j", "other"), Option("l", "other")>>, <<Option("j", "group"), Option("j", "six")>>}
ReadSets == {<<<<1, NewLine>>, <<2, NewLine>>, <<1, 2, NewLine>>>>,
             <<<<NewLine, 2>>, <<1>>>>, <<<<>>, <<2, 1, 2, NewLine>>>>}
MgroupSet == {[args |-> a, typed |-> <<<<2, NewLine>>, <<1, 2, NewLine>>>>] : a \in OptionSets}
             \cup {[args |-> <<Option("l", "group")>>, typed |-> t] : t \in ReadSets}

ExitedWith0 == [kind |-> "exit", n |-> 0]
MonIdle == /\ pc = "exit" /\ state = NoStatus /\ g_sig = 0 /\ first = 0 /\ interrupts = MaxInterrupts
           /\ traced = FALSE /\ process = "dead" /\ status = ExitedWith0 /\ waitable = FALSE
           /\ pending = {} /\ sent = <<>> /\ delivered = <<>>
TcIdle  == /\ tcPc = "exit" /\ fd_tcp = FALSE /\ tcFlags = {} /\ tcBuf = <<>> /\ typed = 0 /\ taken = 0
           /\ ended = TRUE /\ printed = <<>> /\ link = "none" /\ error = "none" /\ forward = <<>>
           /\ back = <<>> /\ echoPc = "gone" /\ echoBuf = <<>>
UdpIdle == /\ usPc = "exit" /\ fd_server = FALSE /\ usBuf = <<>> /\ utPc = "exit" /\ fd_client = FALSE
           /\ utFlags = {} /\ linesTyped = 0 /\ linesRead = 0 /\ utEnded = TRUE /\ shown = <<>>
           /\ network = {} /\ inbox = [h \in Hosts |-> <<>>] /\ strays = MaxTrouble /\ copies = 0
PsIdle  == /\ psPc = "exit" /\ interval = 1 /\ loops = 0 /\ g_taskStat = [f \in Times |-> 0]
           /\ g_running = FALSE /\ count = 0 /\ wait = 0 /\ file = 0 /\ proc = "gone"
           /\ fields = [f \in 12 .. 17 |-> 0] /\ blanks = 0 /\ reused = MaxReuse
           /\ used = 0 /\ same = FALSE /\ psLine = NoLine

McIdle  == /\ mrPc = "exit" /\ mrGroup = "group" /\ fd_sock = "closed" /\ mrInbox = <<>> /\ mrShown = <<>>
           /\ msRun = [group |-> "six", words |-> <<>>] /\ msAt = 1 /\ mgPc = "exit" /\ mgArgs = <<>>
           /\ mgAt = 1 /\ mgHeld = {} /\ mgSaid = {} /\ mgSock = -1 /\ mgInput = <<<<>>>> /\ mgRead = 1
           /\ mgBuffer = EXIT /\ air = {} /\ unicasts = MaxUnicast

Programs == {"sigmon", "tcp_client", "udp", "psstat", "multicast"}
ProgramsInit == \E program \in Programs :
  /\ IF program = "sigmon" THEN Init ELSE MonIdle
  /\ IF program = "tcp_client" THEN TcInit ELSE TcIdle
  /\ IF program = "udp" THEN UdpInit ELSE UdpIdle
  /\ IF program = "psstat" THEN PsInit ELSE PsIdle
  /\ IF program = "multicast" THEN MulticastInit ELSE McIdle

ProgramsNext == \/ Next          /\ UNCHANGED <<tcVars, udpVars, psVars, mcVars>>
                \/ TcNext        /\ UNCHANGED <<vars, udpVars, psVars, mcVars>>
                \/ UdpNext       /\ UNCHANGED <<vars, tcVars, psVars, mcVars>>
                \/ PsNext        /\ UNCHANGED <<vars, tcVars, udpVars, mcVars>>
                \/ MulticastNext /\ UNCHANGED <<vars, tcVars, udpVars, psVars>>

ProgramsFair == MonFair /\ TcFair /\ UdpFair /\ PsFair /\ MulticastFair
ProgramsSpec == ProgramsInit /\ [][ProgramsNext]_<<vars, tcVars, udpVars, psVars, mcVars>> /\ ProgramsFair

(* The variables of all programs have their types.                         *)
ProgramsTypeOK == TypeOK /\ TcTypeOK /\ UdpTypeOK /\ PsTypeOK /\ MulticastTypeOK

(* What is shown of the network is what was sent, by whom and to whom,     *)
(* wherever it was lost, doubled or reordered: by the datagram programs    *)
(* (udp_echo.c, udp_test.c), and by multicast_recv, while mgroup decides   *)
(* with it what the host takes.                                            *)
DatagramsAreTrue == UdpEchoes /\ ShownIsTrue /\ GroupsAreHeld

(* What ends these programs ends them, wherever they are: the end of the   *)
(* process that sigmon traces (sigmon.c:102); signals for tcp_client       *)
(* (tcp_client.c:57-64), the datagram programs (udp_echo.c:68-75) and      *)
(* psstat (psstat.c:267-270); its word for mgroup.                         *)
ProgramsEnd == EndsWithProcess /\ SignalsEndClient /\ SignalsEndUdp /\ SignalEndsPsstat /\ ExitIsRead
=============================================================================
