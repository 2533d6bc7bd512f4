------------------------------- MODULE PcapNg -------------------------------
(***************************************************************************)
(* The converter pcap/pcapng_to_pcap.c: it reads a pcapng file block by    *)
(* block, keeps the link types of the interfaces it is told of, and writes *)
(* the enhanced packet blocks as the packets of a pcap file.               *)
(*                                                                         *)
(* A block is its kind with the fields the converter looks at.  Of its     *)
(* lengths only what the checks tell apart is kept: whether the first one  *)
(* is at least 12, whether there is a body, and whether both agree.  cut   *)
(* says in which part of the last block the file ends.                     *)
(***************************************************************************)
EXTENDS Integers, Sequences, FiniteSets

CONSTANTS
  MAX_INTERFACES,   \* places in g_ifLinkType, 32 in the code
  CaptureFiles      \* the pcapng files: records of blocks and cut

ASSUME NgConstantsOK ==
  /\ MAX_INTERFACES \in Nat \ {0}
  /\ \A each \in CaptureFiles :
       /\ Len(each.blocks) \in Nat
       /\ \A k \in 1..Len(each.blocks) : each.blocks[k].kind = "packet" => each.blocks[k].id \in Nat

VARIABLES
  ngPc,          \* "blocks" or "exit"
  ngFile,        \* the file
  blockNum,      \* blocks that were started
  g_ifLinkType,  \* link types of the interfaces; its length is g_ifNum
  firstPacket,   \* first in the code
  pcap           \* what was written: headers and packets

ngVars == <<ngPc, ngFile, blockNum, g_ifLinkType, firstPacket, pcap>>

NgInit ==
  /\ ngPc = "blocks" /\ ngFile \in CaptureFiles /\ blockNum = 0
  /\ g_ifLinkType = <<>> /\ firstPacket = TRUE /\ pcap = <<>>

Blocks  == ngFile.blocks
Block   == Blocks[blockNum + 1]
(* The part the file ends in, if this is its last block.                   *)
CutIn(parts) == blockNum + 1 = Len(Blocks) /\ ngFile.cut \in parts
-----------------------------------------------------------------------------
(* The checks before the body is looked at, in their order. *)

NotPcapNg == blockNum = 0 /\ Block.kind # "section"
HeadFails == CutIn({"type"}) \/ NotPcapNg \/ CutIn({"length"}) \/ ~Block.long
(* fread of no bytes returns 0, which counts as a failure.                 *)
BodyFails == CutIn({"body"}) \/ Block.empty
TrailerFails == CutIn({"trailer"}) \/ ~Block.agree

HasBlock == ngPc = "blocks" /\ blockNum < Len(Blocks)

(* The loop ends with the size of the file.                                *)
EndOfFile ==
  /\ ngPc = "blocks" /\ blockNum = Len(Blocks)
  /\ ngPc' = "exit"
  /\ UNCHANGED <<ngFile, blockNum, g_ifLinkType, firstPacket, pcap>>

FailBlock ==
  /\ HasBlock /\ (HeadFails \/ BodyFails)
  /\ ngPc' = "exit" /\ blockNum' = blockNum + 1
  /\ UNCHANGED <<ngFile, g_ifLinkType, firstPacket, pcap>>

(* What follows the switch: the second length is checked when the block    *)
(* has been dealt with.                                                    *)
Dealt ==
  /\ HasBlock /\ ~HeadFails /\ ~BodyFails
  /\ blockNum' = blockNum + 1
  /\ UNCHANGED ngFile
ReadTrailer == ngPc' = IF TrailerFails THEN "exit" ELSE "blocks"

SectionHeader ==
  /\ Dealt /\ Block.kind = "section"
  /\ IF Block.little THEN ReadTrailer ELSE ngPc' = "exit"
  /\ UNCHANGED <<g_ifLinkType, firstPacket, pcap>>

InterfaceDescription ==
  /\ Dealt /\ Block.kind = "interface"
  /\ g_ifLinkType' = IF Len(g_ifLinkType) < MAX_INTERFACES
                     THEN Append(g_ifLinkType, Block.link) ELSE g_ifLinkType
  /\ ReadTrailer
  /\ UNCHANGED <<firstPacket, pcap>>

convert_to_pcap(linkType, packet) ==
  pcap \o (IF firstPacket THEN <<[header |-> TRUE, is |-> linkType]>> ELSE <<>>)
       \o <<[header |-> FALSE, is |-> packet]>>

(* Mutant: the last interface is forgotten.                                *)
KnownBefore(id) == id + 1 < Len(g_ifLinkType)
Known(id) == id < Len(g_ifLinkType)

EnhancedPacket ==
  /\ Dealt /\ Block.kind = "packet"
  /\ pcap' = IF Known(Block.id) THEN convert_to_pcap(g_ifLinkType[Block.id + 1], Block.data)
             ELSE pcap
  /\ firstPacket' = FALSE
  /\ ReadTrailer
  /\ UNCHANGED g_ifLinkType

(* Packet, simple packet, name resolution, statistics, IRIG, ARINC and     *)
(* unknown blocks.                                                         *)
OtherBlock ==
  /\ Dealt /\ Block.kind = "other"
  /\ ReadTrailer
  /\ UNCHANGED <<g_ifLinkType, firstPacket, pcap>>

NgNext == EndOfFile \/ FailBlock \/ SectionHeader \/ InterfaceDescription
          \/ EnhancedPacket \/ OtherBlock

NgSpec == NgInit /\ [][NgNext]_ngVars
-----------------------------------------------------------------------------
(* Properties. *)

NgTypeOK ==
  /\ ngPc \in {"blocks", "exit"}
  /\ blockNum \in 0..Len(Blocks)
  /\ Len(g_ifLinkType) <= MAX_INTERFACES /\ firstPacket \in BOOLEAN
  /\ \A k \in DOMAIN pcap : pcap[k].header \in BOOLEAN

Of(kind, n) == {k \in 1..n : Blocks[k].kind = kind}
(* Interfaces described before block n, and those in its section.          *)
Interfaces(n) == Of("interface", n)
Described(n)  == {k \in Interfaces(n) : \A l \in Of("section", n) : l < k}
(* A packet of no interface that was described.                            *)
Stray(n) == Blocks[n].id >= Cardinality(Interfaces(n))

KeptPackets(n)  == {k \in Of("packet", n) : ~Stray(k)}
FirstIsStray(n) == \E k \in Of("packet", n) : Stray(k) /\ \A l \in Of("packet", n) : k <= l

(* pcap is what the first n blocks are converted to: each packet is behind *)
(* those kept before it, as it was captured; a header comes with the first *)
(* packet or not at all.                                                   *)
HeadersOf(n) == IF KeptPackets(n) = {} \/ FirstIsStray(n) THEN 0 ELSE 1
Converted(n) ==
  /\ Len(pcap) = HeadersOf(n) + Cardinality(KeptPackets(n))
  /\ \A k \in KeptPackets(n) :
       pcap[HeadersOf(n) + Cardinality(KeptPackets(k))] = [header |-> FALSE, is |-> Blocks[k].data]
  /\ HeadersOf(n) = 1 => \A k \in Interfaces(n) : pcap[1] = [header |-> TRUE, is |-> Blocks[k].link]

(* A capture that a pcap file can hold: one link type, and packets of the  *)
(* interfaces that the converter has room for, or strays.                  *)
OneLink ==
  /\ \A k, l \in Interfaces(Len(Blocks)) : Blocks[k].link = Blocks[l].link
  /\ \A k \in Of("packet", Len(Blocks)) :
       Stray(k) \/ (Blocks[k].id < Cardinality(Described(k)) /\ Blocks[k].id < MAX_INTERFACES)

(* Of such a capture, whole or cut short or damaged anywhere, the pcap     *)
(* file has the packets up to there in their order without the strays,     *)
(* behind one header with the link type of their interface                 *)
(* (pcapng_to_pcap.c:305-326).  When the first packet is a stray, the      *)
(* header is missing.                                                      *)
PacketsAreKept ==
  OneLink =>
    \/ Converted(blockNum)
    \/ ngPc = "exit" /\ Converted(blockNum - 1)
=============================================================================
