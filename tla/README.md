# c_utility in TLA+

`src/` is a collection of small, independent C programs: echo servers, network
probes, a signal monitor, a UUID generator, file converters, checksum tools and
a QR code generator. There is no shared library and there are no tests. This
directory models all of them: those whose behaviour depends on interleavings, on
the kernel or on time, and those that convert files, build messages, draw symbols or
compute digests. It checks them with TLC on small instances. With TLAPS it proves, for every
instance, the safety properties of the programs that wait or share something (the
TCP echo server and its client, the datagram echo, the LAN scanner, the DHCP probe, the
signal monitor, the CPU meter, the multicast programs and the UUID generator), of the
certificate programs, of the converters `intel_hex` and `pcapng_to_pcap`, and of eight of the
ten byte tools.

## 1. Inventory

| Component | State | Operations | What is hard | What makes it correct |
|---|---|---|---|---|
| `uuid/` version 1 | static `time_last`, `uuids_this_tick`, `saved_node`, `st`, `next_save` of a process; files `state` and `nodeid`; the clock | `uuid_create` and the six functions it calls | `LOCK` is empty, so processes interleave on the files; crashes between `fopen("wb")` and `fclose`; clock set back; a clock coarser than the count | UUIDs never repeat, the clock sequence follows the clock, the node ID is random and stable, calls return |
| `lan_scan` | `_ipDst`, `_sock`, `_hosts` shared by `main` and `recvTask` without a lock | `main`, `sendArp`, `recvTask`, the handler `sigint` | the receiver runs before the prefix is filled; a close meant to end a thread in `recvfrom`; eight MAC slots per host | a foreign host is reported through octets not filled yet at most, every claimant of the LAN is, every address is probed, the program ends |
| `tcp_echo` server | `g_socket`, `fd_server`, `g_buf`, the `fd_set` of a round | the select loop, accept, read/write, `_endHdlr` | stale flags, reuse of descriptors, a handler that closes a socket under the loop, writes that block or are cut short, SIGPIPE | each client gets its own bytes back, in order and none twice, all of them if no signal cuts a write; no read blocks; the table is the truth |
| `dhcp_probe` main loop | `xid`, `timeout`, `count` | select, `raw_sock_recv`, `send_discover` | late, doubled, foreign or lost packets, traffic that never stops; what is left of a timeout; `xid` 0 as a flag | no premature verdict and none long before its time, no server without its answer, one DISCOVER, an end unless the socket is never found empty |
| `sigmon` | `g_sig`, `state`; the traced process | the ptrace loop, `handler` | signals during the attach, between a stop and the wait, and for sigmon itself | the monitor is transparent and ends with the process |
| `dhcp_probe` packet and options | the packet, the message of the caller that is not cleared between packets, the place in it | `send_discover` with `init_header`, `init_packet`, `add_requests`, `raw_sock_send`; `raw_sock_recv`; `get_option` | two checksums and two lengths that must agree, packets cut or damaged, options at the end of a field, fields of three sizes | the DISCOVER is whole, nothing damaged is accepted, the option that is found is the first of its code and inside its field |
| `tcp_client` with the server that serves it | the loop's descriptor and flags, one buffer; the same of the server; two kernel buffers | select on terminal and socket, read, write, `_endHdlr` | two programs that each write without looking; stale flags; an end of stream; a handler that closes the socket under the loop | what is typed is printed, in order and once; the two never stand in each other's way; signals end it |
| `udp_echo`, `udp_test` | one socket each, the address of the last datagram | `recvfrom`, `sendto`, the client's loop, both handlers | lost, doubled, reordered and foreign datagrams, datagrams of no byte and of too many | answers are whole lines that were typed, and go to their sender |
| `psstat` | `g_taskStat`, `g_running`, the sleep | `process_find`, `task_cpu_time`, `process_monitor` | a process that ends, waits as a zombie, and leaves its PID to another; sleeps cut short; blanks in a name | each tick is in one line |
| `multicast` | a socket; the groups `mgroup` holds; its read buffer | send, receive, join and leave | membership belongs to the host, not to the socket; reads that are not lines | what is shown was sent to a group the host is in, `mgroup` holds what it says |
| `icmp`, `icmpv6` | the message, the packets in the raw socket | compose, checksum, send, tell the first packet | a message of the wrong length or place, options in the IP header, answers to others | one `icmp` tells what another one meant, every checksum verifies |
| `intel_hex` | a 64K segment buffer, `addrInit`, `addrNext`, `binLen` | `mcs2bin`, `bin2mcs` | record order, segment changes, damaged records | one direction inverts the other, a record with a changed byte never gives wrong bytes (one without its colon is text) |
| `pcapng_to_pcap` | `g_ifLinkType`, `g_ifNum`, `first` | one step per block | several sections, captures cut anywhere | the output is a capture file with every packet up to the cut |
| `base64` | the group that is read, `blocksout` | `encode`, `decode` | a last group that is short, noise inside a group | `decode` undoes `encode` |
| `binutil` | a file position, `next`, `matched`, `offset`, `buf` | a loop for each of the ten tools | the end of a file, patterns that overlap, words that are cut, slices from behind, two lengths | the output is what the tool's name promises |
| `qrcode` | `g_version`, `g_matrixA`, `g_matrixB`, `g_masking`, `g_maskId`, the codewords | `qr_check_capacity`, `qr_function_patterns`, `qr_data_ecc_encode`, `qr_matrix_placement`, `qr_matrix_masking`, `qr_format_version` | blocks of two lengths, nine tables that must agree, undefined shifts | a reader finds the string in the symbol |
| `checksum` of words and of 16 bits | the line that is read, `pBuf`, `crc` | `parse_line`, `parse_token`, `str2ip`, `onec`, `crc16` | comments, ends of line, arrays at their limit, an odd byte, `::` in an address, carries | the bytes are those of the text, and the checksum verifies |
| `checksum` of 32 bits and more | MD5's count and buffer, the register of CRC-32 | `md5_csum` in pieces, `MD5Update`, `MD5Final`, `crc32_csum` | lengths about the ends of a block, a bit count of two words, a table of 256 numbers | the digests are those of the standards, however the bytes come |
| `uuid/` name-based, comparison | none | `uuid_create_md5_from_name`, `uuid_create_sha1_from_name`, `format_uuid_v3or5`, `uuid_compare` | byte order, the size of a long | the same UUID on every host; the order of the print |
| `pcap_gen`, `pcap_dlt_user`, `raw_send` | a line, a token, the packet | read the text of a packet, write or send it | tokens at their limits, files that are missing or empty, appending | the packets are those of the texts |
| `cert` | the objects of OpenSSL a program holds | a sequence of calls, any of which may fail | every failure has to give back what there is, and a key changes its owner halfway | nothing is used twice or leaked, the output is whole or as it was |
| `dhcp_probe` logging | none | formatting | none | - |

The programs do not call each other. Components interact inside a program:
threads and handlers through global variables, programs with the kernel
through descriptors, and processes through files (`uuid`), ptrace (`sigmon`), a
connection (`tcp_client` and its server), datagrams (`udp_test` and `udp_echo`) or
the host's memberships (`mgroup` and `multicast_recv`).
`PROJECT.json` lists every component with its status, and every hazard at its
line.

## 2. Modules

| Module | Models | Checked by |
|---|---|---|
| `Uuid` | `uuid_create` in any number of processes | `MCUuid` |
| `UuidProofs` | theorems about `Uuid`: any number of processes, and one with its files | `tlapm` |
| `LanScan` | `main`, `recvTask`, `sigint` and the wire | `MCLanScan` |
| `LanScanProofs` | theorems about `LanScan` | `tlapm` |
| `EchoService` | abstract: what an echo service promises | implemented by `TcpEcho` and by `TcpClient` |
| `TcpEcho` | the select loop, the handler, the kernel's TCP, the clients | `MCTcpEcho` |
| `TcpEchoProofs` | theorems about `TcpEcho` | `tlapm` |
| `DhcpProbe` | the probe's loop and the network | `MCDhcpProbe` |
| `DhcpProbeProofs` | theorems about `DhcpProbe` | `tlapm` |
| `Sigmon` | the ptrace loop, the handler, the traced process | `MCSigmon`, `MCPrograms` |
| `TerminalLoop` | the loop that `tcp_client` and `udp_test` share | its two instances |
| `TcpClient` | the terminal client, its connection and the server behind it | `MCPrograms` |
| `TcpClientProofs` | theorems about `TcpClient` | `tlapm` |
| `UdpEcho` | the datagram server, its terminal client, the network | `MCPrograms` |
| `Psstat` | the CPU meter and the process it looks at | `MCPrograms` |
| `Multicast` | `multicast_send`, `multicast_recv`, `mgroup`, the host's memberships | `MCPrograms` |
| `ProgramsProofs` | theorems about `Sigmon`, `Psstat`, `UdpEcho` and `Multicast`, and about `MCPrograms` as a whole | `tlapm` |
| `IntelHex` | `bin2mcs`, what may happen to its listing, `mcs2bin` | `MCTools` |
| `PcapNg` | the loop over the blocks of a capture | `MCTools` |
| `TextPackets` | `pcap_gen`, `pcap_dlt_user`, `raw_send` | `MCTools` |
| `Base64` | `encode`, noise, `decode` | `MCTools` |
| `BinTools` | `bincpy`, `binedit`, `binendian`, `binfind`, `bincomb`, `bingen`, `bindump`, `bindiff`, `binmega`, `binxor` | `MCTools` |
| `QrTables`, `QrCode` | the tables of the generator, and `qr_code_generate` | `MCTools` |
| `Checksums` | the text of a packet, its addresses, `onec`, `crc16` | `MCTools` |
| `Crc32Table`, `Digests` | the table of CRC-32, `crc32_csum`, `md5_csum` | `MCTools` |
| `DhcpPacket` | the DISCOVER, `raw_sock_recv`, `get_option` | `MCTools` |
| `Icmp` | `icmp` and `icmpv6` | `MCTools` |
| `Certs` | the six programs around OpenSSL | `MCTools` |
| `FileToolsProofs` | theorems about `Certs` and `BinTools` | `tlapm` |
| `UuidNames` | the UUIDs made from names, and `uuid_compare` | `MCTools` |
| `ToolsProofs` | theorems about `IntelHex` and `PcapNg`, and about the converters and byte tools in `MCTools` | `tlapm` |
| `Bytes` | bytes as sets of bits and as numbers, for the modules that calculate | - |

`MCTools` puts twelve modules side by side and `MCPrograms` five: they do not
interact, so a behaviour of `ToolsSpec` or `ProgramsSpec` is one run of one of them,
and a property of either is a conjunction with a part for each. The others are
as after their end (`MonIdle`, `TcIdle`, `UdpIdle`, `PsIdle`, `McIdle`).

Every definition that stands for code is named in `PROJECT.json` under `map`,
with its lines. Operators marked `mutant` are not part of the specifications:
each is a plausible wrong version of the operator after it, and shows that the
property named beside it in `PROJECT.json` would notice.

### Uuid
One action per access to a shared thing: the clock (`GetCurrentTime`), the file
`nodeid` (`GetNode`, `OpenNodeFile`, `CloseNodeFile`), the file `state`
(`ReadState`, `WriteState`, `CloseStateFile`). `pc[p]` is the place of process
p, `static[p]` its static variables, `frame[p]` the locals of `uuid_create`.
A file that was truncated by `fopen` and not yet closed is `Torn`, and
stays so when its writer dies (`Crash`); `Restart` begins with fresh statics.
`SetBack` sets the clock back. Timestamps are in 100 ns ticks; the words for the
clock sequence wrap as in C (`SEQ_WORD`, `SEQ_FIELD`). In a directory where
files cannot be created the process dies in `fwrite`, as the code does.

### LanScan
`mpc` is the place of `main`, `rpc` of the receiver. `filled` counts the octets
of `_ipDst` that main has written; `MatchOctet` compares one octet at a time,
because main may fill the next one in between; `begun` is how many it had filled when the
comparison began. `sock` is `_sock # -1`, `open`
whether the descriptor is open: `main` changes them one after the other.
`close` on a socket does not wake a thread in `recvfrom`, so `CloseSocket` leaves
a waiting receiver waiting. `taken`, `lines` (what was printed of each host, MAC and mark) and
`begun` are history.

### TcpEcho and EchoService
`owner` is the kernel's table of descriptors, `g_socket` the server's. `flags`
is the result of the last select, of which the scan removes what it has
served. `Dispatch` is the test `fd_server == fd`, `Accept` the accept with the
store that follows it, `ReadData` and `Write` are apart since the client may
reset the connection in between. A client's connection is `est`, `half` (it has
ended its stream and still reads), `fin` (it is gone; the first answer provokes
a reset, `answering`), `rst`, or `gone`. The kernel keeps at most `ROOM` bytes for
a client that has not read them (`held`, `Receive`). `Write` hands over as many as have room,
or fewer, and the server stays in it (`writing`) until all are handed over, the connection is
reset (`WriteEnds`) or a signal cuts it short (`CutShort`), which leaves out the rest of the
buffer: `lost` counts these bytes. `EndHdlr` runs between any two steps and inside a write.
`TcpEcho` implements `EchoService` under the mapping `served[c]` = "not dropped"; there
`Interrupt`, a signal, may take the oldest outstanding bytes of one client, and nothing
else leaves a gap.

### TerminalLoop, TcpClient, UdpEcho
`tcp_client.c` and `udp_test.c` have the same loop word for word: `TerminalLoop` is
that loop, with the handler between any two steps, and both modules instantiate
it. A select on a descriptor of -1 is an undefined `FD_SET`: the process is
killed, as a checking build does, or it sleeps in a select of nothing.
`TcpClient` has the server at the other end with it (`EchoRead`, `EchoWrite`):
writes take as many bytes as the kernel's buffer has room for, and stop. The bytes
are numbered as they are typed. It implements `EchoService` with the user as the
one client. `UdpEcho` has a `network` that is a set of datagrams, from which one may
arrive, arrive and stay for a second time, or never arrive, and programs that send to both sides.

### Psstat
`proc`, `fields` and `blanks` are the stat file. `ProcessEnds` and `PidReused`
come between any two steps, also between the opening and the reading of the file
(`Look`, `PrintLine`). `used` and `same` are history: what the process has
really used since the last line, and whether it is still the same one.

### Multicast
The kernel delivers a datagram to every socket bound to its port if the *host* is a
member of the group, so that `mgroup` decides with `multicast_recv` what that one
sees: `McArrive` looks at the memberships of both. `Unset` is the buffer of
`mgroup` before the first read; an empty read, at the end of the input, leaves it as it is
and is compared with nothing (line 183).

### DhcpProbe
`timeout` is what Linux leaves in the `timeval`; `Elapse` lets a tick of it
pass, `CountTimeout` and `SendDiscover` rearm it, and packets do not. Packets
are a kind and a transaction ID; those of servers only exist for a DISCOVER
that was sent. They come without end; the socket holds `MaxQueue` of them, and what finds it
full is dropped, by the kernel and unseen: such an offer is none for `VerdictIsTrue`. `elapsed`,
`offered` and `discovers` are history.

### Sigmon
`Continue`, `Detach`, `Deliver` and `TakeSignal` are ptrace(2): a signal
stops a traced process, the tracer injects a signal when it continues it, a
process that is not stopped cannot be continued or detached, and what stopped
it is injected when the tracer exits. `Interrupt` moves sigmon to its handler
from any place, also from the handler.

### IntelHex, PcapNg, Base64, BinTools
One action per record, block, group or byte, which is a turn of the loop in
the code. A record of `IntelHex` is a record with its checksum, a byte has
`HEX_BYTE` values and a segment `SEGMENT` bytes, so that a file of nine bytes
has three segments. `Damage` changes one byte of one record between the two
directions: its length, either byte of its address, its type, a byte of data or the checksum.
`LoseColon` changes the colon, after which the line is text, or empty if it became a line end; what
`mcs2bin` makes of it is what it makes of any listing (`ImageIsExact`), as nothing tells it that a record is missing. In `PcapNg` a capture is a sequence of blocks and a place inside
the last one where it is cut. `bincpy` begins with an uninitialized `buf`: `acc`
has any value then, and so has the byte of `binmega` without `-p`. `BinJob` is what the
command lines can say: START and LENGTH of `bincpy` are unsigned, those of `bindump` are not.

### TextPackets
The three programs share the loop that reads a text (`raw_send.c`, `pcap/util.c`):
a read of at most `READ_MAX` characters, tokens of at most `TOKEN_SIZE`, `sscanf`
that leaves its result as it was when a token has no digit, up to `BUF_SIZE` bytes.
`TextIsTrue` is written from the other end: `Words` and `Said` are what a
text means as a whole.

### Certs
Each program is a sequence of calls (`Get`, `Must`, `Save`, `Free`, ...) with the
objects a call needs and those that are given back when it fails, and a step is one
call, which works or fails. An object that another one owns is `inKey`. The
calls are OpenSSL's; their order, their tests and their clean-up are the code's.

### Digests, UuidNames
What MD5 makes of a block is left out: the state is the sequence of the blocks it
took. Padding, count and buffer are those of `md5.c`, on small blocks and
words. CRC-32 has its real table and register. `UuidNames` has bytes in memory in
the order of the host (`Turned`), a structure with its padding (`Memory`), and the
size that `sysdep.h:28` gives an `unsigned32`: the `long` of the host. Its digests
are the bytes that went into them.

### QrCode
A byte is the set of its bits that are 1: exclusive or is the symmetric
difference, and `Doubled` is the shift with the reduction by 0x11D. The state
follows the code from call to call; `reedSolomonPoly`, `reedSolomonCalc` and
`qr_matrix_placement` take a step per turn of their loop (`turn`, `walk`).
Patterns that overlap are a `CASE` (`Colour`), in which what the code writes
later stands first. The loop of `encode.c:335` has undefined behaviour: either
it yields the right bits, as a build without optimization does after 2^31
turns, or it never ends (`SpinInCount`).
`QrTables` is every table of the code, number by number. The symbols of the model
for twelve strings of versions 1 to 10 were compared with those of the compiled
program module by module, and so were the masks it chose.

The second half of `QrCode` is the reader, written from the
standard. It shares the table of block lengths and the notation of bytes with
the first half, and none of its geometry or field arithmetic: it finds the format by its BCH code (`FormatWord`), the modules that hold data by where
patterns must be (`HoldsData`, `Coordinates`), the blocks by dealing codewords
in turn (`BlockRead`), and tests each block at the roots of the generator
polynomial (`Intact`) with products of polynomials (`Times`).

### Checksums
`parse_line` is an `fgets` with the removal of the end of line, `parse_token` a
turn of the inner loop of `parse_hex_string_file`. Characters are HEX digits and
a few others (`Bytes`). `parseIpv6Str` runs over the characters with the four
variables of the code (`tmp`, `val`, `seen`, `colonp`). The register of `crc16` is
the set of its bits; `CrcByte` is the loop over the eight bits of a byte.
`SumsVerify` is written from the other end: what a text means as a whole
(`BytesMeant`), what address a text denotes (`Denoted`, `QuadMeans`), whether the
words with the printed checksum add up to zero, and the CRC as one division of
polynomials (`CrcMeant`).

### DhcpPacket
The complement to `DhcpProbe`, which knows messages only by their kind: here
are their bytes. `init_header`, `init_packet`, `add_requests` and
`raw_sock_send` build the DISCOVER. `Answer` is a server and `Travel` the network,
which changes a byte, cuts the packet or appends to it. `raw_sock_recv` copies
over what the last packet left in `payload`, as the code does. `TakeOption`,
`SkipOption` and `FieldEnds` are the turns of the loop in `get_option`; a byte
behind the message is `beyond`. The host adds up words in its own byte order;
the sum of ones' complement is the same in both.

### Icmp
A message is built byte by byte for each type (`Rest4`, `Data4`, `Rest6`,
`Data6`, where `Data` is what follows the header), packets of other `icmp` programs arrive in
any order, with IP headers of any length, and `Telling` reads the first one at the
places where the code reads. `Meant` says what the RFC puts there.

## 3. Runs

| Run | Shows | Bounds, and why they are enough |
|---|---|---|
| `Uuid` | types; UUIDs unique unless the clock is set back *and* the process restarts; clock sequence follows the clock; the state file is at most `SAVE_PERIOD` old; a complete node ID is kept; calls return | 1 process, 4 readings of the clock, 4 calls a run, 1 crash, 1 set back. A repeat needs two UUIDs, one change of the clock and one restart; the save period (3) lies between one and two readings, so saved and unsaved states both occur |
| `UuidShared` | no process repeats a timestamp, although another interleaves on both files | 2 processes, 2 calls each: one call overtaken at every access |
| `UuidCoarseClock` (violated) | 3 UUIDs per reading on a clock with 2 ticks between readings: a UUID repeats | the proportion of the code, 1024 to 10, made small |
| `UuidTornNode` (violated) | a crash inside the rewrite of `nodeid` makes all later node IDs zero | 1 crash |
| `LanScan` | the table is what was printed and no claimant is swallowed (`TableIsTrue`), what passes while the prefix is being filled is no more than `TakenAsFilled` says, every address is probed, and with traffic the close ends the receiver | 2 slots instead of 8, 3 MACs, a range of two addresses: a slot can be empty, full and overrun. Senders of the LAN, of no address (a probe), of a network that differs in the last octet, and one whose first octet is zero and whose others are the LAN's, which passes while main fills them |
| `LanScanStuck` (violated) | without traffic the receiver never ends | |
| `TcpEcho` | see below | 3 clients for 2 slots, one that sends 2 bytes, one a byte, one none; a buffer of 2 and room for 1 byte, so that a write blocks half done; 1 signal. A read that leaves bytes behind does not occur with these bounds; the theorems have it, for every buffer |
| `DhcpProbe` | "no server" neither before its time nor with an answer there, and no server without its answer (`VerdictIsTrue`), one DISCOVER, an end (`Terminates`) | count 2, seconds of 2 ticks, packets without end, of which the socket holds 2, one zero ID |
| `DhcpIgnoring` (violated) | what the log calls ignored ends the probe | |
| `Programs` | `sigmon`, `tcp_client` with its server, the datagram echo, `psstat`, the multicast programs: see below | `sigmon`: 3 signals of two kinds (one deadly), 2 interrupts, exit codes 0 and 1. `tcp_client`: reads of 1 byte, of 2 at the server, kernel buffers of 2 and 3 bytes, 8 bytes typed, as many as the four buffers hold together, so that every one of them fills. Datagrams: lines of 1 and 2 bytes, foreign ones of 0 and of 4, which is more than either buffer, one of them or one copy. `psstat`: intervals 0 to 2, with and without an end, one reuse of the PID, names with and without a blank, one time and one other field that move. Multicast: two groups of IPv4, one of IPv6, `mgroup` in five runs, with options that fail or not and inputs in lines and in pieces |
| `SigmonStatus` (violated) | exit status 1 is reported as signal 1 | 3 signals, 2 interrupts |
| `Tools` | a listing with a changed byte of a record gives the beginning of the file and nothing wrong, every byte of a listing with gaps lands at its address, packets survive cuts (`ConvertersAreTrue`); Base64 survives noise, texts become packets, and `bingen` and `binxor` write the bytes of their numbers (`TextsAreTrue`); the eight other byte tools do what their names promise (`ToolsAreExact`); QR symbols can be read, their versions and tables fit (`SymbolIsRead`); checksums verify; DHCP and ICMP messages are true; `cert` programs misuse and tear nothing; digests, and the UUIDs of names, are those of their standards (`DigestsAreTrue`) | see below |
| | files and captures | files to 9 bytes over 3 segments, listings of 4 lines, captures of 5 blocks, texts with 2 characters of noise, all files to 6 bytes of two values for `binfind`: every boundary of the buffers is crossed. `bindump` with every start and length about a file of up to 5 bytes, `binmega` about a size word of 8. Texts of packets: all of 3 characters of 6 kinds, and three files in a row, each long, short, of full buffers, empty or missing, against reads of 5, tokens of 4 and packets of 3 bytes |
| | symbols and checksums | all 160 pairs of version and level with a string that just fits and one byte more are sent through `qr_check_capacity`; symbols are drawn for `DrawnVersions` 1, 2, 5, 7, 10: without and with alignment patterns, with blocks of two lengths, with version areas, with a count of 16 bits. All texts of 5 characters of 6 kinds against a line buffer of 6 (`LINE_SIZE`, so that lines are cut), packets up to the limit of each array (12 and 19 bytes, `HEADER_MAX` and `PACKET_MAX`) and beyond, IPv6 addresses of 3 groups (`NS_IN6ADDRSZ`) with all texts of 7 characters of 3 kinds, CRC of up to 3 bytes with two polynomials. MD5 of every length to 70 with blocks of 8 bytes and a count of two words of 8 bits, so that the low word overflows twice; files that shrink or grow while they are read; each of the 256 entries of the table of CRC-32 |
| | messages and programs | DHCP: fields of 40, 4 and 3 bytes instead of 308, 128 and 64, every byte of an OFFER changed by 1 and by 255, packets cut at every part, and all endings of the options field from 5 bytes of 5 values. ICMP: every type of both versions, a code above a byte, a first packet from each kind of peer, IP headers with and without options, an identity that makes the sum fold twice. `cert`: each call of each program failing, each extension, outputs that are new or there from before (a pair, a key alone, a certificate alone, halves of two pairs), a full disk. Names: both byte orders, both sizes of a long, and 64 UUIDs compared with each other |

Properties worth a word:

* `UniqueUuids` has the condition that a set-back clock and a restart do not
  come together. With both, the state on disk may be from before the readings
  that the clock goes back over (it is written every ten seconds), the process
  does not notice, and a UUID repeats: `LossWindow` bounds how much is lost.
* `SeqFollowsClock` is about what the generator returns, call by call, and not
  about the test in the code: it fails when the state that is compared is older
  than the last call.
* `TableMatchesKernel` and `NeverBlocks` (`TcpEcho`) tie the server's table and
  its flags to the kernel's descriptors, between rounds and in the middle of
  one. A flag of the last select never stands for a connection that came later,
  because a round only accepts at descriptor 3, before all others.
* `SignalEndsSelect`: a signal that finds the server asleep ends it. One that
  finds it at work does not: the loop goes on without descriptor 3, and with no
  client left it sleeps until another signal. No property forbids that, as the
  code says nothing else.
* `TakenAsFilled` is the race of `recvTask` with the filling of the prefix: the receiver may
  compare an octet before main has written it, and takes a zero for a match; an octet that
  was there when the comparison began is the LAN's. A sender whose octets are partly zero does pass.
* `VerdictIsTrue`: "no server" comes after COUNT + 1 timeouts and not before (the comment says
  ten seconds, the code waits eleven); a count that ended one earlier violates it.
* `Terminates` (`DhcpProbe`): packets never stop. The probe ends if its sleeps add up and
  its socket is found empty again and again; the remaining time in the timeout is what makes a packet not
  begin the second anew, and a probe that rearmed it at each would violate the property. A socket that always
  has the next packet ready keeps the loop from its end: hence the hypothesis.
* `EveryByteReturns` (`TcpEcho`): a client that ends its stream is only closed after
  its last byte came back, and every byte of a client that stays is echoed at
  last, but for what a signal took from a write (`lost`). This needs that the clients
  read what they get (`ClientsRead`, a hypothesis of the property): one that does not
  holds the server in the write of line 267, and with it all the others.
* `SignalsAreKept` is `Transparent` when nothing interrupts `sigmon`, and
  `NoneInvented`, which says how wrong its handler can be: it may pass the
  signal before the present one, which then takes effect twice while the
  present one is lost; the process may also be left stopped
  (`LeftStopped`) when the handler runs before the attach is complete.
* `NoStandstill` depends on the order of the client's loop: terminal first, then the
  socket of the *same* select. A client that went back to select after the
  terminal could fill both buffers, and both programs would stop in a
  write. The assumption `TcpClientOK` on the buffers is far below what a kernel gives.
* `EchoPrinted` holds although the end of the terminal's input makes the loop
  spin.
* `DatagramsAreTrue`: no answer is invented, cut or sent to the sender of another
  datagram; `multicast_recv` shows datagrams of groups that *other* programs of the
  host have joined, which the property allows and its comment names;
  `mgroup` holds exactly the groups it says it has joined.
* `PercentIsTrue` leaves out what section 4 lists: blanks in a name, and a PID
  that went to another process.
* `ProgramsEnd`: for `tcp_client` and `udp_test` not every signal ends the program.
  One that meets it outside the sleeping select closes the socket, and the select
  of nothing that follows sleeps until the next one.
* `RestoresFile` (in `ConvertersAreTrue`) needs the checksum, the order of its test and
  the exit after it: one changed byte of a record, in its length, address, type, data or
  checksum, must stop `mcs2bin` before it writes what it read. The colon is not among them: a
  record that lost it is passed over (line 309), and its place in the file is filled with 0xFF.
* `ImageIsExact` (there too) is about listings of any origin that are `Orderly`: whole
  records whose checksums verify, ascending data that ends inside its segment,
  each segment selected once and followed by its data. `mcs2bin` takes others too (it
  reads past a segment that has no data, say), and promises nothing of them.
* `VersionFits` (in `SymbolIsRead`) compares six tables with each other and with the
  standard's geometry: a typing error in any row of any of them would show. It found one
  (section 4).
* `SumsVerify` allows the checksum to be one too large exactly where folding
  the sum carries a second time (section 4), and it leaves out texts with lines
  longer than the buffer, which are cut inside a token.
* `MessagesAreTrue` has four parts: `DiscoverIsWhole`, `ReplyIsTrue` (what is
  accepted is what was sent, although the caller's buffer is not cleared, and
  what was sent is accepted), `OptionIsFound`, and `IcmpIsTrue` (one program tells what
  another one meant). The conditions in the last three are the exceptions of
  section 4, stated as equivalences where the code is always wrong, so that
  a repair would show.
* `CertsAreSafe` names every leak (`LeftBehind`) and what each file holds at the end of each
  program, whatever it held before and whatever could not be opened (`OutputIsWhole`). A `.pem` that
  is no pair comes about exactly where one of the two opens of `create_cert` fails; where both do,
  it is what it was.
* `NamesAreStable` (in `DigestsAreTrue`) is an equivalence: the result is the
  UUID of RFC 4122 if and only if a long has four bytes.

Deadlock is not checked: the programs end, and the bounds stop the
environment. That nothing stops too early is what the liveness properties say.

### Fairness
* `Uuid`: a process inside `uuid_create` keeps running and the clock advances.
  Nothing is assumed of crashes, new calls or changes of the clock.
* `LanScan`: both threads are scheduled, as threads are. `TrafficSpec` adds
  that frames keep arriving, which ARP traffic on a LAN justifies and the code
  does not: `LanScanStuck` runs without it.
* `TcpEcho`: the server process is scheduled. Clients and signals owe nothing; that clients
  read is a hypothesis of `EchoDelivered`, written there.
* `DhcpProbe`: the process is scheduled. That time passes in its sleeps (`SleepsAddUp`) and that
  its socket is found empty at times (`SocketEmpties`) are hypotheses of `Terminates`, since the code sees to neither.
* `Sigmon`: both processes are scheduled, and a process takes its signals.
* `TcpClient`, `UdpEcho`: each program is scheduled. Users, networks, resets and
  signals owe nothing, except where a property says so itself: `SignalsEndClient`
  and the client's part of `SignalsEndUdp` hold if signals keep coming.
* `Psstat`: the program is scheduled and seconds pass.
* `Multicast`: `mgroup` is scheduled and its input is there.
* `Tools` has no fairness: its properties are invariants.

## 4. Findings

1. `uuid/sysdep.h:21`: `UUIDS_PER_TICK` is 1024 on a clock that moves in steps of
   10: a burst of calls repeats UUIDs (`UuidCoarseClock`).
2. `uuid/sysdep.c:19`: an empty `nodeid` is taken for a node ID (`UuidTornNode`).
3. `lan_scan/lan_scan.c:432`: `close` does not end the receiver (`LanScanStuck`).
4. `dhcp_probe/dhcp_main.c:448,454`: "ignoring" leaves the loop (`DhcpIgnoring`).
5. `sigmon/sigmon.c:101`: exit statuses are taken for signals (`SigmonStatus`).

Seen while modelling, without a run that shows it, as no text of the
repository says otherwise:

* `qrcode/generate.c:69`: the capacity of version 38 with level H reads 1399, the
  block table gives 1139. Strings of 1140 to 1399 bytes get version 38 and do not
  fit. `VersionFits` leaves out exactly these (`Overstated`).
* `qrcode/format.c:152-169`: the 18 bits of the version go into both areas
  from the most significant on, column by column. A reader takes the least
  significant first, and in the area at the top right row by row. `QrReadable`
  leaves the two areas out and looks at all other modules.
* `qrcode/encode.c:335`: `for (i=7; i>=0; i++)`.
* `qrcode/masking.c:159-198`: the second pattern is looked for in columns
  twice and in rows never (`evaluate_3`). It changes which mask is chosen, not
  whether the symbol can be read.
* `checksum/onec.c:34`: the sum is folded once. Where the folded sum carries
  again, the carry is lost and the printed checksum is one too large.
* `checksum/parser.c:116`: a line of more than 1022 characters is read in pieces,
  and the token, or the comment, that stands at the cut becomes two.
* `dhcp_probe/dhcp_options.c:105-106`: `over` is read from the byte behind the
  value of option 52, and the option is skipped by the length of the first
  option in the field. A message type in the file or sname field is then found by
  luck only.
* `dhcp_probe/dhcp_main.c:245`: a sender whose UDP checksum comes out as zero
  sends all ones instead, since zero means none. The probe computes zero and
  refuses the packet.
* `psstat/psstat.c:135`: fields are counted by blanks, and the name of a process may
  hold some. With `-i 0` the division at 205 kills the program. When the process
  ends and its PID is taken between two looks, the difference of the counters of two
  processes is printed.
* `udp_echo/udp_echo.c:149`: a datagram without bytes ends the server.
* `tcp_echo/tcp_client.c:184`: at the end of its input the client goes round without
  sleeping; so does `mgroup` (`multicast/multicast_group.c:180-187`), which compares nothing
  then (only a read of at least a byte is compared, in front of what older bytes are behind it).
* `tcp_echo/tcp_echo.c:267`: the result of `write` is not looked at. It blocks on a client that
  does not read, and no one else is served meanwhile; a signal in the middle of it loses the rest of the buffer.
* `intel_hex/intel_hex.c:309`: a record whose colon is damaged is taken for a comment.
* `multicast/multicast_group.c:113`: `-l` leaves the group on a new socket, which was
  never a member: it always fails.
* `multicast/multicast_recv.c:90`: what is shown may have come to another group or to
  the host itself; line 246 gives `recvfrom` the length of an IPv4 address, so that half
  of the first sender's IPv6 address is missing.
* `icmp/icmp.c:291`, `icmp/icmpv6.c:306`: the gateway of a redirect is read from behind the
  header, the MTU from its upper half. `icmp.c:192` sends the mask 0.255.255.255. The
  first packet in the socket is told, whoever it is for.
* `pcap/pcapng_to_pcap.c:324`: no file header when the first packet is of an unknown
  interface. `pcap/pcap_dlt_user.c:79`: none when the first file cannot be read.
  `pcap/pcap_gen.c:178`: `-a` adds to whatever is there.
* `pcap/util.c:153`: a token without a digit repeats the byte before it.
* `raw_send/raw_send.c:368`: frames are counted that could not be sent (`transmitted`).
* `cert/verify_der.c:125`: the tests of the clean-up are the wrong way round.
  `cert/create_cert.c:227-247`: the `.pem` file is opened twice, and if one of these
  fails, a key stands without its certificate or behind it an old one.
  `cert/convert_cert.c:159`: a name without an extension is compared as NULL.
* `checksum/md5_csum.c:72`: an empty file is refused, although it has a digest.
* `binutil/bindump.c:129`: whenever it does not begin at the first byte, the last one is shown
  twice. `bindiff` says nothing of what the longer file has more. `binmega` (31) counts bytes in
  32 bits: 4096 MB and more wrap around.
* `uuid/sysdep.h:28`: an `unsigned32` has eight bytes where a long has. The UUIDs made
  from names are then not those of RFC 4122, and those of version 3 contain what lies in memory behind
  the hash.

## 5. Proofs

Eight modules hold theorems, each beside the components of which it speaks. Each
theorem holds for all values of the constants that satisfy the named assumption
of the module (`ConstantsOK`, `FilesOK`, `TcpClientOK`, `UdpEchoOK`, `PsstatOK`,
`MulticastOK`, `CertInputsOK`, `HexConstantsOK`, `NgConstantsOK`, `BinConstantsOK`), and TLC evaluates that assumption on every run. Assumptions beyond these are written in the theorem.

| Theorem | States | Assumes |
|---|---|---|
| `TcpEchoProofs!Typing` | `[]TypeOK`: the table never gets an entry beyond its end, a read never exceeds the buffer | |
| `TcpEchoProofs!TableIsTrue` | `[]TableMatchesKernel` | |
| `TcpEchoProofs!LoopNeverBlocks` | `[]NeverBlocks` | |
| `TcpEchoProofs!Implements` | `ImplementsEcho`: the server implements `EchoService`, through writes that block and are cut short | |
| `TcpEchoProofs!ClosedAfterAll` | `ClosesAfterAll`, the part of `EveryByteReturns` that is about a step: the read loop closes a client that ended its stream after every byte that no signal took from a write came back | |
| `TcpClientProofs!ClientTyping` | `[]TcTypeOK` | |
| `TcpClientProofs!NeverStandstill` | `[]NoStandstill`: client and server are never both stopped in a write | |
| `TcpClientProofs!EchoesAsTyped` | `EchoesTyped`: client and server together implement `EchoService` | |
| `LanScanProofs!Typing`, `AllProbed`, `TakenWhileFilled`, `TableTrue` | `[]TypeOK`, `[]ProbedAll`, `[]TakenAsFilled`, `[]TableIsTrue` | |
| `DhcpProbeProofs!Typing`, `DiscoversOnce`, `TrueVerdict` | `[]TypeOK`, `[]OneDiscover`, `[]VerdictIsTrue` | |
| `ProgramsProofs!MonTyping` | `[]TypeOK` | |
| `ProgramsProofs!NoSignalLost` | `[]SignalsAreKept`: no signal is lost on its way through the monitor, and none made up | |
| `ProgramsProofs!PercentTrue` | `[]PercentIsTrue`: each line has the ticks since the line before it | |
| `ProgramsProofs!DatagramsShown` | `[]DatagramsAreTrue`: what the datagram and the multicast programs show is what was sent | |
| `ProgramsProofs!ProgramsTyping`, `ProgramsSafe` | `[]ProgramsTypeOK` and the four safety invariants of the run `Programs`, of its own specification | |
| `FileToolsProofs!CertsInvariant`, `OutputInvariant`, `CertsSafe` | `[]CertsAreSafe`: whatever calls fail and whatever the files held, nothing is misused, what leaks is known, and each file holds what it did before or what was stored through the opens that worked | |
| `FileToolsProofs!FilesExact` | `[]ToolsAreExact`: what a byte tool has written when it ends is what its name promises, of any file and any arguments | |
| `ToolsProofs!FileRestored` | `[]RestoresFile`: `mcs2bin` undoes `bin2mcs`, and writes nothing wrong of a listing with a changed byte of a record | |
| `ToolsProofs!ListingImaged` | `[]ImageIsExact`: of an orderly listing each byte lands at its address | |
| `ToolsProofs!CaptureKept` | `[]PacketsAreKept`: the output has every packet of the capture up to where it ends | |
| `ToolsProofs!ConvertersTrue` | `[]ConvertersAreTrue`, the three properties in the specification of the run `Tools` | |
| `ToolsProofs!BinToolsExact` | `[]ToolsAreExact` in the specification of the run `Tools` | |
| `UuidProofs!Typing` | `[]TypeOK`, with any number of processes | |
| `UuidProofs!RunsAreUnique` | `[]NoBurst => []UniqueInRun`, with any number of processes | |
| `UuidProofs!NodeIdKept` | `NodeFileStable` | `Alone` |
| `UuidProofs!LossIsBounded` | `[]LossWindow` | `Alone` |
| `UuidProofs!SequenceFollows` | `[]SeqFollowsClock` | `Alone` |
| `UuidProofs!AllUnique` | `[]NoBurst => []UniqueUuids` | `Alone`, `FewSetBacks` |

* `Alone`: one process works in the directory. `LOCK` is empty, so with two
  processes each overwrites the other's files, and TLC finds all four properties violated on
  small instances with two (`UuidShared` and `RunsAreUnique` show what remains).
* `NoBurst`: no process has taken more UUIDs out of one reading of the clock than the reading has
  ticks. It is about a behaviour and not about the constants: with 1024 UUIDs per tick
  on a clock of 10 ticks, as in the code, it holds of every behaviour without an eleventh call within
  one microsecond. The code does not see to it (finding 1), and `UuidCoarseClock` is the counterexample without it.
* `FewSetBacks`: the clock is set back less often than the clock sequence has
  values (2^14). Set back more often, it comes round.

None of the invariants is inductive as the runs check it. What each proof adds:

**TcpEcho.** `TableMatchesKernel` speaks of the moments between two rounds and
has to hold at every place of the loop. `Control` is `TypeOK` with
`SlotsAreTrue` (a slot holds its own descriptor if that is in use and -1 if not, also
when the handler closed the listener), `FlagsAreReady` (in a round, each
flag that is left is of a descriptor that is ready: a connection accepted
meanwhile has none), `ServedIsReady` (so has the descriptor that is served), and
`OnePlace` (a client is in the backlog once, or has one descriptor, and then it is neither
"none" nor "gone"). From these follow the table and `NeverBlocks`.
`BytesInOrder` adds what carries the refinement: for a client that listens, the
bytes echoed or lost, those in the server's buffer and those in the kernel's queue are together
as many as were sent, and each has the number of its place. Since all connections share one buffer, this
needs `OnePlace`. Each step then maps to a step of `EchoService` or to a
stutter, and when the read loop meets the end of a stream queue and buffer are
empty (`ClosesAfterAll`).

**TcpClient.** `Limited` is the argument of `NoStandstill`: everything written
and not yet read back, over all four buffers, is at most `FORWARD + ECHO_CHUNK`
plus what the client may have added since its last select (`Extra`), which is
one chunk, or two while the flag "socket" of that select has still to be served. Both programs can only stop if both kernel
buffers are full, which would be more than that, as `TcpClientOK` gives `BACK`
two chunks beyond `ECHO_CHUNK`. `Chain` is the argument of `EchoesTyped`:
printed, `back`, `echoBuf`, `forward` and `tcBuf` are consecutive runs of the
typed bytes. `Connection` and `Flags` tie the loop's flags to the state of the link, through resets and
through the handler that closes the socket.

**LanScan.** `ProbedSoFar` says what has been probed at every place of `main`.
`Matching` has the octets that were compared so far (`OctetsMatch`): those that were filled when the
comparison began are the prefix's, the others that or zero. For the table, `TypeOK` must
say that what is matched is a frame and not the content of `_rxBuf` before the
first one (`Traffic`), and `TableIsTrue` is proved host by host in a form without
sets (`Agree`: the slots are the first lines, without repetition, and later lines are
beyond full slots).

**DhcpProbe.** `LastIsXid` and `OneDrawn` say that the nonzero ID was drawn once and
was sent last. `Clock` bounds the elapsed time from below by `count` and what is
left of `timeout`, which makes "no server" never come before COUNT + 1 seconds. `OfferHeld` follows an
offer for the present ID from the network to the loop: it is in the queue or in
the hands of the loop until there is a verdict. `EndsWithVerdict` and
`Answers` connect them.

**Sigmon.** The signals that were sent, are pending, stop the process, are held
by `sigmon` and were delivered are one account for each signal. `Transparent` says
that it is even while no handler has run. `Bounded` is the part of it that survives
the handler: each run of that makes at most one signal take effect instead of another
(the program resumes with the `g_sig` it finds), so that
delivered ones and those in flight are at most what was sent and the number of
interrupts. `Kernel` and `Passing` say what
is held: a process that is stopped is stopped by its status, and between the wait
and the continuation `g_sig` is that status (or 0, of the first stop). `Sourced`
carries "it was sent" along every place a number can be copied to. `MonControl`: the handler
does not return.

**Psstat.** `PsCounts` holds while the process that is looked at is still the one of the
last line: the file that is open is its own, and what it has used since is the
difference of its four counters. With more than that the line cannot be right, and
the model does not claim it: `PercentIsTrue` asks for `same`. The arithmetic is a
division with its remainder (`Divided`). `WORD > 400 * MaxTicks` keeps the product by 100
of four counters inside an `unsigned int`, which `PercentOfTicks` needs.

**UdpEcho.** `Lawful` datagrams are lines that were read, whole, strangers' ones
with an identity that no line has, and replies to their senders. Every
place a datagram can be in holds only lawful ones. That none is shown twice, as long as
the network has doubled none, is a count over all places (`OncePerCopy`): the line, its reply
and their copies are together in at most one place more than there were copies.

**Multicast.** What may come to the receiver's socket (`McMeant`) is for its group, for the host, or for a
group that `mgroup` has joined. `GroupsAreHeld` asks when `mgroup` ends, and `mgroup`
compares its buffer, in which older bytes follow a short line. `LineIsCompared` shows
that they do not matter: a line is compared up to its newline, which the word "exit" does
not contain (`MulticastOK`).

**The run `Programs`.** `ProgramsSafe` is about the specification that TLC
checks: the programs that do not run satisfy the invariants where they stand, and
each step is a step of one program and a stutter of the others.

**Certs.** A program is a list of calls, and what has to be true of the list (`Sound`) is looked
up in each of the ten lists: nothing is in the `undo` or the `uses` of a call after it was
freed, a call that may fail gives back all that may be held there but the known leaks, and
the saves are at the end in their order. That no run of a program with such a list goes
wrong is the induction (`CertInv`): what is alive is what is set and not yet given back, or
the pair inside a key. `OutputInv` says of each file, at each call of a save, which items of it were
written and which missed, starting from any old content (`PemSoFar`, `DerSoFar`). That `.pem` is opened twice and
may be opened once makes the pairs that come apart, which `OutputIsWhole` counts.

**IntelHex, there and back.** A listing is a path through the file: `off` and `base`
say for each of its lines where in the file the reader is before it, and where its
segment begins (`Path`). While `bin2mcs` writes, every line moves it on by the data it holds or to the next segment
(`Begun`); after that the last line is at the end of the file (`Complete`), and each line is the record that
was written or, in a damaged listing, one that is not accepted (`Reads`). A listing that lost a colon
leaves this part and enters the next one (`ColonLost`).
`HexInv` then says of `mcs2bin` that its image is the file up to the segment it is in and that its buffer
has the file from there up to `off` (`ReaderAt`), which is the beginning of the file whatever happens next. The
heart is that a changed byte is seen (`DamageIsSeen`): it changes the sum of the
record by less than `HEX_BYTE` (`TypeMoves` and `AddressMoves` show it of the head), so not by a multiple of it. Sums over the data are
of any length. Their lemmas (`RunningExists` and those after it) go by the least number for which they would
fail, which is an induction the provers can follow.

**IntelHex, any listing.** `seg` gives the segment of each line (`Layout`, which
`Orderly` provides, `LayoutFound`). `ReadTo` says of each byte of the image and of the whole buffer, also
behind `binLen`, that it is what the lines read so far say of it (`ByteIs`), and that what is
written is as long as the segment's address. The check of `addrNext` against the next address only matters
behind a line of data.

**PcapNg.** `NgKnows` ties the program's variables to the blocks before `blockNum`: `first` to whether a
packet was among them, `g_ifLinkType` to the interfaces, of which it holds at most
`MAX_INTERFACES`. `Converted(blockNum)` is what `PacketsAreKept` says of a whole file,
for these blocks. Each turn adds one block, which extends the sets of packets and
interfaces by one element or none (`OfFacts`).

**BinTools.** A job never changes its tool, so that each tool has an invariant of its own loop
and `BinInv` puts them together. A promise about a whole file becomes one about what
was read up to here:
* `CopyInv`: the output is the slice up to the place in the file, and `eof` is set when a read was tried
  behind the end, which shows the last byte again (`acc` still holds it);
* `EditInv`: the output is the file with the bytes of VALUE over it that were put so far;
* `EndianInv`: whole words are turned, and what is left is less than a word, of which the first byte set the
  rest to zero;
* `FindInv`: of each place before the beginning of the present match it is decided whether it was found.
  For that the pattern has to be at each place that was taken, and at those that were not it differs or an
  earlier find reaches into it;
* `CombineInv`: the output is the join of the files before `next` and of the part of that one which was read.
  `FlattenSeq` is a recursive function, of which the library has no theorem: the loop
  itself builds it (`Flat`), and that it is the only one with these values follows by the least number;
* `DiffInv`: `next` counts the differences before the place, and those that are shown are the first of them;
* `MegaInv`: the loop ends at the size modulo `SIZE_WORD`, which is the size itself if the word holds it.

A file position is a natural number here and an `int`, `unsigned int` or `long` there: what is proved is
about files of less than 2^31 bytes, but for `binmega`, whose count is 32 bits
wide in the model as well (`SIZE_WORD`).

**The run `Tools`.** `ConvertersTrue` and `BinToolsExact` are about the specification TLC checks: these
programs satisfy their invariants where they stand idle, and a step of another tool leaves them alone.

**Uuid, many processes.** From a state in which a process holds an old
timestamp the next step could issue it again. `IInv` adds to `TypeOK`
`ClockAhead` (a process's last reading is the present one, or at least `RESOLUTION`
behind the clock), `StampIsHigh` (a process that holds a timestamp holds its
last reading plus its count), `IssuedNumbered` (no UUID carries a
run that has not begun), `ClockRuns` (the clock is past zero, which a fresh `time_last` is) and `IssuedBelow` (what the present run issued is at most
that stamp, and below one that was taken and not issued). A new reading is at least `RESOLUTION`
above the last one, and the count of that is below it by `NoBurst`, so a new stamp is
above all issued ones (`NewStamp`).

**Uuid, one process.** The disk is now part of the argument.
* `NodeIdKept` needs that no process is about to rewrite a file that is complete
  (`NodeInProgress`).
* `LossIsBounded`: `Due` (the next save is less than `SAVE_PERIOD` after what was saved, on a
  multiple of the period), `BeforeSave` (until the due save is done nothing is issued) and
  `Unwritable` (without files the program dies before it returns).
* `SequenceFollows`: the saved state in memory is that of the last UUID of the run
  (`LastIsKnown`), and while a call decides on the sequence it has not
  changed (`AtReturn`, `ReadsBack`).
* `AllUnique` has two cases. If the clock is never set back, everything
  that earlier runs issued is below the readings of the present one
  (`OldBelow`). If there was no restart (no run but the first, `FromOne`),
  `Apart` says of every issued UUID that its clock sequence is a number `d` of
  steps behind the present one, and that `d`, with one more for a set-back that no reading has
  met yet (`Debt`) and one for a timestamp that has fallen and not yet been
  compared (`Fall`), is at most the number of set-backs; at `d` = 0 its
  timestamp is below. As `d` stays below `SEQ_FIELD`, equal sequences mean `d` = 0.
  This takes the word to be a multiple of the field, which is 2^16 and 2^14
  in the code (`ConstantsOK`).

The inductive invariants were checked by TLC on the runs' instances before
they were proved.

Only model-checked:
* liveness, and all that holds under fairness (`CallReturns`, `CloseEndsReceiver`,
  `SignalEndsSelect`, `ProgramsEnd`, the last part of `EveryByteReturns`, ...), which is out of the
  prover's reach;
* the other programs of `Tools` (Base64, `bingen` and `binxor`, QR symbols, checksums, messages, texts of
  packets, digests, names): what they promise is a comparison with the result of a fold over
  all of the data, or with tables of numbers. For sums of a record's data `ToolsProofs` does such an
  induction by hand; for the checksums, the error correction of QR or the list of a text's lines this would be a development of
  its own, and TLC's enumeration is the evidence.

## 6. Plan

What is left, in the order of its worth:

1. `get_option` of `DhcpPacket` (it never leaves its field) and the account of `raw_sock_recv`;
2. `DecodesNoise` of `Base64`: a group survives characters that are no code;
3. the order of UUIDs in `UuidNames` (`OrderIsLexical`), and `NamesAreStable` with it;
4. the checksums' lemma that a packet with its checksum sums up to zero.

Recursion in the modules that get theorems is written as recursive functions
or with the folds of the community modules.

## 7. Not modelled

`dhcp_probe`'s logging (`dhcp_log.c`) is formatting and printing. Left out
everywhere are the parsing of command lines, dumps and progress output, and in
particular: of `sigmon` the names of signals, of `psstat` the usage bar and the clock,
of `intel_hex` the option `-c`, of `pcap_gen` the example of `-t`, of
`raw_send` the set-up of its socket, of `cert` the contents of a
certificate, and of MD5, SHA-1 and OpenSSL what they compute.
