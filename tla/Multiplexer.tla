---------------------------- MODULE Multiplexer ----------------------------
(***************************************************************************)
(* What the aligner and the parser are given: any bytes, and the packets   *)
(* of a multiplexer - tables with programs, streams, descriptors and       *)
(* pointer fields, and video of either codec.  A packet is described by    *)
(* what it carries, of which BytesOf makes the bytes, and the program      *)
(* (told) is followed from the descriptions alone.  What does not fit in   *)
(* a packet is cut off.                                                    *)
(***************************************************************************)
EXTENDS PacketAligner, TSParser

CONSTANTS
  PacketLength,     \* tsPacketSize, for the parser
  MaxEntries,       \* bound on the entries of a table
  MaxNals,          \* bound on the NAL units after the first of a packet
  Pointers,         \* the pointer fields
  Programs,         \* the entries of PATs
  PmtPIDs,          \* the PIDs of PMTs
  Infos,            \* the bytes of descriptors of a program
  StreamKinds,      \* the entries of PMTs: es is the bytes of descriptors
  VideoPIDs,        \* the PIDs of PES packets
  PesHeaders,       \* the bytes of optional fields in their headers
  FirstNals, Nals   \* of each codec, the NAL units that come first, and after them

\* The first byte of each kind of NAL unit: those of a keyframe (IDR, CRA or BLA,
\* and the parameter sets), and the others.
Key == [h264 |-> {101, 103, 104}, h265 |-> {32, 34, 36, 38, 40, 42, 64, 66, 68}]
\* Of those others, the ones whose header reads as a keyframe of the other codec:
\* H.264 slices that are referred to, and the H.265 STSA_N and EOS units.
Mistaken == [h264 |-> {33, 65}, h265 |-> {8, 72}]
Other == [h264 |-> {1, 97, 6, 9, 10, 12}, h265 |-> {0, 2, 4, 10, 12, 16, 18, 70, 74, 78, 80}]
Codecs == {"h264", "h265"}
\* A start code of three or four bytes, the header, and the bytes after it.
Units(c) == [code: {3, 4}, header: Key[c] \cup Mistaken[c] \cup Other[c], body: Nat \ {0}]

\* A field of some bits.
Below(n) == {k \in Nat : k < n}
\* Whatever has one PID is one thing.
ASSUME MultiplexerAssumption ==
  /\ PacketLength \in Nat /\ 20 <= PacketLength /\ PacketLength <= 188
  /\ {MaxEntries, MaxNals} \subseteq Nat
  /\ Pointers \cup PesHeaders \subseteq Below(256)
  /\ Infos \subseteq Below(1024)
  /\ Programs \subseteq [number: Below(65536), pid: Below(8192) \ {0}]
  /\ StreamKinds \subseteq [type: Below(256), pid: Below(8192) \ {0}, es: Below(1024)]
  /\ PmtPIDs \cup VideoPIDs \subseteq Below(8192) \ {0}
  /\ \A e \in Programs : e.pid \notin VideoPIDs
  /\ \A k \in StreamKinds : k.pid \notin PmtPIDs
  /\ \A c \in Codecs : FirstNals[c] \cup Nals[c] \subseteq Units(c)

VARIABLES told,      \* history: the PIDs the tables that were inspected announce
          expected   \* history: the last packet begins a keyframe, or looks it

muxVars == <<alignerVars, parserVars, told, expected>>

-----------------------------------------------------------------------------
\* Where the entries of a list end that have these lengths, from 0.
Ends(lengths) ==
  LET Sum[i \in 0..Len(lengths)] == IF i = 0 THEN 0 ELSE Sum[i - 1] + lengths[i] IN Sum
PatLengths(p) == [i \in DOMAIN p.programs |-> 4]
PmtLengths(p) == [i \in DOMAIN p.streams |-> 5 + p.streams[i].es]
NalLengths(p) == [i \in DOMAIN p.nals |-> p.nals[i].code + 1 + p.nals[i].body]
All(lengths) == Ends(lengths)[Len(lengths)]

\* The section lengths, of twelve bits: the rest of the header, the entries and
\* the CRC.
PatSection(p) == 5 + All(PatLengths(p)) + 4
PmtSection(p) == 9 + p.info + All(PmtLengths(p)) + 4

\* What a packet carries.
PATs == {p \in [kind: {"pat"}, pointer: Pointers, programs: SeqOf(Programs, MaxEntries)] :
           PatSection(p) < 4096}
PMTs == {p \in [kind: {"pmt"}, pid: PmtPIDs, pointer: Pointers, info: Infos,
                streams: SeqOf(StreamKinds, MaxEntries)] :
           PmtSection(p) < 4096}
NalLists(c) == UNION {{<<n>> \o rest : rest \in SeqOf(Nals[c], MaxNals)} : n \in FirstNals[c]}
PESs == UNION {
  [kind: {"pes"}, pid: VideoPIDs, starts: BOOLEAN, codec: {c}, hdr: PesHeaders,
   nals: NalLists(c)] : c \in Codecs}

-----------------------------------------------------------------------------
\* The bytes of a packet.
Byte(b, n) == [i \in 1..n |-> b]
Cut(s, n) == SubSeq(s, 1, IF Len(s) < n THEN Len(s) ELSE n)
Two(n, marks) == <<marks + n \div 256, n % 256>>
Header(pid, starts, adapted) ==
  <<71>> \o Two(pid, IF starts THEN 64 ELSE 0) \o <<IF adapted THEN 48 ELSE 16>>
\* A section, after a pointer field over the end of another; its CRC reads like
\* one more entry.
TablePacket(pid, pointer, section, crc) ==
  Cut((Header(pid, TRUE, FALSE) \o <<pointer>> \o Byte(2, pointer))
        \o (section \o crc \o Byte(255, PacketLength)), PacketLength)
PatBytes(p) ==
  LET Entry(e) == Two(e.number, 0) \o Two(e.pid, 224)
  IN TablePacket(0, p.pointer,
       (<<0>> \o Two(PatSection(p), 176) \o <<0, 1, 193, 0, 0>>)
         \o FlattenSeq([i \in DOMAIN p.programs |-> Entry(p.programs[i])]), <<0, 3, 225, 9>>)
PmtBytes(p) ==
  LET Entry(e) == <<e.type>> \o Two(e.pid, 224) \o Two(e.es, 240) \o Byte(27, e.es)
  IN TablePacket(p.pid, p.pointer,
       (<<2>> \o Two(PmtSection(p), 176) \o <<0, 1, 193, 0, 0, 225, 44>> \o Two(p.info, 240)
          \o Byte(27, p.info))
         \o FlattenSeq([i \in DOMAIN p.streams |-> Entry(p.streams[i])]), <<27, 225, 9, 240>>)
\* A PES packet begins, or goes on; an adaptation field fills what it leaves.
PesBytes(p) ==
  LET Unit(n) == Byte(0, n.code - 1) \o <<1, n.header>> \o Byte(136, n.body)
      es == FlattenSeq([i \in DOMAIN p.nals |-> Unit(p.nals[i])])
      payload == IF p.starts
                   THEN (<<0, 0, 1, 224, 0, 0, 128, 128, p.hdr>> \o Byte(33, p.hdr)) \o es
                   ELSE es
      free == PacketLength - 4 - Len(payload)
      field == IF free > 0 THEN <<free - 1>> \o Byte(255, free - 1) ELSE <<>>
  IN Cut((Header(p.pid, p.starts, free > 0) \o field) \o payload, PacketLength)
BytesOf(p) == CASE p.kind = "pat" -> PatBytes(p)
                [] p.kind = "pmt" -> PmtBytes(p)
                [] OTHER -> PesBytes(p)

-----------------------------------------------------------------------------
\* What a packet says: the program of a PAT, the streams of a PMT, of the entries
\* that are in the packet.
Room(p) == PacketLength - 4 - 1 - p.pointer
Announced(p) ==
  LET InPacket == {i \in DOMAIN p.programs : /\ p.programs[i].number # 0
                                              /\ 8 + Ends(PatLengths(p))[i] <= Room(p)}
  IN IF InPacket = {} THEN told.pmt ELSE p.programs[Min(InPacket)].pid
\* The fixed part of an entry is in the packet.
FirstOf(p, types, else) ==
  LET InPacket == {i \in DOMAIN p.streams :
                     /\ p.streams[i].type \in types
                     /\ 12 + p.info + Ends(PmtLengths(p))[i - 1] + 5 <= Room(p)}
  IN IF InPacket = {} THEN else ELSE p.streams[Min(InPacket)].pid

\* A keyframe begins in a packet, or what is mistaken for it: the header of the
\* NAL unit is there, and is not the last byte after a short start code.
BeginsKeyframe(p) ==
  LET room == PacketLength - 4 - 9 - p.hdr
      all == All(NalLengths(p))
      es == IF all < room THEN all ELSE room
  IN p.starts /\ \E i \in DOMAIN p.nals :
       LET nal == p.nals[i]
           header == Ends(NalLengths(p))[i - 1] + nal.code IN
         /\ nal.header \in Key[p.codec] \cup Mistaken[p.codec]
         /\ header < es /\ (nal.code = 3 => header < es - 1)

MuxInit ==
  /\ AlignerInit /\ ParserInit
  /\ told = [pmt |-> 0, video |-> 0, audio |-> 0]
  /\ expected = FALSE

\* A behaviour feeds the aligner, or has packets inspected.
Aligns ==
  /\ parserVars = <<0, 0, 0, FALSE>>
  /\ AlignerNext /\ UNCHANGED <<parserVars, told, expected>>
InspectPat == \E p \in PATs :
  /\ stream = <<>> /\ Inspect(BytesOf(p))
  /\ told' = [told EXCEPT !.pmt = Announced(p)] /\ expected' = FALSE
  /\ UNCHANGED alignerVars
InspectPmt == \E p \in PMTs :
  /\ stream = <<>> /\ Inspect(BytesOf(p))
  /\ told' = IF p.pid = told.pmt
                THEN [told EXCEPT !.video = FirstOf(p, {36, 27}, @),
                                   !.audio = FirstOf(p, {15, 17, 3, 4}, @)]
                ELSE told
  /\ expected' = FALSE
  /\ UNCHANGED alignerVars
InspectPes == \E p \in PESs :
  /\ stream = <<>> /\ Inspect(BytesOf(p))
  /\ expected' = (p.pid = told.video /\ BeginsKeyframe(p))
  /\ UNCHANGED <<alignerVars, told>>

MuxNext == Aligns \/ InspectPat \/ InspectPmt \/ InspectPes
MuxSpec == MuxInit /\ [][MuxNext]_muxVars

\* The switcher knows the PIDs the tables announce: of the first program of the
\* last PAT that has one, and of the first video and audio of its last PMT that
\* has one - those whose entries are in the packet - whatever the pointer
\* fields, descriptors and CRCs hold, and whichever way the program changes.
TablesFound == [pmt |-> pmtPID, video |-> videoPID, audio |-> audioPID] = told

\* Every packet in which a keyframe of the program's video begins is taken for
\* one, and no other - but for the kinds of slices and units listed as Mistaken,
\* and the header that is cut off after a short start code.
KeyframesFound == keyframe = expected
=============================================================================
