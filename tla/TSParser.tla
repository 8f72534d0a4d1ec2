------------------------------ MODULE TSParser ------------------------------
(***************************************************************************)
(* tsparser.go on the bytes of a packet, as containsKeyframe (switcher.go) *)
(* uses it: what the switcher learns of the stream from its tables, and    *)
(* which packets it takes for the beginning of a keyframe.                 *)
(*                                                                         *)
(* A packet is a sequence of bytes with the fields where the format has    *)
(* them, the length of tsPacketSize, and B(p, i) is p[i] of the source.    *)
(* The packets are those of a multiplexer: an adaptation field stays       *)
(* within its packet.                                                      *)
(***************************************************************************)
EXTENDS Integers, Sequences, FiniteSetsExt

VARIABLES pmtPID, videoPID, audioPID,   \* of the Switcher
          keyframe                      \* what containsKeyframe returned last

parserVars == <<pmtPID, videoPID, audioPID, keyframe>>

B(p, i) == p[i + 1]
Rest(p, i) == SubSeq(p, i + 1, Len(p))
Bits(byte, low, n) == (byte \div 2^low) % 2^n
Word(p, i, n) == Bits(B(p, i), 0, n) * 256 + B(p, i + 1)

-----------------------------------------------------------------------------
ParseTSPacket(p) ==
  [PID |-> Word(p, 1, 5),
   PUSI |-> Bits(B(p, 1), 6, 1) = 1,
   HasPayload |-> Bits(B(p, 3), 4, 1) = 1,
   PayloadOffset |-> 4 + IF Bits(B(p, 3), 5, 1) = 1 THEN 1 + B(p, 4) ELSE 0]

\* The section of a table after its pointer field, and where its entries end.
Section(p) == Rest(p, 1 + B(p, 0))
SectionEnd(s) == 3 + Word(s, 1, 4) - 4

\* The entries of a PAT: four bytes each, the program and its PID.
ParsePAT_First(p) ==
  LET s == Section(p) IN
    IF Len(s) < 12 \/ B(s, 0) # 0 THEN 0 ELSE Word(s, 10, 5)
ParsePAT(p) ==
  LET s == Section(p)
      Entries == {o \in {8 + 4 * k : k \in 0..Len(s)} :
                     /\ o + 4 <= SectionEnd(s) /\ o + 4 <= Len(s)
                     /\ Word(s, o, 8) # 0}
  IN IF \/ Len(p) < 8 \/ Len(s) < 8
        \/ B(s, 0) # 0 \/ Word(s, 1, 4) < 9 \/ Entries = {}
       THEN 0
       ELSE Word(s, Min(Entries) + 2, 5)

\* The entries of a PMT: its streams, each as long as its descriptors.
Streams(p) ==
  LET s == Section(p)
      From[o \in Nat] ==
        IF o + 5 > SectionEnd(s) \/ o + 5 > Len(s) THEN <<>>
        ELSE <<[type |-> B(s, o), pid |-> Word(s, o + 1, 5)]>>
               \o From[o + 5 + Word(s, o + 3, 4)]
  IN IF Len(p) < 12 \/ Len(s) < 12 \/ B(s, 0) # 2
       THEN <<>>
       ELSE From[12 + Word(s, 10, 4)]
VideoTypes == {36, 27}           \* H.265 and H.264
AudioTypes == {15, 17, 3, 4}     \* AAC and MPEG audio
FirstPID(streams, types) ==
  LET Those == {i \in DOMAIN streams : streams[i].type \in types /\ streams[i].pid # 0} IN
    IF Those = {} THEN 0 ELSE streams[Min(Those)].pid
ParsePMT(p) == [video |-> FirstPID(Streams(p), VideoTypes),
                audio |-> FirstPID(Streams(p), AudioTypes)]

\* The headers of the NAL units of p: after each start code of three bytes, with
\* or without a zero before it, that begins before the last four bytes.
NalStarts(p) ==
  {n \in 3..Len(p) - 1 :
     /\ B(p, n - 3) = 0 /\ B(p, n - 2) = 0 /\ B(p, n - 1) = 1
     /\ n - 3 < Len(p) - 4 \/ (n > 3 /\ B(p, n - 4) = 0)}
\* Read as H.264, and as H.265.
NalKey(header) ==
  \/ Bits(header, 0, 5) \in {5, 7, 8}
  \/ Bits(header, 1, 6) \in 16..21 \cup 32..34
IsKeyframe_First(p) ==
  NalStarts(p) # {} /\ NalKey(B(p, Min(NalStarts(p))))
IsKeyframe(p) == \E n \in NalStarts(p) : NalKey(B(p, n))

\* nil is <<>>.
ExtractPESPayload(p, offset) ==
  LET pes == Rest(p, offset) IN
    IF \/ Len(pes) < 9
       \/ B(pes, 0) # 0 \/ B(pes, 1) # 0 \/ B(pes, 2) # 1
       \/ 9 + B(pes, 8) >= Len(pes)
      THEN <<>>
      ELSE Rest(pes, 9 + B(pes, 8))

-----------------------------------------------------------------------------
\* containsKeyframe, on one packet: the tables first, then the video.
Learned(p) ==
  LET info == ParseTSPacket(p)
      payload == Rest(p, info.PayloadOffset)
      table == info.PUSI /\ info.HasPayload
      pat == IF info.PID = 0 /\ table THEN ParsePAT(payload) ELSE 0
      pmt == IF pat # 0 THEN pat ELSE pmtPID
      pids == IF pmt # 0 /\ info.PID = pmt /\ table THEN ParsePMT(payload)
              ELSE [video |-> 0, audio |-> 0]
  IN [pmt |-> pmt,
      video |-> IF pids.video # 0 THEN pids.video ELSE videoPID,
      audio |-> IF pids.audio # 0 THEN pids.audio ELSE audioPID]
ContainsKeyframe(p, video) ==
  LET info == ParseTSPacket(p)
      pes == ExtractPESPayload(p, info.PayloadOffset)
  IN info.PID = video /\ video # 0 /\ info.PUSI /\ info.HasPayload /\ pes # <<>> /\ IsKeyframe(pes)

ParserInit == pmtPID = 0 /\ videoPID = 0 /\ audioPID = 0 /\ keyframe = FALSE

Inspect(p) ==
  LET learned == Learned(p) IN
    /\ pmtPID' = learned.pmt /\ videoPID' = learned.video /\ audioPID' = learned.audio
    /\ keyframe' = ContainsKeyframe(p, learned.video)
=============================================================================
