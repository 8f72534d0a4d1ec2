---------------------------- MODULE PacketAligner ----------------------------
(***************************************************************************)
(* PacketAligner of tsparser.go, as readInputLoop uses it: what a read of  *)
(* FFmpeg's output brings is fed, and packets are taken until there is     *)
(* none.  A read ends anywhere.                                            *)
(***************************************************************************)
EXTENDS Integers, Sequences, SequencesExt, FiniteSetsExt

CONSTANTS
  PacketSize,   \* tsPacketSize
  Bytes, Sync,  \* tsSyncByte, one of the bytes
  MaxRead,      \* bound on the bytes of a read
  MaxStream     \* bound on the bytes of the stream
ASSUME AlignerAssumption ==
  {PacketSize, MaxRead, MaxStream} \subseteq Nat \ {0} /\ Sync \in Bytes

VARIABLES
  buf, synced,  \* the aligner
  taking,       \* readInputLoop is taking packets
  stream,       \* history: every byte read
  out           \* the packets sent to the channel of the input

alignerVars == <<buf, synced, taking, stream, out>>

AlignerInit ==
  buf = <<>> /\ synced = FALSE /\ taking = FALSE /\ stream = <<>> /\ out = <<>>

Feed(data) ==
  /\ ~taking
  /\ Len(stream) + Len(data) <= MaxStream
  /\ buf' = buf \o data
  /\ stream' = stream \o data
  /\ taking' = TRUE
  /\ UNCHANGED <<synced, out>>

From(s, i) == SubSeq(s, i, Len(s))
\* The first sync byte that another one follows a packet later, or 0.
SyncIdx(s) ==
  LET Found == {i \in 1..Len(s) - PacketSize : s[i] = Sync /\ s[i + PacketSize] = Sync} IN
    IF Found = {} THEN 0 ELSE Min(Found)

\* Next, which looks for the beginning of a packet when it is not synced, or
\* when what it has does not begin with a sync byte ...
Begins == synced /\ buf # <<>> /\ buf[1] = Sync
Start == IF Begins THEN 1 ELSE SyncIdx(buf)
HasPacket == Len(buf) >= PacketSize /\ Start > 0 /\ Len(buf) - Start + 1 >= PacketSize
\* ... and returns one, ...
NextPacket ==
  /\ taking /\ HasPacket
  /\ LET aligned == From(buf, Start) IN
       /\ out' = Append(out, SubSeq(aligned, 1, PacketSize))
       /\ buf' = From(aligned, PacketSize + 1)
  /\ synced' = TRUE
  /\ UNCHANGED <<taking, stream>>
\* ... or nothing: it keeps what can still be the beginning of one.
NextNothing_KeepsLess ==
  /\ taking /\ ~HasPacket
  /\ taking' = FALSE
  /\ IF Len(buf) < PacketSize
       THEN UNCHANGED <<buf, synced>>
       ELSE buf' = From(buf, Len(buf) - PacketSize + 2) /\ synced' = FALSE
  /\ UNCHANGED <<stream, out>>
NextNothing ==
  /\ taking /\ ~HasPacket
  /\ taking' = FALSE
  /\ IF Len(buf) < PacketSize
       THEN UNCHANGED <<buf, synced>>
       ELSE buf' = From(buf, Len(buf) - PacketSize + 1) /\ synced' = FALSE
  /\ UNCHANGED <<stream, out>>

Reads == UNION {[1..n -> Bytes] : n \in 1..MaxRead}
AlignerNext == (\E data \in Reads : Feed(data)) \/ NextPacket \/ NextNothing

-----------------------------------------------------------------------------
\* Where the packets of a whole stream begin: one after the other, as long as
\* each begins with a sync byte, and from the first pair of sync bytes else.
End(s) == Len(s) - PacketSize + 1
Pairs(s, p) == {q \in p..End(s) - 1 : s[q] = Sync /\ s[q + PacketSize] = Sync}
InStepAt(s) ==
  LET At[p \in 1..Len(s) + 1] ==
        IF p > End(s) THEN <<>>
        ELSE IF s[p] = Sync THEN <<p>> \o At[p + PacketSize]
        ELSE IF Pairs(s, p) = {} THEN <<>> ELSE At[Min(Pairs(s, p))]
  IN At
Starts ==
  IF Pairs(stream, 1) = {} THEN <<>> ELSE InStepAt(stream)[Min(Pairs(stream, 1))]

\* Wherever the reads cut the stream, the packets are those of the whole stream,
\* in order and without a gap the stream does not have; and the aligner holds on
\* to no more than a packet.
Aligned ==
  ~taking =>
    /\ out = [k \in DOMAIN Starts |-> SubSeq(stream, Starts[k], Starts[k] + PacketSize - 1)]
    /\ Len(buf) <= PacketSize
=============================================================================
