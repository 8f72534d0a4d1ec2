------------------------- MODULE PTSRemapperProofs -------------------------
(***************************************************************************)
(* What the timestamps of the programme keep for any width, scale, frame   *)
(* duration, jump and lag, checked by TLAPS.                               *)
(***************************************************************************)
EXTENDS PTSRemapper, TLAPS

-----------------------------------------------------------------------------
(* Numbers on a dial.                                                      *)

\* The constants are as they need to be.
LEMMA ConstantsOK ==
  /\ Wrap \in Nat /\ Wrap > 0 /\ Scale \in Nat /\ Scale > 0 /\ PcrFrame \in Nat
  /\ Frame \in Nat /\ Frame > 0 /\ Jump \in Nat /\ Lag \in Nat
  /\ 2 * Frame < Wrap /\ 2 * Jump < Wrap
  BY RemapperAssumption DEF RemapperAssumption

\* Division with remainder.
LEMMA DivMod ==
  ASSUME NEW w \in Int, w > 0, NEW x \in Int
  PROVE  /\ x \div w \in Int /\ x % w \in Int
         /\ 0 <= x % w /\ x % w < w
         /\ x = w * (x \div w) + (x % w)
<1>1. x = w * (x \div w) + (x % w)
  BY SMTT(30)
<1>2. QED
  BY <1>1

\* Numbers in one turn of the dial that are whole turns apart are the same.
LEMMA SameTurn ==
  ASSUME NEW w \in Int, w > 0, NEW r \in Int, NEW s \in Int,
         0 <= r, r < w, 0 <= s, s < w,
         NEW p \in Int, NEW q \in Int, w * p + r = w * q + s
  PROVE  r = s
<1>1. w * p \in Int /\ w * q \in Int
  OBVIOUS
<1>2. ~(q >= p + 1)
  <2> SUFFICES ASSUME q >= p + 1 PROVE FALSE
    OBVIOUS
  <2>1. w * q >= w * p + w
    OBVIOUS
  <2>2. QED
    BY <1>1, <2>1
<1>3. ~(p >= q + 1)
  <2> SUFFICES ASSUME p >= q + 1 PROVE FALSE
    OBVIOUS
  <2>1. w * p >= w * q + w
    OBVIOUS
  <2>2. QED
    BY <1>1, <2>1
<1>4. p = q
  BY <1>2, <1>3
<1>5. QED
  BY <1>1, <1>4

\* The remainder of a number a known number of turns up is what is left.
LEMMA Remainder ==
  ASSUME NEW w \in Int, w > 0, NEW r \in Int, 0 <= r, r < w, NEW k \in Int
  PROVE  (w * k + r) % w = r
<1> DEFINE x == w * k + r
           q == x \div w
           s == x % w
<1>1. x \in Int
  OBVIOUS
<1>2. q \in Int /\ s \in Int /\ 0 <= s /\ s < w /\ x = w * q + s
  BY <1>1, DivMod
<1>3. w * k + r = w * q + s
  BY <1>2
<1> HIDE DEF q, s
<1>4. s = r
  BY <1>2, <1>3, SameTurn
<1>5. QED
  BY <1>4 DEF s

\* A hand of the dial that is moved by less than a turn.
LEMMA Moved ==
  ASSUME NEW w \in Int, w > 0, NEW x \in Int, NEW d \in Int, -w < d, d < w
  PROVE  /\ (x + d) % w \in {(x % w) + d, (x % w) + d - w, (x % w) + d + w}
         /\ (x + d) % w \in Int /\ 0 <= (x + d) % w /\ (x + d) % w < w
         /\ x % w \in Int /\ 0 <= x % w /\ x % w < w
<1> DEFINE q == x \div w
           r == x % w
<1>1. q \in Int /\ r \in Int /\ 0 <= r /\ r < w /\ x = w * q + r
  BY DivMod
<1>2. /\ (x + d) % w \in Int /\ 0 <= (x + d) % w /\ (x + d) % w < w
  BY DivMod
<1> HIDE DEF q, r
<1>3. CASE 0 <= r + d /\ r + d < w
  <2>1. x + d = w * q + (r + d)
    BY <1>1
  <2>2. (w * q + (r + d)) % w = r + d
    BY <1>1, <1>3, Remainder
  <2>3. QED
    BY <1>1, <1>2, <2>1, <2>2 DEF r
<1>4. CASE r + d >= w
  <2> DEFINE k == q + 1
             t == r + d - w
  <2>1. k \in Int /\ t \in Int /\ 0 <= t /\ t < w
    BY <1>1, <1>4
  <2>2. x + d = w * k + t
    BY <1>1
  <2> HIDE DEF k, t
  <2>3. (w * k + t) % w = t
    BY <2>1, Remainder
  <2>4. QED
    BY <1>1, <1>2, <2>2, <2>3 DEF r, t
<1>5. CASE r + d < 0
  <2> DEFINE k == q - 1
             t == r + d + w
  <2>1. k \in Int /\ t \in Int /\ 0 <= t /\ t < w
    BY <1>1, <1>5
  <2>2. x + d = w * k + t
    BY <1>1
  <2> HIDE DEF k, t
  <2>3. (w * k + t) % w = t
    BY <2>1, Remainder
  <2>4. QED
    BY <1>1, <1>2, <2>2, <2>3 DEF r, t
<1>6. QED
  BY <1>1, <1>3, <1>4, <1>5

\* A number within the first turn is where it is.
LEMMA InTurn ==
  ASSUME NEW w \in Int, w > 0, NEW r \in Int, 0 <= r, r < w
  PROVE  r % w = r
<1>1. (w * 0 + r) % w = r
  BY Remainder
<1>2. w * 0 + r = r
  OBVIOUS
<1>3. QED
  BY <1>1, <1>2

\* How far one time is ahead of another.
LEMMA AheadIs ==
  ASSUME NEW a \in Stamps, NEW b \in Stamps
  PROVE  Ahead(a, b) = IF b >= a THEN b - a ELSE b - a + Wrap
<1>1. a \in Int /\ b \in Int /\ 0 <= a /\ a < Wrap /\ 0 <= b /\ b < Wrap
  BY ConstantsOK DEF Stamps
<1>2. CASE b >= a
  BY <1>1, <1>2, InTurn, ConstantsOK DEF Ahead
<1>3. CASE b < a
  <2>1. b - a = Wrap * (-1) + (b - a + Wrap)
    BY <1>1, ConstantsOK
  <2>2. (Wrap * (-1) + (b - a + Wrap)) % Wrap = b - a + Wrap
    BY <1>1, <1>3, Remainder, ConstantsOK
  <2>3. QED
    BY <1>1, <1>3, <2>1, <2>2 DEF Ahead
<1>4. QED
  BY <1>1, <1>2, <1>3

-----------------------------------------------------------------------------
(* Types.                                                                  *)

Fields == [lastPCR : Nat, lastPTS : Stamps, lastIn : Stamps,
           offset : Int, offsetSet : BOOLEAN]

\* The clock of a source is a time of its own dial.
LEMMA SourcePacketsTypes == SourcePackets \subseteq Times
<1>1. ASSUME NEW t \in Stamps PROVE PcrAt(t) \in Clocks
  <2> DEFINE c == (t - Lag) % Wrap
  <2>1. t \in Int /\ Lag \in Int /\ Wrap \in Int /\ Wrap > 0 /\ Scale \in Int /\ Scale > 0
    BY ConstantsOK DEF Stamps
  <2>2. c \in Int /\ 0 <= c /\ c < Wrap
    BY <2>1, DivMod
  <2> HIDE DEF c
  <2>3. 0 <= Scale * c /\ Scale * c <= Scale * (Wrap - 1)
    BY <2>1, <2>2
  <2>4. Scale * (Wrap - 1) < Wrap * Scale
    BY <2>1
  <2>5. Scale * c \in Int /\ Scale * (Wrap - 1) \in Int /\ Wrap * Scale \in Int
    BY <2>1, <2>2
  <2>6. Scale * c \in 0..(Wrap * Scale - 1)
    BY <2>3, <2>4, <2>5
  <2>7. QED
    BY <2>6 DEF c, PcrAt, Clocks
<1>2. 0 \in Stamps /\ 0 \in Clocks
  <2>1. Wrap * Scale > 0 /\ Wrap * Scale \in Int
    BY ConstantsOK
  <2>2. QED
    BY <2>1, ConstantsOK DEF Stamps, Clocks
<1>3. QED
  BY <1>1, <1>2 DEF SourcePackets, Times

\* What Seen reads is a timestamp.
LEMMA SeenTypes == ASSUME NEW p \in Times PROVE Seen(p) \in Stamps
<1>1. 0 \in Stamps
  BY ConstantsOK DEF Stamps
<1>2. QED
  BY <1>1 DEF Seen, Times

\* The operations keep the types.
LEMMA AlignTypes ==
  ASSUME NEW r \in Fields, NEW last \in Int, NEW first \in Int, NEW frame \in Int
  PROVE  Align(r, last, first, frame) \in Fields
<1> DEFINE o == last - first + frame
<1>1. o \in Int
  OBVIOUS
<1> HIDE DEF o
<1>2. [r EXCEPT !.offset = o, !.offsetSet = TRUE] \in Fields
  BY <1>1, Zenon DEF Fields
<1>3. QED
  BY <1>2 DEF Align, o

LEMMA PrepareTypes ==
  ASSUME NEW r \in Fields, NEW p \in Times
  PROVE  PrepareSwitch(r, p) \in Fields
<1>1. Seen(p) \in Int
  BY SeenTypes DEF Stamps
<1>2. r.lastPTS \in Int /\ r.lastPCR \in Int /\ p.pcr \in Int
  BY DEF Fields, Times, Stamps, Clocks
<1>3. Frame \in Int /\ PcrFrame \in Int
  BY ConstantsOK
<1>4. QED
  BY <1>1, <1>2, <1>3, AlignTypes DEF PrepareSwitch

LEMMA TrackTypes ==
  ASSUME NEW r \in Fields, NEW p \in Times
  PROVE  TrackOutgoing(r, p) \in Fields
<1>1. Seen(p) \in Stamps
  BY SeenTypes
<1>2. p.pcr \in Nat
  BY DEF Times, Clocks
<1>3. QED
  BY <1>1, <1>2 DEF TrackOutgoing, Fields

LEMMA FollowTypes ==
  ASSUME NEW r \in Fields, NEW p \in Times
  PROVE  FollowIncoming(r, p) \in Fields
<1>1. Seen(p) \in Stamps /\ Seen(p) \in Int
  BY SeenTypes DEF Stamps
<1>2. r.lastPTS \in Int /\ Frame \in Int
  BY ConstantsOK DEF Fields, Stamps
<1>3. Align(r, r.lastPTS, Seen(p), Frame) \in Fields
  BY <1>1, <1>2, AlignTypes
<1>4. QED
  BY <1>1, <1>3 DEF FollowIncoming, Fields

LEMMA ShiftedTypes ==
  ASSUME NEW r \in Fields, NEW p \in Times
  PROVE  ShiftedPTS(r, p) \in Stamps
<1>1. p.pts \in Stamps /\ p.pts + r.offset \in Int
  BY DEF Times, Fields, Stamps
<1>2. (p.pts + r.offset) % Wrap \in Stamps
  BY <1>1, ConstantsOK, DivMod DEF Stamps
<1>3. QED
  BY <1>1, <1>2 DEF ShiftedPTS

LEMMA PcrSumTypes ==
  ASSUME NEW r \in Fields, NEW p \in Times
  PROVE  /\ PcrSum(r, p) \in Int
         /\ PcrSum(r, p) % (Wrap * Scale) \in Clocks
<1>1. PcrSum(r, p) \in Int
  BY ConstantsOK DEF Times, Clocks, Fields, PcrSum
<1>2. Wrap * Scale \in Int /\ Wrap * Scale > 0
  BY ConstantsOK
<1> DEFINE m == Wrap * Scale
<1>3. m \in Int /\ m > 0
  BY <1>2
<1> HIDE DEF m
<1>4. PcrSum(r, p) % m \in 0..(m - 1)
  BY <1>1, <1>3, DivMod
<1>5. QED
  BY <1>1, <1>4 DEF m, Clocks

LEMMA RemapTypes ==
  ASSUME NEW r \in Fields, NEW p \in Times
  PROVE  Remap(r, p).fields \in Fields /\ Remap(r, p).packet \in Times
<1> DEFINE f == FollowIncoming(r, p)
<1>1. f \in Fields
  BY FollowTypes
<1> HIDE DEF f
<1>2. /\ PcrSum(f, p) \in Int
      /\ PcrSum(f, p) % (Wrap * Scale) \in Clocks
      /\ ShiftedPTS(f, p) \in Stamps
  BY <1>1, PcrSumTypes, ShiftedTypes
<1>3. MovesPCR(f, p) => PcrSum(f, p) \in Nat
  BY <1>2 DEF MovesPCR
<1>4. p.pcr \in Clocks
  BY DEF Times
<1>5. [f EXCEPT !.lastPCR = IF MovesPCR(f, p) THEN PcrSum(f, p) ELSE @] \in Fields
  BY <1>1, <1>3 DEF Fields
<1>6. [pts |-> ShiftedPTS(f, p),
       pcr |-> IF MovesPCR(f, p) THEN PcrSum(f, p) % (Wrap * Scale) ELSE p.pcr]
         \in Times
  BY <1>2, <1>4 DEF Times
<1>7. QED
  BY <1>5, <1>6 DEF Remap, f

\* The types of all variables.
THEOREM TypeCorrect == RemapperSpec => []RemapperTypeOK
<1>1. Nothing \in Times /\ Cleared \in Fields /\ 0 \in Stamps
  <2>1. 0 \in Stamps
    BY ConstantsOK DEF Stamps
  <2>2. Wrap * Scale \in Int /\ Wrap * Scale > 0
    BY ConstantsOK
  <2>3. 0 \in Clocks
    BY <2>2 DEF Clocks
  <2>4. QED
    BY <2>1, <2>3 DEF Nothing, Cleared, Times, Fields
<1>2. RemapperInit => RemapperTypeOK
  <2> SUFFICES ASSUME RemapperInit PROVE RemapperTypeOK
    OBVIOUS
  <2>1. remapper \in Fields /\ raw \in Stamps /\ pipe \in {"fallback", "srt", "bridge"}
    BY <1>1 DEF RemapperInit
  <2>2. known \in BOOLEAN
    BY DEF RemapperInit
  <2>3. air \in [in : Times, out : Times, seen : BOOLEAN]
    BY <1>1, Zenon DEF RemapperInit
  <2>4. QED
    BY <2>1, <2>2, <2>3 DEF RemapperTypeOK, Fields
<1>3. RemapperTypeOK /\ [RemapperNext]_remapperVars => RemapperTypeOK'
  <2> SUFFICES ASSUME RemapperTypeOK, [RemapperNext]_remapperVars PROVE RemapperTypeOK'
    OBVIOUS
  <2>1. remapper \in Fields
    BY DEF RemapperTypeOK, Fields
  <2>2. ASSUME NEW in \in Times, NEW out \in Times, GoesOut(in, out)
        PROVE  raw' \in Stamps /\ air' \in [in : Times, out : Times, seen : BOOLEAN]
    BY <2>2 DEF GoesOut, RemapperTypeOK, Times
  <2>3. CASE Pass
    <3>1. PICK p \in SourcePackets :
            LET result == Remap(remapper, p) IN
            /\ remapper' = TrackOutgoing(result.fields, result.packet)
            /\ GoesOut(p, result.packet)
            /\ UNCHANGED <<known, pipe>>
      BY <2>3 DEF Pass
    <3>2. p \in Times
      BY SourcePacketsTypes
    <3>3. Remap(remapper, p).fields \in Fields /\ Remap(remapper, p).packet \in Times
      BY <2>1, <3>2, RemapTypes
    <3>4. remapper' \in Fields
      BY <3>1, <3>3, TrackTypes
    <3>5. QED
      BY <2>2, <3>1, <3>2, <3>3, <3>4 DEF RemapperTypeOK, Fields
  <2>4. CASE JoinKeyframe
    <3>1. PICK p \in SourcePackets :
            LET result == Remap(PrepareSwitch(remapper, p), p) IN
            /\ remapper' = result.fields
            /\ GoesOut(p, result.packet)
      BY <2>4 DEF JoinKeyframe
    <3>2. p \in Times
      BY SourcePacketsTypes
    <3>3. PrepareSwitch(remapper, p) \in Fields
      BY <2>1, <3>2, PrepareTypes
    <3>4. /\ Remap(PrepareSwitch(remapper, p), p).fields \in Fields
          /\ Remap(PrepareSwitch(remapper, p), p).packet \in Times
      BY <3>2, <3>3, RemapTypes
    <3>5. remapper' \in Fields
      BY <3>1, <3>4
    <3>6. QED
      BY <2>2, <2>4, <3>1, <3>2, <3>4, <3>5 DEF JoinKeyframe, RemapperTypeOK, Fields
  <2>5. CASE JoinBridge
    <3>1. PICK p \in SourcePackets : remapper' = PrepareSwitch(remapper, p)
      BY <2>5 DEF JoinBridge
    <3>2. p \in Times
      BY SourcePacketsTypes
    <3>3. remapper' \in Fields
      BY <2>1, <3>1, <3>2, PrepareTypes
    <3>4. QED
      BY <1>1, <2>5, <3>3 DEF JoinBridge, RemapperTypeOK, Fields
  <2>6. CASE Promote
    BY <1>1, <2>6 DEF Promote, RemapperTypeOK
  <2>7. CASE Exit
    BY <1>1, <2>7 DEF Exit, RemapperTypeOK, Fields
  <2>8. CASE SetPIDs
    BY <2>8 DEF SetPIDs, RemapperTypeOK
  <2>9. CASE UNCHANGED remapperVars
    BY <2>9 DEF remapperVars, RemapperTypeOK
  <2>10. QED
    BY <2>3, <2>4, <2>5, <2>6, <2>7, <2>8, <2>9 DEF RemapperNext
<1>4. QED
  BY <1>2, <1>3, PTL DEF RemapperSpec

-----------------------------------------------------------------------------
(* What one packet does to the fields, and the fields to it.               *)

\* A packet without a PTS that is seen leaves all but the last PCR.
LEMMA RemapUnseen ==
  ASSUME NEW r \in Fields, NEW p \in Times, Seen(p) = 0
  PROVE  /\ Remap(r, p).fields.lastPTS = r.lastPTS
         /\ Remap(r, p).fields.lastIn = r.lastIn
         /\ Remap(r, p).fields.offset = r.offset
         /\ Remap(r, p).fields.offsetSet = r.offsetSet
         /\ Remap(r, p).packet.pts = p.pts
<1>1. FollowIncoming(r, p) = r
  BY DEF FollowIncoming
<1>2. ShiftedPTS(r, p) = p.pts
  BY DEF ShiftedPTS
<1>3. QED
  BY <1>1, <1>2 DEF Remap, Fields

\* A packet with one is shifted by the offset it leaves.
LEMMA RemapSeen ==
  ASSUME NEW r \in Fields, NEW p \in Times, known, p.pts > 0
  PROVE  LET f == Remap(r, p).fields
             jumped == Jumped(r, p) /\ r.lastPTS > 0 IN
         /\ f.lastPTS = r.lastPTS
         /\ f.lastIn = p.pts
         /\ f.offset = IF jumped THEN r.lastPTS - p.pts + Frame ELSE r.offset
         /\ f.offsetSet = IF jumped THEN TRUE ELSE r.offsetSet
         /\ Remap(r, p).packet.pts = IF f.offsetSet /\ p.pts + f.offset > 0
                                       THEN (p.pts + f.offset) % Wrap ELSE p.pts
<1> DEFINE g == FollowIncoming(r, p)
<1>1. Seen(p) = p.pts /\ Seen(p) # 0 /\ Seen(p) > 0
  BY DEF Seen, Times, Stamps
<1>2. g \in Fields
  BY FollowTypes
<1>3. /\ g.lastPTS = r.lastPTS
      /\ g.lastIn = p.pts
      /\ g.offset = IF Jumped(r, p) /\ r.lastPTS > 0
                      THEN r.lastPTS - p.pts + Frame ELSE r.offset
      /\ g.offsetSet = IF Jumped(r, p) /\ r.lastPTS > 0 THEN TRUE ELSE r.offsetSet
  <2>1. CASE Jumped(r, p) /\ r.lastPTS > 0
    BY <1>1, <2>1 DEF FollowIncoming, Align, Fields
  <2>2. CASE ~(Jumped(r, p) /\ r.lastPTS > 0)
    BY <1>1, <2>2 DEF FollowIncoming, Fields
  <2>3. QED
    BY <2>1, <2>2
<1>4. ShiftedPTS(g, p) = IF g.offsetSet /\ p.pts + g.offset > 0
                           THEN (p.pts + g.offset) % Wrap ELSE p.pts
  BY <1>1 DEF ShiftedPTS
<1> HIDE DEF g
<1>5. /\ Remap(r, p).fields.lastPTS = g.lastPTS
      /\ Remap(r, p).fields.lastIn = g.lastIn
      /\ Remap(r, p).fields.offset = g.offset
      /\ Remap(r, p).fields.offsetSet = g.offsetSet
      /\ Remap(r, p).packet.pts = ShiftedPTS(g, p)
  BY <1>2 DEF Remap, g, Fields
<1>6. QED
  BY <1>3, <1>4, <1>5

\* One that is aligned goes out a frame after the last that was tracked.
LEMMA AlignedOut ==
  ASSUME NEW r \in Fields, NEW p \in Times, known, p.pts > 0, r.lastPTS > 0,
         \/ Jumped(r, p)
         \/ r.offsetSet /\ r.offset = r.lastPTS - p.pts + Frame
  PROVE  Remap(r, p).packet.pts = (r.lastPTS + Frame) % Wrap
<1> DEFINE f == Remap(r, p).fields
<1>1. f.offsetSet /\ f.offset = r.lastPTS - p.pts + Frame
  BY RemapSeen
<1>2. r.lastPTS \in Int /\ p.pts \in Int /\ Frame \in Int /\ Frame > 0
  BY ConstantsOK DEF Fields, Times, Stamps
<1>3. Remap(r, p).packet.pts = IF f.offsetSet /\ p.pts + f.offset > 0
                                 THEN (p.pts + f.offset) % Wrap ELSE p.pts
  BY RemapSeen
<1> HIDE DEF f
<1>4. p.pts + f.offset = r.lastPTS + Frame
  BY <1>1, <1>2
<1>5. p.pts + f.offset > 0
  BY <1>2, <1>4
<1>6. QED
  BY <1>1, <1>3, <1>4, <1>5

\* PrepareSwitch changes the offset alone; where it has two PTS it is the
\* distance between them and a frame.
LEMMA PrepareIs ==
  ASSUME NEW r \in Fields, NEW p \in Times
  PROVE  /\ PrepareSwitch(r, p).lastPTS = r.lastPTS
         /\ PrepareSwitch(r, p).lastIn = r.lastIn
         /\ r.lastPTS > 0 /\ Seen(p) > 0 =>
              /\ PrepareSwitch(r, p).offsetSet
              /\ PrepareSwitch(r, p).offset = r.lastPTS - Seen(p) + Frame
  BY DEF PrepareSwitch, Align, Fields

\* TrackOutgoing takes the PTS it sees.
LEMMA TrackIs ==
  ASSUME NEW r \in Fields, NEW p \in Times
  PROVE  LET t == TrackOutgoing(r, p) IN
         /\ t.lastPTS = IF Seen(p) > 0 THEN Seen(p) ELSE r.lastPTS
         /\ t.lastIn = r.lastIn /\ t.offset = r.offset /\ t.offsetSet = r.offsetSet
  BY DEF TrackOutgoing, Fields

\* The keyframe that joins is aligned, whatever the clock it comes with.
LEMMA JoinOut ==
  ASSUME NEW r \in Fields, NEW p \in Times, known, p.pts > 0, r.lastPTS > 0
  PROVE  Remap(PrepareSwitch(r, p), p).packet.pts = (r.lastPTS + Frame) % Wrap
<1>1. Seen(p) = p.pts
  BY DEF Seen
<1> DEFINE s == PrepareSwitch(r, p)
<1>2. s \in Fields
  BY PrepareTypes
<1>3. s.lastPTS = r.lastPTS /\ s.offsetSet /\ s.offset = r.lastPTS - p.pts + Frame
  BY <1>1, PrepareIs
<1> HIDE DEF s
<1>4. Remap(s, p).packet.pts = (s.lastPTS + Frame) % Wrap
  BY <1>2, <1>3, AlignedOut
<1>5. QED
  BY <1>3, <1>4 DEF s

-----------------------------------------------------------------------------
(* The outgoing clock.                                                     *)

\* What is tracked was seen.  On the fallback the last PTS tracked is the last
\* that went out.  And while a pipeline is on air, the last packet was shifted by
\* the offset that is set now, and went out with the last PTS tracked or, the
\* keyframe of a join, a frame after it.
WasKnown == (remapper.lastPTS > 0 \/ air.seen) => known
TrackedLast ==
  pipe = "fallback" /\ remapper.lastPTS > 0 /\ air.out.pts > 0
    => remapper.lastPTS = air.out.pts
Followed ==
  raw > 0 /\ air.seen =>
    /\ raw = air.in.pts /\ remapper.lastIn = air.in.pts
    /\ air.out.pts = IF remapper.offsetSet /\ air.in.pts + remapper.offset > 0
                       THEN (air.in.pts + remapper.offset) % Wrap ELSE air.in.pts
    /\ remapper.lastPTS > 0 /\ air.out.pts > 0 =>
         \/ remapper.lastPTS = air.out.pts
         \/ air.out.pts = (remapper.lastPTS + Frame) % Wrap
ClockInv == RemapperTypeOK /\ WasKnown /\ TrackedLast /\ Followed

\* A packet of the pipeline on air.
LEMMA PassKeeps ==
  ASSUME ClockInv, RemapperTypeOK', Pass
  PROVE  (WasKnown /\ TrackedLast /\ Followed)'
<1>1. PICK p \in SourcePackets :
        LET result == Remap(remapper, p) IN
        /\ remapper' = TrackOutgoing(result.fields, result.packet)
        /\ GoesOut(p, result.packet)
        /\ UNCHANGED <<known, pipe>>
  BY DEF Pass
<1> DEFINE f == Remap(remapper, p).fields
           o == Remap(remapper, p).packet
<1>2. remapper \in Fields /\ p \in Times
  BY SourcePacketsTypes DEF ClockInv, RemapperTypeOK, Fields
<1>3. f \in Fields /\ o \in Times
  BY <1>2, RemapTypes
<1>4. p.pts \in Nat /\ o.pts \in Nat /\ remapper.lastPTS \in Nat
  BY <1>2, <1>3 DEF Times, Fields, Stamps
<1>5. /\ remapper'.lastPTS = IF Seen(o) > 0 THEN Seen(o) ELSE f.lastPTS
      /\ remapper'.lastIn = f.lastIn /\ remapper'.offset = f.offset
      /\ remapper'.offsetSet = f.offsetSet
  BY <1>1, <1>3, TrackIs
<1>6. f.lastPTS = remapper.lastPTS
  <2>1. CASE Seen(p) = 0
    BY <1>2, <2>1, RemapUnseen
  <2>2. CASE Seen(p) # 0
    <3>1. known /\ p.pts > 0
      BY <1>4, <2>2 DEF Seen
    <3>2. QED
      BY <1>2, <3>1, RemapSeen
  <2>3. QED
    BY <2>1, <2>2
<1>7. known' = known /\ pipe' = pipe /\ GoesOut(p, o)
  BY <1>1
<1>8. CASE ~known
  <2>1. Seen(o) = 0 /\ Seen(p) = 0
    BY <1>8 DEF Seen
  <2>2. ~(remapper.lastPTS > 0) /\ ~air.seen
    BY <1>8 DEF ClockInv, WasKnown
  <2>3. ~(remapper'.lastPTS > 0)
    BY <1>5, <1>6, <2>1, <2>2
  <2>4. ~air'.seen
    BY <1>7, <1>8, <2>2 DEF GoesOut
  <2>5. QED
    BY <2>3, <2>4 DEF WasKnown, TrackedLast, Followed
<1>9. CASE known /\ p.pts = 0
  <2>1. Seen(p) = 0
    BY <1>9 DEF Seen
  <2>2. /\ f.lastIn = remapper.lastIn /\ f.offset = remapper.offset
        /\ f.offsetSet = remapper.offsetSet /\ o.pts = 0
    BY <1>2, <1>9, <2>1, RemapUnseen
  <2>3. Seen(o) = 0
    BY <2>2 DEF Seen
  <2>4. raw' = raw /\ air' = air
    BY <1>7, <1>9 DEF GoesOut
  <2>5. /\ remapper'.lastPTS = remapper.lastPTS
        /\ remapper'.lastIn = remapper.lastIn /\ remapper'.offset = remapper.offset
        /\ remapper'.offsetSet = remapper.offsetSet
    BY <1>5, <1>6, <2>2, <2>3
  <2> HIDE DEF f, o
  <2>6. QED
    BY <1>7, <1>9, <2>4, <2>5 DEF ClockInv, WasKnown, TrackedLast, Followed
<1>10. CASE known /\ p.pts > 0
  <2>1. raw' = p.pts /\ air'.in = p /\ air'.out = o /\ air'.seen = known
    <3> HIDE DEF o
    <3>1. raw' = p.pts /\ air' = [in |-> p, out |-> o, seen |-> known]
      BY <1>7, <1>10 DEF GoesOut
    <3>2. QED
      BY <3>1
  <2>2. /\ f.lastIn = p.pts
        /\ o.pts = IF f.offsetSet /\ p.pts + f.offset > 0
                     THEN (p.pts + f.offset) % Wrap ELSE p.pts
    BY <1>2, <1>10, RemapSeen
  <2>3. Seen(o) = o.pts
    BY <1>10 DEF Seen
  <2> HIDE DEF f, o
  <2>4. o.pts > 0 => remapper'.lastPTS = o.pts
    BY <1>5, <2>3
  <2>5. QED
    BY <1>5, <1>7, <1>10, <2>1, <2>2, <2>4 DEF WasKnown, TrackedLast, Followed
<1>11. QED
  BY <1>4, <1>8, <1>9, <1>10

\* The keyframe of a join.
LEMMA JoinKeeps ==
  ASSUME ClockInv, RemapperTypeOK', JoinKeyframe
  PROVE  (WasKnown /\ TrackedLast /\ Followed)'
<1>1. PICK p \in {q \in SourcePackets : q.pts > 0} :
        LET result == Remap(PrepareSwitch(remapper, p), p) IN
        /\ remapper' = result.fields
        /\ GoesOut(p, result.packet)
  BY DEF JoinKeyframe
<1> DEFINE s == PrepareSwitch(remapper, p)
           f == Remap(s, p).fields
           o == Remap(s, p).packet
<1>2. remapper \in Fields /\ p \in Times /\ p.pts > 0
  BY SourcePacketsTypes DEF ClockInv, RemapperTypeOK, Fields
<1>3. s \in Fields /\ s.lastPTS = remapper.lastPTS
  BY <1>2, PrepareTypes, PrepareIs
<1>4. remapper' = f /\ GoesOut(p, o) /\ pipe' = "srt" /\ known' = known
  BY <1>1 DEF JoinKeyframe
<1>5. raw' = p.pts /\ air'.in = p /\ air'.out = o /\ air'.seen = known
  BY <1>2, <1>4 DEF GoesOut
<1>6. TrackedLast'
  BY <1>4 DEF TrackedLast
<1>7. CASE ~known
  <2>1. Seen(p) = 0
    BY <1>7 DEF Seen
  <2>2. f.lastPTS = remapper.lastPTS
    BY <1>2, <1>3, <2>1, RemapUnseen
  <2>3. ~(remapper.lastPTS > 0)
    BY <1>7 DEF ClockInv, WasKnown
  <2> HIDE DEF s, f, o
  <2>4. QED
    BY <1>4, <1>5, <1>6, <1>7, <2>2, <2>3 DEF WasKnown, Followed
<1>8. CASE known
  <2>1. /\ f.lastPTS = remapper.lastPTS /\ f.lastIn = p.pts
        /\ o.pts = IF f.offsetSet /\ p.pts + f.offset > 0
                     THEN (p.pts + f.offset) % Wrap ELSE p.pts
    <3> HIDE DEF s
    <3>1. QED
      BY <1>2, <1>3, <1>8, RemapSeen
  <2>2. remapper.lastPTS > 0 => o.pts = (remapper.lastPTS + Frame) % Wrap
    BY <1>2, <1>8, JoinOut
  <2> HIDE DEF s, f, o
  <2>3. QED
    BY <1>4, <1>5, <1>6, <1>8, <2>1, <2>2 DEF WasKnown, Followed
<1>9. QED
  BY <1>7, <1>8 DEF ClockInv, RemapperTypeOK

\* The other steps broadcast nothing, and start a pipeline or change no field.
LEMMA QuietKeeps ==
  ASSUME ClockInv, JoinBridge \/ Promote \/ Exit \/ SetPIDs \/ UNCHANGED remapperVars
  PROVE  (WasKnown /\ TrackedLast /\ Followed)'
<1>1. remapper \in Fields
  BY DEF ClockInv, RemapperTypeOK, Fields
<1>2. CASE JoinBridge
  <2>1. PICK p \in SourcePackets : remapper' = PrepareSwitch(remapper, p)
    BY <1>2 DEF JoinBridge
  <2>2. remapper'.lastPTS = remapper.lastPTS
    BY <1>1, <2>1, SourcePacketsTypes, PrepareIs
  <2>3. QED
    BY <1>2, <2>2 DEF JoinBridge, ClockInv, WasKnown, TrackedLast, Followed
<1>3. CASE Promote
  BY <1>3 DEF Promote, ClockInv, WasKnown, TrackedLast, Followed
<1>4. CASE Exit
  BY <1>4 DEF Exit, Cleared, ClockInv, WasKnown, TrackedLast, Followed
<1>5. CASE SetPIDs
  BY <1>5 DEF SetPIDs, ClockInv, WasKnown, TrackedLast, Followed
<1>6. CASE UNCHANGED remapperVars
  BY <1>6 DEF remapperVars, ClockInv, WasKnown, TrackedLast, Followed
<1>7. QED
  BY <1>2, <1>3, <1>4, <1>5, <1>6

\* The clock's invariant.
LEMMA ClockInvariant == RemapperSpec => []ClockInv
<1>1. RemapperInit => WasKnown /\ TrackedLast /\ Followed
  BY DEF RemapperInit, Cleared, Nothing, WasKnown, TrackedLast, Followed
<1>2. ClockInv /\ RemapperTypeOK' /\ [RemapperNext]_remapperVars => (WasKnown /\ TrackedLast /\ Followed)'
  BY PassKeeps, JoinKeeps, QuietKeeps DEF RemapperNext
<1>3. QED
  BY <1>1, <1>2, TypeCorrect, PTL DEF RemapperSpec, ClockInv

\* A keyframe that takes the relay live goes out exactly one frame after the
\* last packet of the fallback, whatever its own clock says.
THEOREM JoinSeamless == RemapperSpec => KeyframeJoinSeamless
<1>1. ASSUME ClockInv, RemapperTypeOK', JoinKeyframe, known, remapper.lastPTS > 0,
             air.out.pts > 0
      PROVE  Ahead(air.out.pts, air'.out.pts) = Frame
  <2>1. PICK p \in {q \in SourcePackets : q.pts > 0} :
          GoesOut(p, Remap(PrepareSwitch(remapper, p), p).packet)
    BY <1>1 DEF JoinKeyframe
  <2> DEFINE o == Remap(PrepareSwitch(remapper, p), p).packet
  <2>2. remapper \in Fields /\ p \in Times /\ p.pts > 0
    BY <1>1, SourcePacketsTypes DEF ClockInv, RemapperTypeOK, Fields
  <2>3. o.pts = (remapper.lastPTS + Frame) % Wrap
    BY <1>1, <2>2, JoinOut
  <2>4. GoesOut(p, o)
    BY <2>1
  <2> HIDE DEF o
  <2>5. air' = [in |-> p, out |-> o, seen |-> known]
    BY <2>2, <2>4 DEF GoesOut
  <2>6. air'.out.pts = (remapper.lastPTS + Frame) % Wrap
    BY <2>3, <2>5
  <2>7. remapper.lastPTS = air.out.pts
    BY <1>1 DEF JoinKeyframe, ClockInv, TrackedLast
  <2> DEFINE a == air.out.pts
             b == (a + Frame) % Wrap
  <2>8. a \in Int /\ 0 <= a /\ a < Wrap /\ Wrap \in Int /\ Wrap > 0
        /\ Frame \in Int /\ 0 < Frame /\ Frame < Wrap
    BY <1>1, ConstantsOK DEF ClockInv, RemapperTypeOK, Times, Stamps
  <2> HIDE DEF a
  <2>9. b \in {a + Frame, a + Frame - Wrap, a + Frame + Wrap} /\ b \in Int /\ 0 <= b /\ b < Wrap
    BY <2>8, Moved, InTurn
  <2> HIDE DEF b
  <2>10. a \in Stamps /\ b \in Stamps
    BY <2>8, <2>9 DEF Stamps
  <2>11. Ahead(a, b) = Frame
    BY <2>8, <2>9, <2>10, AheadIs
  <2>12. QED
    BY <2>6, <2>7, <2>11 DEF a, b
<1>2. ClockInv /\ RemapperTypeOK' /\ [RemapperNext]_remapperVars
        => [JoinKeyframe /\ known /\ remapper.lastPTS > 0 /\ air.out.pts > 0
              => Ahead(air.out.pts, air'.out.pts) = Frame]_remapperVars
  BY <1>1
<1>3. QED
  BY <1>2, ClockInvariant, TypeCorrect, PTL DEF RemapperSpec, KeyframeJoinSeamless

\* How far a hand that was moved is ahead or behind.
LEMMA AheadMoved ==
  ASSUME NEW a \in Stamps, NEW b \in Stamps, NEW d \in Int, -Wrap < d, d < Wrap,
         b \in {a + d, a + d - Wrap, a + d + Wrap}
  PROVE  /\ d >= 0 => Ahead(a, b) = d
         /\ d < 0 => Ahead(b, a) = -d
<1>1. a \in Int /\ b \in Int /\ 0 <= a /\ a < Wrap /\ 0 <= b /\ b < Wrap
      /\ Wrap \in Int /\ Wrap > 0
  BY ConstantsOK DEF Stamps
<1>2. CASE d >= 0
  BY <1>1, <1>2, AheadIs
<1>3. CASE d < 0
  BY <1>1, <1>3, AheadIs
<1>4. QED
  BY <1>2, <1>3

\* Within a pipeline the outgoing clock never goes back more than a second,
\* also when the source does.
THEOREM NoRewind == RemapperSpec => NeverRewinds
<1>1. ASSUME ClockInv, RemapperTypeOK', Pass, Settled, air' # air, 2 * (raw' - raw) <= Wrap
      PROVE  \/ 2 * Ahead(air.out.pts, air'.out.pts) <= Wrap
             \/ Ahead(air'.out.pts, air.out.pts) <= Jump
  <2>1. PICK p \in SourcePackets : GoesOut(p, Remap(remapper, p).packet)
    BY <1>1 DEF Pass
  <2> DEFINE f == Remap(remapper, p).fields
             o == Remap(remapper, p).packet
             a == air.out.pts
             b == o.pts
             last == remapper.lastPTS
             d == p.pts - raw
             x == raw + remapper.offset
  <2>2. remapper \in Fields /\ p \in Times
    BY <1>1, SourcePacketsTypes DEF ClockInv, RemapperTypeOK, Fields
  <2>3. known /\ p.pts > 0 /\ raw > 0 /\ last > 0 /\ a > Jump
    BY <1>1, <2>1 DEF Settled, GoesOut, ClockInv, WasKnown
  <2>4. raw' = p.pts /\ air'.out.pts = b
    <3> HIDE DEF o
    <3>1. raw' = p.pts /\ air' = [in |-> p, out |-> o, seen |-> known]
      BY <2>1, <2>3 DEF GoesOut, o
    <3>2. QED
      BY <3>1
  <2>5. a \in Stamps /\ b \in Stamps
    BY <1>1, <2>2, RemapTypes DEF ClockInv, RemapperTypeOK, Times
  <2>6. /\ Wrap \in Int /\ Wrap > 0 /\ Jump \in Int /\ 0 <= Jump /\ 2 * Jump < Wrap
        /\ Frame \in Int /\ 0 < Frame /\ 2 * Frame < Wrap
        /\ a \in Int /\ 0 <= a /\ a < Wrap /\ b \in Int /\ 0 <= b /\ b < Wrap
        /\ last \in Int /\ 0 <= last /\ last < Wrap
        /\ p.pts \in Int /\ p.pts < Wrap /\ raw \in Int /\ raw < Wrap
        /\ remapper.offset \in Int
    BY <1>1, <2>2, <2>5, ConstantsOK
       DEF ClockInv, RemapperTypeOK, Fields, Times, Stamps
  <2>7. /\ remapper.lastIn = raw
        /\ a = IF remapper.offsetSet /\ x > 0 THEN x % Wrap ELSE raw
        /\ remapper.offsetSet => a = x % Wrap
        /\ last = a \/ a = (last + Frame) % Wrap
    BY <1>1, <2>3, <2>6 DEF Settled, ClockInv, Followed
  <2>8. CASE Jumped(remapper, p)
    <3>1. b = (last + Frame) % Wrap
      BY <2>2, <2>3, <2>8, AlignedOut
    <3>2. CASE a = (last + Frame) % Wrap
      <4>1. a = b
        BY <3>1, <3>2
      <4>2. Ahead(a, b) = 0
        <5> HIDE DEF a, b
        <5>1. QED
          BY <2>5, <2>6, <4>1, AheadIs
      <4>3. QED
        BY <2>4, <2>6, <4>2
    <3>3. CASE last = a
      <4>1. b = (a + Frame) % Wrap
        BY <3>1, <3>3
      <4> HIDE DEF a, b
      <4>2. b \in {a + Frame, a + Frame - Wrap, a + Frame + Wrap}
        BY <2>6, <4>1, Moved, InTurn
      <4>3. Ahead(a, b) = Frame
        BY <2>5, <2>6, <4>2, AheadMoved
      <4>4. QED
        BY <2>4, <2>6, <4>3 DEF a
    <3>4. QED
      BY <2>7, <3>2, <3>3
  <2>9. CASE ~Jumped(remapper, p)
    <3>1. Seen(p) = p.pts
      BY <2>3 DEF Seen
    <3>2. d \in Int /\ -Jump <= d /\ 2 * d <= Wrap /\ -Wrap < d /\ d < Wrap
      BY <1>1, <2>3, <2>4, <2>6, <2>7, <2>9, <3>1 DEF Jumped
    <3>3. b = IF remapper.offsetSet /\ p.pts + remapper.offset > 0
                THEN (p.pts + remapper.offset) % Wrap ELSE p.pts
      <4>1. f.offset = remapper.offset /\ f.offsetSet = remapper.offsetSet
        BY <2>2, <2>3, <2>9, RemapSeen
      <4>2. b = IF f.offsetSet /\ p.pts + f.offset > 0
                  THEN (p.pts + f.offset) % Wrap ELSE p.pts
        BY <2>2, <2>3, RemapSeen
      <4> HIDE DEF f, o
      <4>3. QED
        BY <4>1, <4>2
    <3>4. x \in Int /\ p.pts + remapper.offset = x + d /\ p.pts = raw + d
      BY <2>6
    <3> HIDE DEF a, b, d, x, o
    <3>5. b \in {a + d, a + d - Wrap, a + d + Wrap}
      <4>1. CASE ~remapper.offsetSet \/ (x <= 0 /\ x + d <= 0)
        BY <2>6, <2>7, <3>2, <3>3, <3>4, <4>1
      <4>2. CASE remapper.offsetSet /\ x > 0 /\ x + d > 0
        <5>1. a = x % Wrap /\ b = (x + d) % Wrap
          BY <2>7, <3>3, <3>4, <4>2
        <5>2. QED
          BY <2>6, <3>2, <3>4, <5>1, Moved
      <4>3. CASE remapper.offsetSet /\ x > 0 /\ x + d <= 0
        <5>1. a = x % Wrap /\ x <= Jump /\ x < Wrap
          BY <2>6, <2>7, <3>2, <3>4, <4>3
        <5>2. x % Wrap = x
          BY <2>6, <3>4, <4>3, <5>1, InTurn
        <5>3. FALSE
          BY <2>3, <2>6, <3>4, <5>1, <5>2 DEF a
        <5>4. QED
          BY <5>3
      <4>4. CASE remapper.offsetSet /\ x <= 0 /\ x + d > 0
        <5>1. a = x % Wrap
          BY <2>7, <4>4
        <5>2. b = (x + d) % Wrap
          BY <3>3, <3>4, <4>4
        <5>3. QED
          BY <2>6, <3>2, <3>4, <5>1, <5>2, Moved
      <4>5. QED
        BY <2>6, <3>2, <3>4, <4>1, <4>2, <4>3, <4>4
    <3>6. /\ d >= 0 => Ahead(a, b) = d
          /\ d < 0 => Ahead(b, a) = -d
      BY <2>5, <2>6, <3>2, <3>5, AheadMoved
    <3>7. 2 * Ahead(a, b) <= Wrap \/ Ahead(b, a) <= Jump
      BY <2>6, <3>2, <3>6
    <3>8. QED
      BY <2>4, <3>7 DEF a
  <2>10. QED
    BY <2>8, <2>9
<1>2. ClockInv /\ RemapperTypeOK' /\ [RemapperNext]_remapperVars
        => [air' # air /\ Settled /\ Pass /\ 2 * (raw' - raw) <= Wrap
              => \/ 2 * Ahead(air.out.pts, air'.out.pts) <= Wrap
                 \/ Ahead(air'.out.pts, air.out.pts) <= Jump]_remapperVars
  BY <1>1
<1>3. QED
  BY <1>2, ClockInvariant, TypeCorrect, PTL DEF RemapperSpec, NeverRewinds

-----------------------------------------------------------------------------
(* PCR and PTS.                                                            *)

\* Whole turns are nothing on the dial.
LEMMA Turns ==
  ASSUME NEW w \in Int, w > 0, NEW k \in Int
  PROVE  (w * k) % w = 0
<1>1. (w * k + 0) % w = 0
  BY Remainder
<1>2. w * k + 0 = w * k
  OBVIOUS
<1>3. QED
  BY <1>1, <1>2

\* Reducing below the turn only adds turns, and above it only takes some away.
LEMMA Reduced ==
  ASSUME NEW w \in Int, w > 0, NEW x \in Int
  PROVE  /\ x < w => x <= x % w
         /\ 0 <= x => x % w <= x
<1> DEFINE q == x \div w
           r == x % w
<1>1. q \in Int /\ r \in Int /\ 0 <= r /\ r < w /\ x = w * q + r
  BY DivMod
<1> HIDE DEF q, r
<1>2. ASSUME x < w PROVE q <= 0
  <2> SUFFICES ASSUME q >= 1 PROVE FALSE
    BY <1>1
  <2>1. w * q >= w /\ w * q \in Int
    BY <1>1
  <2>2. QED
    BY <1>1, <1>2, <2>1
<1>3. q <= 0 => w * q <= 0 /\ w * q \in Int
  BY <1>1
<1>4. ASSUME 0 <= x PROVE q >= 0
  <2> SUFFICES ASSUME q <= -1 PROVE FALSE
    BY <1>1
  <2>1. w * q <= -w /\ w * q \in Int
    BY <1>1
  <2>2. QED
    BY <1>1, <1>4, <2>1
<1>5. q >= 0 => w * q >= 0 /\ w * q \in Int
  BY <1>1
<1>6. QED
  BY <1>1, <1>2, <1>3, <1>4, <1>5 DEF r

\* A product has the sign of its factor.
LEMMA Sign ==
  ASSUME NEW w \in Int, w > 0, NEW x \in Int
  PROVE  w * x > 0 <=> x > 0
<1>1. x >= 1 => w * x >= w
  OBVIOUS
<1>2. x <= 0 => w * x <= 0
  OBVIOUS
<1>3. w * x \in Int
  OBVIOUS
<1>4. QED
  BY <1>1, <1>2, <1>3

\* The PCR and the PTS of a packet are moved both or neither, and by as much.
LEMMA PacketInStep ==
  ASSUME NEW r \in Fields, NEW p \in SourcePackets, known, p.pts > 0, p.pcr > 0,
         Remap(r, p).packet.pts > Lag
  PROVE  InStep(p, Remap(r, p).packet)
<1> DEFINE f == FollowIncoming(r, p)
           v == f.offset
           m == Wrap * Scale
           c == (p.pts - Lag) % Wrap
           t == ShiftedPTS(f, p)
           u == IF MovesPCR(f, p) THEN PcrSum(f, p) % m ELSE p.pcr
           sum == Scale * (c + v)
<1>1. p \in Times /\ f \in Fields
  BY SourcePacketsTypes, FollowTypes
<1>2. /\ Wrap \in Int /\ Wrap > 0 /\ Scale \in Int /\ Scale > 0 /\ Lag \in Int /\ Lag >= 0
      /\ m \in Int /\ m > 0
      /\ p.pts \in Int /\ 0 < p.pts /\ p.pts < Wrap
      /\ v \in Int
  BY <1>1, ConstantsOK DEF Times, Fields, Stamps
<1>3. c \in Int /\ 0 <= c /\ c < Wrap
  BY <1>2, DivMod
<1>4. p.pcr = Scale * c /\ p.pcr \in Int
  <2>1. p.pcr = PcrAt(p.pts)
    BY DEF SourcePackets
  <2>2. QED
    BY <1>2, <1>3, <2>1 DEF PcrAt
<1>5. Seen(p) > 0
  BY DEF Seen
<1>6. t = IF f.offsetSet /\ p.pts + v > 0 THEN (p.pts + v) % Wrap ELSE p.pts
  BY <1>5 DEF ShiftedPTS
<1>7. PcrSum(f, p) = p.pcr + v * Scale
  BY DEF PcrSum
<1>8. Remap(r, p).packet = [pts |-> t, pcr |-> u]
  BY DEF Remap
<1>9. t > Lag
  BY <1>8
<1>10. ((u - Scale * t) - (p.pcr - Scale * p.pts)) % m = 0
  <2>1. c >= p.pts - Lag /\ (p.pts - Lag >= 0 => c = p.pts - Lag)
    <3>1. p.pts - Lag \in Int /\ p.pts - Lag < Wrap
      BY <1>2
    <3>2. c >= p.pts - Lag
      BY <1>2, <3>1, Reduced
    <3>3. p.pts - Lag >= 0 => c <= p.pts - Lag
      BY <1>2, <3>1, Reduced
    <3>4. QED
      BY <1>2, <1>3, <3>1, <3>2, <3>3
  <2>2. MovesPCR(f, p) <=> f.offsetSet /\ v # 0 /\ c + v > 0
    <3> HIDE DEF f, v, c
    <3>1. p.pcr + v * Scale = sum
      BY <1>2, <1>3, <1>4
    <3>2. sum > 0 <=> c + v > 0
      BY <1>2, <1>3, Sign
    <3>3. QED
      BY <1>7, <3>1, <3>2 DEF MovesPCR, v
  <2> HIDE DEF f, v, c, m, t
  <2>3. CASE f.offsetSet /\ v # 0 /\ p.pts + v > 0 /\ c + v > 0
    <3> DEFINE y == p.pts + v
               i == y \div Wrap
               z == p.pcr + v * Scale
               j == z \div m
    <3>1. y \in Int /\ z \in Int
      BY <1>2, <1>4
    <3>2. i \in Int /\ t \in Int /\ y = Wrap * i + t
      BY <1>2, <1>6, <2>3, <3>1, DivMod
    <3>3. j \in Int /\ u \in Int /\ z = m * j + u
      BY <1>2, <1>7, <2>2, <2>3, <3>1, DivMod
    <3> DEFINE k == i - j
    <3>4. k \in Int
      BY <3>2, <3>3
    <3>5. (u - Scale * t) - (p.pcr - Scale * p.pts) = m * k
      <4> HIDE DEF i, j, u, y, z
      <4>1. u = z - m * j /\ t = y - Wrap * i
        BY <1>2, <3>1, <3>2, <3>3
      <4>2. Scale * t = Scale * y - m * i
        BY <1>2, <3>1, <3>2, <4>1 DEF m
      <4>3. Scale * y = Scale * p.pts + v * Scale
        BY <1>2 DEF y
      <4>4. m * k = m * i - m * j
        BY <1>2, <3>2, <3>3
      <4>5. m * i \in Int /\ m * j \in Int /\ Scale * p.pts \in Int /\ v * Scale \in Int
        BY <1>2, <3>2, <3>3
      <4>6. QED
        BY <1>4, <4>1, <4>2, <4>3, <4>4, <4>5 DEF z
    <3> HIDE DEF k
    <3>6. QED
      BY <1>2, <3>4, <3>5, Turns
  <2>4. CASE f.offsetSet /\ v # 0 /\ p.pts + v > 0 /\ c + v <= 0
    <3>1. p.pts + v <= Lag
      BY <1>2, <1>3, <2>1, <2>4
    <3>2. t <= p.pts + v
      BY <1>2, <1>6, <2>4, Reduced
    <3>3. FALSE
      <4>1. t \in Int
        BY <1>2, <1>6, <2>4, DivMod
      <4>2. QED
        BY <1>2, <1>9, <3>1, <3>2, <4>1
    <3>4. QED
      BY <3>3
  <2>5. CASE f.offsetSet /\ v # 0 /\ p.pts + v <= 0 /\ c + v > 0
    <3>1. t = p.pts
      BY <1>2, <1>6, <2>5
    <3>2. FALSE
      BY <1>2, <1>3, <1>9, <2>1, <2>5, <3>1
    <3>3. QED
      BY <3>2
  <2>6. CASE \/ ~f.offsetSet \/ v = 0
             \/ p.pts + v <= 0 /\ c + v <= 0
    <3>1. u = p.pcr
      BY <1>2, <1>3, <2>2, <2>6
    <3>2. t = p.pts
      <4>1. CASE f.offsetSet /\ v = 0
        BY <1>2, <1>6, <4>1, InTurn
      <4>2. CASE ~f.offsetSet
        BY <1>6, <4>2
      <4>3. CASE p.pts + v <= 0
        BY <1>2, <1>6, <4>3
      <4>4. QED
        BY <2>6, <4>1, <4>2, <4>3
    <3>3. (u - Scale * t) - (p.pcr - Scale * p.pts) = 0
      BY <1>2, <1>4, <3>1, <3>2
    <3>4. 0 % m = 0
      BY <1>2, InTurn
    <3>5. QED
      BY <3>3, <3>4
  <2>7. QED
    BY <1>2, <1>3, <2>3, <2>4, <2>5, <2>6
<1>11. QED
  <2> HIDE DEF t, u
  <2>1. Remap(r, p).packet.pts = t /\ Remap(r, p).packet.pcr = u
    BY <1>8
  <2>2. QED
    BY <1>10, <2>1 DEF InStep

\* Once the PIDs are known a packet that is moved is moved as a whole: its PCR
\* goes with its PTS.
THEOREM PCRFollows == RemapperSpec => []ClockFollows
<1>1. RemapperInit => ClockFollows
  BY DEF RemapperInit, Nothing, ClockFollows
<1>2. ASSUME RemapperTypeOK, ClockFollows, NEW r \in Fields, NEW p \in SourcePackets,
             GoesOut(p, Remap(r, p).packet)
      PROVE  ClockFollows'
  <2> DEFINE o == Remap(r, p).packet
  <2>1. CASE p.pts > 0
    <3>1. known /\ p.pcr > 0 /\ o.pts > Lag => InStep(p, o)
      BY <2>1, PacketInStep
    <3> HIDE DEF o
    <3>2. air' = [in |-> p, out |-> o, seen |-> known]
      BY <1>2, <2>1 DEF GoesOut, o
    <3>3. air'.in = p /\ air'.out = o /\ air'.seen = known
      BY <3>2
    <3>4. QED
      BY <3>1, <3>3 DEF ClockFollows, InStep
  <2>2. CASE ~(p.pts > 0)
    BY <1>2, <2>2 DEF GoesOut, ClockFollows, InStep
  <2>3. QED
    BY <2>1, <2>2
<1>3. RemapperTypeOK /\ ClockFollows /\ [RemapperNext]_remapperVars => ClockFollows'
  <2> SUFFICES ASSUME RemapperTypeOK, ClockFollows, [RemapperNext]_remapperVars PROVE ClockFollows'
    OBVIOUS
  <2>1. remapper \in Fields
    BY DEF RemapperTypeOK, Fields
  <2>2. CASE Pass
    <3>1. PICK p \in SourcePackets : GoesOut(p, Remap(remapper, p).packet)
      BY <2>2 DEF Pass
    <3>2. QED
      BY <1>2, <2>1, <3>1
  <2>3. CASE JoinKeyframe
    <3>1. PICK p \in SourcePackets :
            GoesOut(p, Remap(PrepareSwitch(remapper, p), p).packet)
      BY <2>3 DEF JoinKeyframe
    <3>2. PrepareSwitch(remapper, p) \in Fields
      BY <2>1, SourcePacketsTypes, PrepareTypes
    <3>3. QED
      BY <1>2, <3>1, <3>2
  <2>4. CASE JoinBridge \/ Promote \/ Exit \/ SetPIDs \/ UNCHANGED remapperVars
    <3>1. air' = air
      BY <2>4 DEF JoinBridge, Promote, Exit, SetPIDs, remapperVars
    <3>2. QED
      BY <3>1 DEF ClockFollows, InStep
  <2>5. QED
    BY <2>2, <2>3, <2>4 DEF RemapperNext
<1>4. QED
  BY <1>1, <1>3, TypeCorrect, PTL DEF RemapperSpec
=============================================================================
