---------------------------- MODULE PTSRemapper ----------------------------
(***************************************************************************)
(* pts_remapper.go, and Run's use of it: what happens to the timestamps of *)
(* the programme when the relay joins, leaves and changes pipelines.       *)
(*                                                                         *)
(* A packet carries a PTS and a PCR, 0 where it has none: the code reads 0 *)
(* as absent.  Timestamps keep their width, PTS modulo Wrap and PCR modulo *)
(* Wrap * Scale, while the remapper computes in wider integers.  DTS is    *)
(* shifted like PTS, and lastDTS and lastIncomingPCR are never read, so    *)
(* they are left out.  Every source has a clock of its own: the first      *)
(* packet of a pipeline, or of a process started again, says any time.     *)
(***************************************************************************)
EXTENDS Integers

CONSTANTS
  Wrap,      \* PTS are counted modulo this: 2^33
  Scale,     \* ticks of PCR in a tick of PTS: 300
  Frame,     \* frameDuration: 3003
  PcrFrame,  \* what the PCR-based offset adds: 27000000/30
  Jump,      \* a source that goes back further has jumped: 90000
  Lag        \* how far the PCR of a source is behind its PTS

ASSUME RemapperAssumption ==
  /\ Wrap \in Nat /\ Scale \in Nat \ {0} /\ PcrFrame \in Nat
  /\ Frame \in Nat \ {0} /\ Jump \in Nat /\ Lag \in Nat
  /\ 2 * Frame < Wrap /\ 2 * Jump < Wrap

VARIABLES
  remapper,  \* the remapper's fields
  known,     \* its PIDs were set
  pipe,      \* the pipeline on air
  raw,       \* the last PTS of that pipeline's source, 0 before the first
  air        \* the last packet with a PTS that was broadcast: as the source
             \* made it, as it went out, and whether its PID was known

remapperVars == <<remapper, known, pipe, raw, air>>

Stamps  == 0..(Wrap - 1)
Clocks  == 0..(Wrap * Scale - 1)
Times == [pts : Stamps, pcr : Clocks]

Nothing == [pts |-> 0, pcr |-> 0]
Cleared == [lastPCR |-> 0, lastPTS |-> 0, lastIn |-> 0, offset |-> 0,
            offsetSet |-> FALSE]

RemapperTypeOK ==
  /\ remapper \in [lastPCR : Nat, lastPTS : Stamps, lastIn : Stamps,
                   offset : Int, offsetSet : BOOLEAN]
  /\ known \in BOOLEAN
  /\ pipe \in {"fallback", "srt", "bridge"}
  /\ raw \in Stamps
  /\ air \in [in : Times, out : Times, seen : BOOLEAN]

RemapperInit ==
  /\ remapper = Cleared
  /\ known = FALSE
  /\ pipe = "fallback" /\ raw = 0
  /\ air = [in |-> Nothing, out |-> Nothing, seen |-> FALSE]

-----------------------------------------------------------------------------
(* The remapper's methods, on its fields r and one packet p.               *)

\* extractPTSDTS: a PTS on a PID that was never set goes unseen.
Seen(p) == IF known THEN p.pts ELSE 0

TrackOutgoing(r, p) ==
  [r EXCEPT !.lastPCR = IF p.pcr > 0 THEN p.pcr ELSE @,
            !.lastPTS = IF Seen(p) > 0 THEN Seen(p) ELSE @]

\* The offset that puts the time "first" one frame after the time "last".
Align(r, last, first, frame) ==
  [r EXCEPT !.offset = last - first + frame, !.offsetSet = TRUE]

PrepareSwitch_NoFrame(r, p) ==
  IF r.lastPTS > 0 /\ Seen(p) > 0 THEN Align(r, r.lastPTS, Seen(p), 0)
  ELSE IF r.lastPCR > 0 /\ p.pcr > 0 THEN Align(r, r.lastPCR, p.pcr, PcrFrame)
  ELSE r
PrepareSwitch(r, p) ==
  IF r.lastPTS > 0 /\ Seen(p) > 0 THEN Align(r, r.lastPTS, Seen(p), Frame)
  ELSE IF r.lastPCR > 0 /\ p.pcr > 0 THEN Align(r, r.lastPCR, p.pcr, PcrFrame)
  ELSE r

\* The first half of Remap: a source that jumped back is aligned again.
Jumped(r, p) == r.lastIn > 0 /\ Seen(p) < r.lastIn - Jump

FollowIncoming_NoJump(r, p) ==
  IF Seen(p) = 0 THEN r ELSE [r EXCEPT !.lastIn = Seen(p)]
FollowIncoming(r, p) ==
  IF Seen(p) = 0 THEN r
  ELSE [IF Jumped(r, p) /\ r.lastPTS > 0
          THEN Align(r, r.lastPTS, Seen(p), Frame) ELSE r
        EXCEPT !.lastIn = Seen(p)]

\* remapPES: a sum that is not positive is not written, and writeTimestamp
\* keeps 33 bits of it.
ShiftedPTS_Wide(r, p) ==
  IF r.offsetSet /\ Seen(p) > 0 /\ p.pts + r.offset > 0
    THEN p.pts + r.offset ELSE p.pts
ShiftedPTS(r, p) ==
  IF r.offsetSet /\ Seen(p) > 0 /\ p.pts + r.offset > 0
    THEN (p.pts + r.offset) % Wrap ELSE p.pts

PcrSum_Unscaled(r, p) == p.pcr + r.offset
PcrSum(r, p) == p.pcr + r.offset * Scale

MovesPCR(r, p) ==
  r.offsetSet /\ r.offset # 0 /\ p.pcr > 0 /\ PcrSum(r, p) > 0

\* Remap: the fields it leaves and the packet it returns.
Remap(r, p) ==
  LET f == FollowIncoming(r, p) IN
  [fields |-> [f EXCEPT !.lastPCR = IF MovesPCR(f, p) THEN PcrSum(f, p) ELSE @],
   packet |-> [pts |-> ShiftedPTS(f, p),
               pcr |-> IF MovesPCR(f, p) THEN PcrSum(f, p) % (Wrap * Scale)
                                         ELSE p.pcr]]

-----------------------------------------------------------------------------
(* The sources.                                                            *)

PcrAt(pts) == Scale * ((pts - Lag) % Wrap)

\* A packet need not have a PCR, and need not start a picture.
SourcePackets ==
  {[pts |-> t, pcr |-> c] : t \in Stamps, c \in {0}}
    \cup {[pts |-> t, pcr |-> PcrAt(t)] : t \in Stamps}
    \cup {[pts |-> 0, pcr |-> PcrAt(t)] : t \in Stamps}

\* Broadcast; of a packet with a PTS, the receivers see its timestamps.
GoesOut(in, out) ==
  IF in.pts > 0
    THEN raw' = in.pts /\ air' = [in |-> in, out |-> out, seen |-> known]
    ELSE UNCHANGED <<raw, air>>

-----------------------------------------------------------------------------
(* Run.                                                                    *)

\* A packet of the pipeline on air: Remap, TrackOutgoing, Broadcast.
Pass ==
  \E p \in SourcePackets :
    LET result == Remap(remapper, p) IN
    /\ remapper' = TrackOutgoing(result.fields, result.packet)
    /\ GoesOut(p, result.packet)
    /\ UNCHANGED <<known, pipe>>

\* Into live on a keyframe: PrepareSwitch, Remap, Broadcast.
JoinKeyframe ==
  /\ pipe = "fallback"
  /\ pipe' = "srt"
  /\ \E p \in {q \in SourcePackets : q.pts > 0} :
       LET result == Remap(PrepareSwitch(remapper, p), p) IN
       /\ remapper' = result.fields
       /\ GoesOut(p, result.packet)
  /\ UNCHANGED known

\* Into live over the bridge: PrepareSwitch gets the packet that went into
\* the bridge, and nothing is broadcast yet.
JoinBridge ==
  /\ pipe = "fallback"
  /\ pipe' = "bridge" /\ raw' = 0
  /\ \E p \in SourcePackets : remapper' = PrepareSwitch(remapper, p)
  /\ UNCHANGED <<known, air>>

\* From the bridge to direct passthrough: the remapper is left as it is.
Promote ==
  /\ pipe = "bridge"
  /\ pipe' = "srt" /\ raw' = 0
  /\ UNCHANGED <<remapper, known, air>>

\* Back to the fallback: Reset.
Exit ==
  /\ pipe # "fallback"
  /\ pipe' = "fallback" /\ raw' = 0
  /\ remapper' = Cleared
  /\ UNCHANGED <<known, air>>

\* SetPIDs, by a goroutine that looks once a second whether Run learnt them.
SetPIDs ==
  /\ known' = TRUE
  /\ UNCHANGED <<remapper, pipe, raw, air>>

RemapperNext == Pass \/ JoinKeyframe \/ JoinBridge \/ Promote \/ Exit \/ SetPIDs

RemapperSpec == RemapperInit /\ [][RemapperNext]_remapperVars

-----------------------------------------------------------------------------
(* Properties.                                                             *)

\* How far time "b" is ahead of time "a", on a dial of Wrap.
Ahead(a, b) == (b - a) % Wrap

\* A keyframe that takes the relay live goes out exactly one frame after the
\* last packet of the fallback, whatever its own clock says.
KeyframeJoinSeamless ==
  [][JoinKeyframe /\ known /\ remapper.lastPTS > 0 /\ air.out.pts > 0
       => Ahead(air.out.pts, air'.out.pts) = Frame]_remapperVars

\* The last packet went out with the offset that is set now, and the outgoing
\* clock is not within its first second, where a sum is not written.
Settled ==
  /\ air.seen /\ raw > 0 /\ remapper.lastPTS > 0 /\ air.out.pts > Jump
  /\ remapper.offsetSet => air.out.pts = (air.in.pts + remapper.offset) % Wrap

\* Within a pipeline the outgoing clock never goes back more than a second,
\* also when the source does: loops of the fallback file, a publisher that
\* starts again, the wrap-around of its clock.
NeverRewinds ==
  [][air' # air /\ Settled /\ Pass /\ 2 * (raw' - raw) <= Wrap
       => \/ 2 * Ahead(air.out.pts, air'.out.pts) <= Wrap
          \/ Ahead(air'.out.pts, air.out.pts) <= Jump]_remapperVars

\* PTS and PCR of a packet keep their distance.
InStep(p, q) ==
  ((q.pcr - Scale * q.pts) - (p.pcr - Scale * p.pts)) % (Wrap * Scale) = 0

\* Once the PIDs are known a packet that is moved is moved as a whole: its
\* PCR goes with its PTS.  (A clock that has not reached Lag has no PCR yet.)
ClockFollows ==
  air.seen /\ air.in.pcr > 0 /\ air.out.pts > Lag => InStep(air.in, air.out)

\* ADR-002:10 "rewrite PCR and PTS timestamps in-place", of all packets.
ClockAlwaysFollows ==
  air.in.pcr > 0 /\ air.out.pts > Lag => InStep(air.in, air.out)

\* pts_remapper.go:14-15 "make the new source's timestamps continue seamlessly
\* from the old source's timeline", at every change of pipeline.
EveryJoinSeamless ==
  [][raw = 0 /\ raw' # 0 /\ air.seen /\ air.out.pts > 0
       => 2 * Ahead(air.out.pts, air'.out.pts) <= Wrap]_remapperVars
=============================================================================
