------------------------------ MODULE Switcher ------------------------------
(***************************************************************************)
(* The failover engine of switcher.go: the goroutine of Run, which owns    *)
(* the state machine live/backup, together with every goroutine it shares  *)
(* state with: the SRT manager and its packet readers, the statistics      *)
(* poller, the transcoding bridge and the readers of its sessions (old     *)
(* ones included), the router's drain loop, the watchdog timer and the     *)
(* API.                                                                    *)
(*                                                                         *)
(* A channel is a sequence read at its head.  A packet or chunk is its     *)
(* kind: "psi" (a PMT whose PAT was seen), "key" (the first packet of an   *)
(* IDR picture), "video" (any other video) and "other" (audio, PAT, SDT).  *)
(* One step of Run is one iteration of its loop: Go's select picks one of  *)
(* the ready cases, so each case is an action.  Time is a count of clock   *)
(* ticks.  Cases that change nothing the properties look at (fallback data *)
(* discarded in live, statistics) are stutters.                            *)
(***************************************************************************)
EXTENDS Naturals, Sequences

CONSTANTS
  SrtCap,      \* capacity of srtDataCh (5000 in the code)
  BridgeCap,   \* capacity of bridgeDataCh (5000 in the code)
  Timeout,     \* SRTTimeout, in clock ticks
  PollerOn,    \* StatsURL is configured, so statsPoller runs
  MaxStale     \* bound: readers of ended bridge sessions alive at once

ASSUME SwitcherAssumption ==
  /\ SrtCap \in Nat \ {0}
  /\ BridgeCap \in Nat \ {0}
  /\ Timeout \in Nat \ {0}
  /\ PollerOn \in BOOLEAN
  /\ MaxStale \in Nat \ {0}

VARIABLES
  state,       \* s.state: "live" or "backup"
  pc,          \* Run is at its "select", "bridging" (the bridge is started,
               \* the switch to it is not done yet), or has "exited"
  activePipe,  \* the pipeline the router holds in activePipe
  remap,       \* the remapper was "reset" or "prepared" for a source
  pidKnown,    \* s.videoPID # 0
  timer,       \* ticks left on the timeout timer, 0 once it has expired
  fired,       \* the expired timer's value waits in timeout.C
  bridge,      \* the session: "off", "cold" (no output yet) or "warm"
  stale,       \* readers of ended sessions: "holding" a chunk they may still
               \* send, or "ending", about to run their deferred Stop
  bridgeCh,    \* bridgeDataCh
  draining,    \* DrainInactive is in its inner loop over bridgeDataCh
  srt,         \* srtManagerLoop: "gate", "up", "eof", "cooldown", "exited"
  srtEnabled,  \* s.srtEnabled
  srtCh,       \* srtDataCh
  restartTok,  \* a token waits in restartSRTCh
  diedTok,     \* a token waits in srtDiedCh
  forceTok,    \* a token waits in forceFallbackCh
  splice,      \* since the router last switched: video "pending", or what
               \* the first picture was: a keyframe ("clean") or not ("torn")
  done         \* ctx is cancelled

runVars     == <<state, pc, activePipe, remap, splice>>
timerVars   == <<timer, fired>>
bridgeVars  == <<bridge, stale>>
managerVars == <<srt, srtEnabled>>
tokenVars   == <<restartTok, diedTok, forceTok>>

vars == <<runVars, pidKnown, timerVars, bridgeVars, bridgeCh, draining,
          managerVars, srtCh, tokenVars, done>>

Kinds  == {"psi", "key", "video", "other"}
Chunks == {"key", "video"}
Pipes  == {"fallback", "srt", "bridge"}

StaleReaders ==
  {r \in [holding : 0..MaxStale, ending : 0..MaxStale] :
     r.holding + r.ending <= MaxStale}

TypeOK ==
  /\ state \in {"live", "backup"}
  /\ pc \in {"select", "bridging", "exited"}
  /\ activePipe \in Pipes
  /\ remap \in {"reset", "prepared"}
  /\ splice \in {"pending", "clean", "torn"}
  /\ pidKnown \in BOOLEAN
  /\ timer \in 0..Timeout /\ fired \in BOOLEAN
  /\ bridge \in {"off", "cold", "warm"}
  /\ stale \in StaleReaders
  /\ bridgeCh \in Seq(Chunks) /\ Len(bridgeCh) <= BridgeCap
  /\ draining \in BOOLEAN
  /\ srt \in {"gate", "up", "eof", "cooldown", "exited"}
  /\ srtEnabled \in BOOLEAN
  /\ srtCh \in Seq(Kinds) /\ Len(srtCh) <= SrtCap
  /\ restartTok \in BOOLEAN /\ diedTok \in BOOLEAN /\ forceTok \in BOOLEAN
  /\ done \in BOOLEAN

\* Run up to its loop: fallback on air, the timer running, all inputs empty.
Init ==
  /\ state = "backup" /\ pc = "select" /\ activePipe = "fallback"
  /\ remap = "reset" /\ splice = "pending"
  /\ pidKnown = FALSE
  /\ timer = Timeout /\ fired = FALSE
  /\ bridge = "off" /\ stale = [holding |-> 0, ending |-> 0]
  /\ bridgeCh = <<>> /\ draining = FALSE
  /\ srt = "gate" /\ srtEnabled = TRUE /\ srtCh = <<>>
  /\ restartTok = FALSE /\ diedTok = FALSE /\ forceTok = FALSE
  /\ done = FALSE

-----------------------------------------------------------------------------
(* What the handlers of Run are made of.                                   *)

AtSelect(s) == pc = "select" /\ state = s

\* Stop, drain and Reset of the timeout timer.
Rearm == timer' = Timeout /\ fired' = FALSE

\* What processPackets and containsKeyframe learn from a packet.
Learns_Never(kind) == pidKnown
Learns(kind) == pidKnown \/ kind = "psi"

\* containsKeyframe on a packet of srtDataCh.
IsKeyframe(kind) == kind = "key" /\ pidKnown

\* containsVideo: everything is video until the video PID is known.
CountsAsVideo(kind) == ~Learns(kind) \/ kind \in {"key", "video"}

\* Broadcast of a packet, seen from the splice at the last router switch.
Broadcast(kind) ==
  splice' = IF splice # "pending" \/ kind \notin Chunks THEN splice
            ELSE IF kind = "key" THEN "clean" ELSE "torn"

\* One more reader has lost its session; it may hold a chunk of it.
Orphan(readers) ==
  \E at \in {"holding", "ending"} :
    /\ readers.holding + readers.ending < MaxStale
    /\ stale' = [readers EXCEPT ![at] = @ + 1]

\* tb.Stop, as Run calls it.
StopBridge_NoKill == UNCHANGED bridgeVars
StopBridge ==
  /\ bridge' = "off"
  /\ IF bridge = "off" THEN UNCHANGED stale ELSE Orphan(stale)

\* setStateWithReason(StateLive), SwitchTo, PrepareSwitch and the timer.
GoLive_TimerLeft(pipe) ==
  /\ state' = "live" /\ activePipe' = pipe /\ remap' = "prepared"
  /\ UNCHANGED timerVars
GoLive(pipe) ==
  /\ state' = "live" /\ activePipe' = pipe /\ remap' = "prepared"
  /\ Rearm

\* The way back shared by the four exits of live.
GoBackup_NoReset ==
  /\ state' = "backup" /\ activePipe' = "fallback" /\ UNCHANGED remap
  /\ splice' = "pending"
  /\ StopBridge
GoBackup ==
  /\ state' = "backup" /\ activePipe' = "fallback" /\ remap' = "reset"
  /\ splice' = "pending"
  /\ StopBridge

\* RestartSRT: the token is dropped when one waits already.
RestartSRT == restartTok' = TRUE

-----------------------------------------------------------------------------
(* Run in StateLive.                                                       *)

\* A packet of SRT while the bridge runs only feeds the bridge; a natural
\* keyframe ends the session and hands the router to the raw stream.
LiveSrtBridged ==
  /\ AtSelect("live") /\ srtCh # <<>> /\ bridge # "off"
  /\ srtCh' = Tail(srtCh)
  /\ pidKnown' = Learns(Head(srtCh))
  /\ IF IsKeyframe(Head(srtCh))
       THEN StopBridge /\ activePipe' = "srt" /\ splice' = "pending"
       ELSE UNCHANGED <<bridgeVars, activePipe, splice>>
  /\ UNCHANGED <<state, pc, remap, timerVars, bridgeCh, draining,
                 managerVars, tokenVars, done>>

\* Direct passthrough.
LiveSrtDirect ==
  /\ AtSelect("live") /\ srtCh # <<>> /\ bridge = "off"
  /\ srtCh' = Tail(srtCh)
  /\ pidKnown' = Learns(Head(srtCh))
  /\ IF CountsAsVideo(Head(srtCh)) THEN Rearm ELSE UNCHANGED timerVars
  /\ Broadcast(Head(srtCh))
  /\ UNCHANGED <<state, pc, activePipe, remap, bridgeVars, bridgeCh,
                 draining, managerVars, tokenVars, done>>

\* A chunk of the bridge is broadcast, whatever session it came from.  The
\* chunk of a read that is not aligned to packets shows no video to the timer.
LiveBridge ==
  /\ AtSelect("live") /\ bridgeCh # <<>>
  /\ bridgeCh' = Tail(bridgeCh)
  /\ pidKnown' = (pidKnown \/ Head(bridgeCh) = "key")
  /\ Rearm \/ UNCHANGED timerVars
  /\ Broadcast(Head(bridgeCh))
  /\ UNCHANGED <<state, pc, activePipe, remap, bridgeVars, draining,
                 managerVars, srtCh, tokenVars, done>>

LiveTimeout ==
  /\ AtSelect("live") /\ fired
  /\ fired' = FALSE
  /\ GoBackup /\ RestartSRT
  /\ UNCHANGED <<pc, pidKnown, timer, bridgeCh, draining, managerVars, srtCh,
                 diedTok, forceTok, done>>

\* bitrateCheckTicker, when checkBitrateThreshold finds the input too low.
LiveBitrate ==
  /\ AtSelect("live")
  /\ GoBackup /\ RestartSRT
  /\ UNCHANGED <<pc, pidKnown, timerVars, bridgeCh, draining, managerVars,
                 srtCh, diedTok, forceTok, done>>

LiveForced ==
  /\ AtSelect("live") /\ forceTok
  /\ forceTok' = FALSE
  /\ GoBackup /\ RestartSRT
  /\ UNCHANGED <<pc, pidKnown, timerVars, bridgeCh, draining, managerVars,
                 srtCh, diedTok, done>>

LiveSrtDied ==
  /\ AtSelect("live") /\ diedTok
  /\ diedTok' = FALSE
  /\ GoBackup
  /\ UNCHANGED <<pc, pidKnown, timerVars, bridgeCh, draining, managerVars,
                 srtCh, restartTok, forceTok, done>>

LiveExit_LeavesBridge ==
  /\ AtSelect("live") /\ done
  /\ pc' = "exited"
  /\ StopBridge_NoKill
  /\ UNCHANGED <<state, activePipe, remap, splice, pidKnown, timerVars,
                 bridgeCh, draining, managerVars, srtCh, tokenVars, done>>
LiveExit ==
  /\ AtSelect("live") /\ done
  /\ pc' = "exited"
  /\ StopBridge
  /\ UNCHANGED <<state, activePipe, remap, splice, pidKnown, timerVars,
                 bridgeCh, draining, managerVars, srtCh, tokenVars, done>>

-----------------------------------------------------------------------------
(* Run in StateFallback.                                                   *)

\* Whatever the fallback process delivers goes on air at once.
BackupFallback ==
  /\ AtSelect("backup")
  /\ \E kind \in Chunks : Broadcast(kind)
  /\ UNCHANGED <<state, pc, activePipe, remap, pidKnown, timerVars,
                 bridgeVars, bridgeCh, draining, managerVars, srtCh, tokenVars,
                 done>>

\* Fast path: a keyframe takes the relay live, and is broadcast.
BackupKeyframe_NotWatched ==
  /\ AtSelect("backup") /\ srtCh # <<>> /\ IsKeyframe(Head(srtCh))
  /\ srtCh' = Tail(srtCh)
  /\ GoLive_TimerLeft("srt")
  /\ splice' = "clean"
  /\ UNCHANGED <<pc, pidKnown, bridgeVars, bridgeCh, draining, managerVars,
                 tokenVars, done>>
BackupKeyframe ==
  /\ AtSelect("backup") /\ srtCh # <<>> /\ IsKeyframe(Head(srtCh))
  /\ srtCh' = Tail(srtCh)
  /\ GoLive("srt")
  /\ splice' = "clean"
  /\ UNCHANGED <<pc, pidKnown, bridgeVars, bridgeCh, draining, managerVars,
                 tokenVars, done>>

\* Bridge path, first half: video without a keyframe starts a session, which
\* fails once ctx is cancelled and may fail before; the packet is lost then.
BackupStartBridge ==
  /\ AtSelect("backup") /\ srtCh # <<>>
  /\ ~IsKeyframe(Head(srtCh)) /\ CountsAsVideo(Head(srtCh)) /\ bridge = "off"
  /\ srtCh' = Tail(srtCh)
  /\ \/ /\ ~done
        /\ stale.holding + stale.ending < MaxStale
        /\ bridge' = "cold" /\ pc' = "bridging"
     \/ UNCHANGED <<bridge, pc>>
  /\ UNCHANGED <<state, activePipe, remap, splice, pidKnown, timerVars,
                 stale, bridgeCh, draining, managerVars, tokenVars, done>>

\* Bridge path, second half: the switch to the session, which may have ended.
BackupEnterBridge ==
  /\ pc = "bridging"
  /\ pc' = "select"
  /\ GoLive("bridge")
  /\ splice' = "pending"
  /\ UNCHANGED <<pidKnown, bridgeVars, bridgeCh, draining, managerVars, srtCh,
                 tokenVars, done>>

\* A packet that starts nothing.
BackupDiscard ==
  /\ AtSelect("backup") /\ srtCh # <<>>
  /\ ~IsKeyframe(Head(srtCh))
  /\ ~CountsAsVideo(Head(srtCh)) \/ bridge # "off"
  /\ srtCh' = Tail(srtCh)
  /\ pidKnown' = Learns(Head(srtCh))
  /\ UNCHANGED <<runVars, timerVars, bridgeVars, bridgeCh, draining,
                 managerVars, tokenVars, done>>

\* The tokens of the poller and of the manager mean nothing in fallback.
BackupToken ==
  /\ AtSelect("backup")
  /\ \/ forceTok /\ forceTok' = FALSE /\ UNCHANGED diedTok
     \/ diedTok /\ diedTok' = FALSE /\ UNCHANGED forceTok
  /\ UNCHANGED <<runVars, pidKnown, timerVars, bridgeVars, bridgeCh, draining,
                 managerVars, srtCh, restartTok, done>>

BackupExit ==
  /\ AtSelect("backup") /\ done
  /\ pc' = "exited"
  /\ UNCHANGED <<state, activePipe, remap, splice, pidKnown, timerVars,
                 bridgeVars, bridgeCh, draining, managerVars, srtCh, tokenVars,
                 done>>

-----------------------------------------------------------------------------
(* The timeout timer.                                                      *)

ClockTick ==
  /\ timer > 0
  /\ timer' = timer - 1
  /\ fired' = (fired \/ timer = 1)
  /\ UNCHANGED <<runVars, pidKnown, bridgeVars, bridgeCh, draining,
                 managerVars, srtCh, tokenVars, done>>

-----------------------------------------------------------------------------
(* The transcoding bridge: the readers of its sessions and the drain loop. *)

\* FFmpeg starts its output with an IDR picture; its reader sends it on.
BridgeOutput ==
  /\ bridge # "off" /\ Len(bridgeCh) < BridgeCap
  /\ \E kind \in IF bridge = "cold" THEN {"key"} ELSE Chunks :
       bridgeCh' = Append(bridgeCh, kind)
  /\ bridge' = "warm"
  /\ UNCHANGED <<runVars, pidKnown, timerVars, stale, draining, managerVars,
                 srtCh, tokenVars, done>>

\* FFmpeg ends by itself: the session's own reader runs its deferred Stop.
BridgeEof ==
  /\ bridge # "off"
  /\ bridge' = "off"
  /\ UNCHANGED <<runVars, pidKnown, timerVars, stale, bridgeCh, draining,
                 managerVars, srtCh, tokenVars, done>>

\* A reader whose session was stopped in its send still gets its chunk in.
StaleOutput ==
  /\ stale.holding > 0 /\ Len(bridgeCh) < BridgeCap
  /\ stale' = [holding |-> stale.holding - 1, ending |-> stale.ending + 1]
  /\ \E kind \in Chunks : bridgeCh' = Append(bridgeCh, kind)
  /\ UNCHANGED <<runVars, pidKnown, timerVars, bridge, draining, managerVars,
                 srtCh, tokenVars, done>>

\* The deferred Stop of an old reader: it stops whichever session is active.
StaleStop ==
  /\ \E at \in {"holding", "ending"} :
       /\ stale[at] > 0
       /\ LET left == [stale EXCEPT ![at] = @ - 1] IN
          IF bridge = "off" THEN stale' = left ELSE Orphan(left)
  /\ bridge' = "off"
  /\ UNCHANGED <<runVars, pidKnown, timerVars, bridgeCh, draining,
                 managerVars, srtCh, tokenVars, done>>

\* DrainInactive tests p.Active once and then empties the channel.
DrainBegin ==
  /\ ~draining /\ activePipe # "bridge" /\ bridgeCh # <<>> /\ ~done
  /\ draining' = TRUE
  /\ UNCHANGED <<runVars, pidKnown, timerVars, bridgeVars, bridgeCh,
                 managerVars, srtCh, tokenVars, done>>

DrainStep ==
  /\ draining
  /\ IF bridgeCh = <<>> THEN draining' = FALSE /\ UNCHANGED bridgeCh
                        ELSE bridgeCh' = Tail(bridgeCh) /\ UNCHANGED draining
  /\ UNCHANGED <<runVars, pidKnown, timerVars, bridgeVars, managerVars, srtCh,
                 tokenVars, done>>

-----------------------------------------------------------------------------
(* srtManagerLoop and readInputLoop.                                       *)

\* A process that fails to start leaves the manager at its gate.
SrtStart ==
  /\ srt = "gate" /\ srtEnabled
  /\ srt' = "up"
  /\ UNCHANGED <<runVars, pidKnown, timerVars, bridgeVars, bridgeCh, draining,
                 srtEnabled, srtCh, tokenVars, done>>

\* The reader of a process that was killed is not waited for: it delivers
\* what it holds during the two seconds before the next start.
SrtPush_NoBackPressure ==
  /\ srt \in {"up", "cooldown"}
  /\ \E kind \in Kinds : srtCh' = Append(srtCh, kind)
  /\ UNCHANGED <<runVars, pidKnown, timerVars, bridgeVars, bridgeCh, draining,
                 managerVars, tokenVars, done>>
SrtPush ==
  /\ srt \in {"up", "cooldown"}
  /\ Len(srtCh) < SrtCap
  /\ \E kind \in Kinds : srtCh' = Append(srtCh, kind)
  /\ UNCHANGED <<runVars, pidKnown, timerVars, bridgeVars, bridgeCh, draining,
                 managerVars, tokenVars, done>>

\* The reader meets the end of the process's output.
SrtEof ==
  /\ srt = "up"
  /\ srt' = "eof"
  /\ UNCHANGED <<runVars, pidKnown, timerVars, bridgeVars, bridgeCh, draining,
                 srtEnabled, srtCh, tokenVars, done>>

\* The manager's select, the Stop of the process and the token for Run.
SrtStop ==
  /\ \/ srt = "eof" /\ UNCHANGED restartTok
     \/ srt \in {"up", "eof"} /\ restartTok /\ restartTok' = FALSE
  /\ srt' = "cooldown"
  /\ diedTok' = TRUE
  /\ UNCHANGED <<runVars, pidKnown, timerVars, bridgeVars, bridgeCh, draining,
                 srtEnabled, srtCh, forceTok, done>>

SrtCooled ==
  /\ srt = "cooldown"
  /\ srt' = "gate"
  /\ UNCHANGED <<runVars, pidKnown, timerVars, bridgeVars, bridgeCh, draining,
                 srtEnabled, srtCh, tokenVars, done>>

SrtExit ==
  /\ done /\ srt # "exited"
  /\ srt' = "exited"
  /\ UNCHANGED <<runVars, pidKnown, timerVars, bridgeVars, bridgeCh, draining,
                 srtEnabled, srtCh, tokenVars, done>>

-----------------------------------------------------------------------------
(* The statistics poller, the API and the shutdown.                        *)

PollNobody ==
  /\ PollerOn
  /\ srtEnabled' = FALSE
  /\ forceTok' = TRUE
  /\ UNCHANGED <<runVars, pidKnown, timerVars, bridgeVars, bridgeCh, draining,
                 srt, srtCh, restartTok, diedTok, done>>

PollPublisher ==
  /\ PollerOn
  /\ srtEnabled' = TRUE
  /\ UNCHANGED <<runVars, pidKnown, timerVars, bridgeVars, bridgeCh, draining,
                 srt, srtCh, tokenVars, done>>

ApiRestartSrt ==
  /\ RestartSRT
  /\ UNCHANGED <<runVars, pidKnown, timerVars, bridgeVars, bridgeCh, draining,
                 managerVars, srtCh, diedTok, forceTok, done>>

Cancel ==
  /\ done' = TRUE
  /\ UNCHANGED <<runVars, pidKnown, timerVars, bridgeVars, bridgeCh, draining,
                 managerVars, srtCh, tokenVars>>

-----------------------------------------------------------------------------
Live ==
  \/ LiveSrtBridged \/ LiveSrtDirect \/ LiveBridge
  \/ LiveTimeout \/ LiveBitrate \/ LiveForced \/ LiveSrtDied \/ LiveExit

Backup ==
  \/ BackupFallback \/ BackupKeyframe \/ BackupStartBridge \/ BackupEnterBridge
  \/ BackupDiscard \/ BackupToken \/ BackupExit

Bridge ==
  \/ BridgeOutput \/ BridgeEof \/ StaleOutput \/ StaleStop
  \/ DrainBegin \/ DrainStep

Manager ==
  \/ SrtStart \/ SrtPush \/ SrtEof \/ SrtStop \/ SrtCooled \/ SrtExit

Outside == PollNobody \/ PollPublisher \/ ApiRestartSrt \/ Cancel

Next == Live \/ Backup \/ ClockTick \/ Bridge \/ Manager \/ Outside

\* Time passes, select serves a case that stays ready (it picks uniformly
\* among the ready ones), goroutines that can go on do.
Fairness ==
  /\ WF_vars(ClockTick)
  /\ WF_vars(LiveTimeout)
  /\ WF_vars(LiveExit \/ BackupExit)
  /\ WF_vars(BackupEnterBridge)
  /\ WF_vars(BackupKeyframe)
  /\ WF_vars(StaleStop)
  /\ WF_vars(SrtExit)

Spec == Init /\ [][Next]_vars

FairSpec == Spec /\ Fairness

-----------------------------------------------------------------------------
(* Safety.                                                                 *)

\* A bridge session only ever runs for the pipeline "bridge": while Run is
\* about to switch to it, or in a live episode that has.  No interleaving of
\* old readers, exits from live and restarts leaves FFmpeg running for nobody.
BridgeConfined ==
  bridge # "off" => pc = "bridging" \/ (state = "live" /\ activePipe = "bridge"
                                        /\ pc = "select")

\* The three pieces of state that the exits of live reset separately agree
\* whenever Run waits: the state, the router's pipeline and the remapper.
EpisodeConsistent ==
  /\ state = "backup" <=> activePipe = "fallback"
  /\ state = "backup" <=> remap = "reset"
  /\ pc = "bridging" => state = "backup"

\* A live episode is always watched: its timer runs or has its value waiting.
\* Otherwise a source that went silent would stay on air for ever.
Watched == state = "live" => timer > 0 \/ fired

\* The documentation's artefact-free way back to live (README.md:28-30,
\* ADR-002): the first picture of direct passthrough is a keyframe, also when
\* a natural keyframe took over from the bridge.
PassthroughStartsOnKeyframe ==
  [][LiveSrtDirect /\ activePipe = "srt" /\ splice = "pending"
       => splice' # "torn"]_vars

\* The comment at transcoding_bridge.go:18-21 promises one continuous session
\* from the start of the bridge to the natural keyframe.  So the deferred Stop
\* of an older session's reader must leave a newer session alone.  (A change
\* of stale tells this step from the session's own reader stopping it.)
OldReadersHarmless ==
  [][StaleStop /\ stale' # stale => UNCHANGED bridge]_vars

-----------------------------------------------------------------------------
(* Liveness, under FairSpec.                                               *)

AtHeadInBackup(kind) ==
  AtSelect("backup") /\ srtCh # <<>> /\ Head(srtCh) = kind

\* A live episode that lasts keeps hearing video: the timer is renewed over
\* and over, or the relay returns to the fallback, or it is shut down.
SilenceFallsBack ==
  []<>(timer = Timeout) \/ []<>(state = "backup") \/ <>(pc = "exited")

\* A source that keeps announcing its streams and sending keyframes to a relay
\* in fallback takes it live: the video PID is learnt from the packets that
\* are thrown away, so the keyframe is recognised when it comes.
KeyframesGoLive ==
  []<>AtHeadInBackup("psi") /\ []<>AtHeadInBackup("key")
    => []<>(state = "live")

\* Cancelling the context ends Run, the SRT process and the bridge, for good.
ShutdownCompletes ==
  done ~> [](pc = "exited" /\ bridge = "off" /\ srt = "exited")

-----------------------------------------------------------------------------
\* The relay keeps the promise of Failover.
FO == INSTANCE Failover WITH
        source <- activePipe, guarded <- (timer > 0 \/ fired),
        closing <- done, halted <- (pc = "exited")
Refines == FO!Spec
=============================================================================
