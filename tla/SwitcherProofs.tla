--------------------------- MODULE SwitcherProofs ---------------------------
(***************************************************************************)
(* What Switcher keeps for every channel capacity, timeout and number of   *)
(* old bridge readers, checked by TLAPS.                                   *)
(***************************************************************************)
EXTENDS Switcher, SequenceTheorems, TLAPS

\* The inductive invariant: typed states whose parts agree with each other.
IInv == TypeOK /\ BridgeConfined /\ EpisodeConsistent /\ Watched

-----------------------------------------------------------------------------
\* Taking the head of a bounded channel, and sending to one that has room,
\* leave a bounded channel.
LEMMA ChannelOps ==
  ASSUME NEW S, NEW cap \in Nat, NEW ch \in Seq(S), Len(ch) <= cap
  PROVE  /\ ch # <<>> => /\ Tail(ch) \in Seq(S) /\ Len(Tail(ch)) <= cap
                         /\ Head(ch) \in S
         /\ Len(ch) < cap => \A x \in S : /\ Append(ch, x) \in Seq(S)
                                          /\ Len(Append(ch, x)) <= cap
<1>1. ASSUME ch # <<>>
      PROVE  /\ Tail(ch) \in Seq(S) /\ Len(Tail(ch)) <= cap /\ Head(ch) \in S
  BY <1>1
<1>2. ASSUME Len(ch) < cap, NEW x \in S
      PROVE  Append(ch, x) \in Seq(S) /\ Len(Append(ch, x)) <= cap
  BY <1>2
<1>3. QED
  BY <1>1, <1>2

\* One more orphaned reader is within the bound.
LEMMA OrphanType ==
  ASSUME NEW readers \in StaleReaders, Orphan(readers), TypeOK
  PROVE  stale' \in StaleReaders
BY SwitcherAssumption DEF SwitcherAssumption, Orphan, StaleReaders, TypeOK

\* A stop leaves no session, and one more old reader at most.
LEMMA StopBridgeType ==
  ASSUME TypeOK, StopBridge
  PROVE  bridge' = "off" /\ stale' \in StaleReaders
<1>1. CASE bridge = "off"
  BY <1>1 DEF StopBridge, TypeOK
<1>2. CASE bridge # "off"
  BY <1>2, OrphanType DEF StopBridge, TypeOK
<1>3. QED
  BY <1>1, <1>2

\* The way out of live is well typed.
LEMMA GoBackupType ==
  ASSUME TypeOK, GoBackup
  PROVE  /\ state' = "backup" /\ activePipe' = "fallback" /\ remap' = "reset"
         /\ splice' = "pending" /\ bridge' = "off" /\ stale' \in StaleReaders
BY StopBridgeType DEF GoBackup

\* So is the way into it, and it starts the timer.
LEMMA GoLiveType ==
  ASSUME TypeOK, NEW pipe \in {"srt", "bridge"}, GoLive(pipe)
  PROVE  /\ state' = "live" /\ activePipe' = pipe /\ activePipe' \in Pipes
         /\ remap' = "prepared"
         /\ timer' \in 0..Timeout /\ timer' > 0 /\ fired' \in BOOLEAN
<1>1. timer' \in 0..Timeout /\ timer' > 0
  BY SwitcherAssumption DEF SwitcherAssumption, GoLive, Rearm
<1>2. fired' \in BOOLEAN
  BY DEF GoLive, Rearm
<1>3. state' = "live" /\ activePipe' = pipe /\ remap' = "prepared"
  BY DEF GoLive
<1>4. QED
  BY <1>1, <1>2, <1>3 DEF Pipes

\* A broadcast leaves a well-typed splice.
LEMMA BroadcastType ==
  ASSUME TypeOK, NEW kind, Broadcast(kind)
  PROVE  splice' \in {"pending", "clean", "torn"}
BY DEF Broadcast, TypeOK

\* A timer that is renewed or left alone still watches a live episode.
LEMMA RearmType ==
  ASSUME TypeOK, Rearm \/ UNCHANGED timerVars
  PROVE  /\ timer' \in 0..Timeout /\ fired' \in BOOLEAN
         /\ timer > 0 \/ fired => timer' > 0 \/ fired'
<1> USE SwitcherAssumption DEF SwitcherAssumption, TypeOK
<1>1. CASE Rearm
  <2>1. timer' \in 0..Timeout /\ timer' > 0
    BY <1>1 DEF Rearm
  <2>2. fired' \in BOOLEAN
    BY <1>1 DEF Rearm
  <2>3. QED
    BY <2>1, <2>2
<1>2. CASE UNCHANGED timerVars
  <2>1. timer' = timer /\ fired' = fired
    BY <1>2 DEF timerVars
  <2>2. QED
    BY <2>1
<1>3. QED
  BY <1>1, <1>2

-----------------------------------------------------------------------------
\* Run enters its loop in a state of the invariant.
LEMMA InitInv == Init => IInv
<1> SUFFICES ASSUME Init PROVE IInv
  OBVIOUS
<1> USE SwitcherAssumption DEF SwitcherAssumption, Init
<1>1. srtCh \in Seq(Kinds) /\ Len(srtCh) <= SrtCap
  OBVIOUS
<1>2. bridgeCh \in Seq(Chunks) /\ Len(bridgeCh) <= BridgeCap
  OBVIOUS
<1>3. stale \in StaleReaders /\ timer \in 0..Timeout /\ timer > 0
  BY DEF StaleReaders
<1>4. TypeOK
  BY <1>1, <1>2, <1>3 DEF TypeOK, Pipes
<1>5. QED
  BY <1>3, <1>4 DEF IInv, BridgeConfined, EpisodeConsistent, Watched

\* The steps of Run in live.
LEMMA LiveStep == IInv /\ Live => IInv'
<1> SUFFICES ASSUME IInv, Live PROVE IInv'
  OBVIOUS
<1> USE SwitcherAssumption
    DEF SwitcherAssumption, IInv, TypeOK, BridgeConfined, EpisodeConsistent, Watched, AtSelect,
        runVars, timerVars, bridgeVars, managerVars, tokenVars
<1>1. CASE LiveSrtBridged
  <2>1. Tail(srtCh) \in Seq(Kinds) /\ Len(Tail(srtCh)) <= SrtCap
    BY <1>1, ChannelOps DEF LiveSrtBridged
  <2>2. pidKnown' \in BOOLEAN
    BY <1>1 DEF LiveSrtBridged, Learns
  <2>3. CASE IsKeyframe(Head(srtCh))
    <3>1. bridge' = "off" /\ stale' \in StaleReaders
      BY <1>1, <2>3, StopBridgeType DEF LiveSrtBridged
    <3>2. QED
      BY <1>1, <2>1, <2>2, <2>3, <3>1 DEF LiveSrtBridged, Pipes
  <2>4. CASE ~IsKeyframe(Head(srtCh))
    BY <1>1, <2>1, <2>2, <2>4 DEF LiveSrtBridged
  <2>5. QED
    BY <2>3, <2>4
<1>2. CASE LiveSrtDirect
  <2>1. Tail(srtCh) \in Seq(Kinds) /\ Len(Tail(srtCh)) <= SrtCap
    BY <1>2, ChannelOps DEF LiveSrtDirect
  <2>2. pidKnown' \in BOOLEAN
    BY <1>2 DEF LiveSrtDirect, Learns
  <2>3. splice' \in {"pending", "clean", "torn"}
    BY <1>2, BroadcastType DEF LiveSrtDirect
  <2>4. /\ timer' \in 0..Timeout /\ fired' \in BOOLEAN
        /\ timer > 0 \/ fired => timer' > 0 \/ fired'
    BY <1>2, RearmType DEF LiveSrtDirect
  <2>5. QED
    BY <1>2, <2>1, <2>2, <2>3, <2>4 DEF LiveSrtDirect
<1>3. CASE LiveBridge
  <2>1. Tail(bridgeCh) \in Seq(Chunks) /\ Len(Tail(bridgeCh)) <= BridgeCap
    BY <1>3, ChannelOps DEF LiveBridge
  <2>2. splice' \in {"pending", "clean", "torn"}
    BY <1>3, BroadcastType DEF LiveBridge
  <2>3. /\ timer' \in 0..Timeout /\ fired' \in BOOLEAN
        /\ timer > 0 \/ fired => timer' > 0 \/ fired'
    BY <1>3, RearmType DEF LiveBridge
  <2>4. pidKnown' \in BOOLEAN
    BY <1>3 DEF LiveBridge
  <2>5. QED
    BY <1>3, <2>1, <2>2, <2>3, <2>4 DEF LiveBridge
<1>4. CASE LiveTimeout
  BY <1>4, GoBackupType DEF LiveTimeout, RestartSRT, Pipes
<1>5. CASE LiveBitrate
  BY <1>5, GoBackupType DEF LiveBitrate, RestartSRT, Pipes
<1>6. CASE LiveForced
  BY <1>6, GoBackupType DEF LiveForced, RestartSRT, Pipes
<1>7. CASE LiveSrtDied
  BY <1>7, GoBackupType DEF LiveSrtDied, Pipes
<1>8. CASE LiveExit
  BY <1>8, StopBridgeType DEF LiveExit
<1>9. QED
  BY <1>1, <1>2, <1>3, <1>4, <1>5, <1>6, <1>7, <1>8 DEF Live

\* The steps of Run in fallback, and into live.
LEMMA BackupStep == IInv /\ Backup => IInv'
<1> SUFFICES ASSUME IInv, Backup PROVE IInv'
  OBVIOUS
<1> USE SwitcherAssumption
    DEF SwitcherAssumption, IInv, TypeOK, BridgeConfined, EpisodeConsistent,
        Watched, AtSelect, runVars, timerVars, bridgeVars, managerVars,
        tokenVars
<1>1. srtCh # <<>> => Tail(srtCh) \in Seq(Kinds) /\ Len(Tail(srtCh)) <= SrtCap
  BY ChannelOps
<1>2. CASE BackupFallback
  <2>1. splice' \in {"pending", "clean", "torn"}
    BY <1>2, BroadcastType DEF BackupFallback
  <2>2. QED
    BY <1>2, <2>1 DEF BackupFallback
<1>3. CASE BackupKeyframe
  <2>1. GoLive("srt")
    BY <1>3 DEF BackupKeyframe
  <2>2. QED
    BY <1>1, <1>3, <2>1, GoLiveType DEF BackupKeyframe
<1>4. CASE BackupStartBridge
  BY <1>1, <1>4 DEF BackupStartBridge
<1>5. CASE BackupEnterBridge
  <2>1. GoLive("bridge")
    BY <1>5 DEF BackupEnterBridge
  <2>2. QED
    BY <1>5, <2>1, GoLiveType DEF BackupEnterBridge
<1>6. CASE BackupDiscard
  <2>1. pidKnown' \in BOOLEAN
    BY <1>6 DEF BackupDiscard, Learns
  <2>2. QED
    BY <1>1, <1>6, <2>1 DEF BackupDiscard
<1>7. CASE BackupToken
  <2>1. forceTok' \in BOOLEAN /\ diedTok' \in BOOLEAN
    BY <1>7 DEF BackupToken
  <2>2. QED
    BY <1>7, <2>1 DEF BackupToken
<1>8. CASE BackupExit
  BY <1>8 DEF BackupExit
<1>9. QED
  BY <1>2, <1>3, <1>4, <1>5, <1>6, <1>7, <1>8 DEF Backup

\* The steps of the goroutines around Run.
LEMMA OtherStep == IInv /\ (ClockTick \/ Bridge \/ Manager \/ Outside) => IInv'
<1> SUFFICES ASSUME IInv, ClockTick \/ Bridge \/ Manager \/ Outside PROVE IInv'
  OBVIOUS
<1> USE SwitcherAssumption
    DEF SwitcherAssumption, IInv, TypeOK, BridgeConfined, EpisodeConsistent,
        Watched, runVars, timerVars, bridgeVars, managerVars, tokenVars
<1>1. CASE ClockTick
  <2>1. timer' \in 0..Timeout /\ fired' \in BOOLEAN
    BY <1>1 DEF ClockTick
  <2>2. timer' > 0 \/ fired'
    <3>1. CASE timer = 1
      BY <1>1, <3>1 DEF ClockTick
    <3>2. CASE timer # 1
      BY <1>1, <3>2 DEF ClockTick
    <3>3. QED
      BY <3>1, <3>2
  <2>3. QED
    BY <1>1, <2>1, <2>2 DEF ClockTick
<1>2. CASE BridgeOutput
  <2>1. bridgeCh' \in Seq(Chunks) /\ Len(bridgeCh') <= BridgeCap
    BY <1>2, ChannelOps DEF BridgeOutput, Chunks
  <2>2. QED
    BY <1>2, <2>1 DEF BridgeOutput
<1>3. CASE BridgeEof
  BY <1>3 DEF BridgeEof
<1>4. CASE StaleOutput
  <2>1. bridgeCh' \in Seq(Chunks) /\ Len(bridgeCh') <= BridgeCap
    BY <1>4, ChannelOps DEF StaleOutput, Chunks
  <2>2. stale' \in StaleReaders
    BY <1>4 DEF StaleOutput, StaleReaders
  <2>3. QED
    BY <1>4, <2>1, <2>2 DEF StaleOutput
<1>5. CASE StaleStop
  <2>1. PICK at \in {"holding", "ending"} :
          /\ stale[at] > 0
          /\ LET left == [stale EXCEPT ![at] = @ - 1] IN
             IF bridge = "off" THEN stale' = left ELSE Orphan(left)
    BY <1>5 DEF StaleStop
  <2> DEFINE left == [stale EXCEPT ![at] = @ - 1]
  <2>2. left \in StaleReaders
    BY <2>1 DEF StaleReaders
  <2>3. stale' \in StaleReaders
    <3>1. CASE bridge = "off"
      BY <2>1, <2>2, <3>1
    <3>2. CASE bridge # "off"
      BY <2>1, <2>2, <3>2, OrphanType
    <3>3. QED
      BY <3>1, <3>2
  <2>4. QED
    BY <1>5, <2>3 DEF StaleStop
<1>6. CASE DrainBegin
  BY <1>6 DEF DrainBegin
<1>7. CASE DrainStep
  <2>1. bridgeCh' \in Seq(Chunks) /\ Len(bridgeCh') <= BridgeCap
    <3>1. CASE bridgeCh = <<>>
      BY <1>7, <3>1 DEF DrainStep
    <3>2. CASE bridgeCh # <<>>
      <4>1. bridgeCh' = Tail(bridgeCh)
        BY <1>7, <3>2 DEF DrainStep
      <4>2. QED
        BY <3>2, <4>1, ChannelOps
    <3>3. QED
      BY <3>1, <3>2
  <2>2. draining' \in BOOLEAN
    BY <1>7 DEF DrainStep
  <2>3. QED
    BY <1>7, <2>1, <2>2 DEF DrainStep
<1>8. CASE SrtPush
  <2>1. srtCh' \in Seq(Kinds) /\ Len(srtCh') <= SrtCap
    BY <1>8, ChannelOps DEF SrtPush
  <2>2. QED
    BY <1>8, <2>1 DEF SrtPush
<1>9. CASE SrtStart \/ SrtEof \/ SrtStop \/ SrtCooled \/ SrtExit
  <2>1. restartTok' \in BOOLEAN /\ diedTok' \in BOOLEAN
    BY <1>9 DEF SrtStart, SrtEof, SrtStop, SrtCooled, SrtExit
  <2>2. QED
    BY <1>9, <2>1 DEF SrtStart, SrtEof, SrtStop, SrtCooled, SrtExit
<1>10. CASE PollNobody
  <2>1. srtEnabled' \in BOOLEAN /\ forceTok' \in BOOLEAN
    BY <1>10 DEF PollNobody
  <2>2. QED
    BY <1>10, <2>1 DEF PollNobody
<1>11. CASE PollPublisher
  <2>1. srtEnabled' \in BOOLEAN
    BY <1>11 DEF PollPublisher
  <2>2. QED
    BY <1>11, <2>1 DEF PollPublisher
<1>12. CASE ApiRestartSrt
  BY <1>12 DEF ApiRestartSrt, RestartSRT
<1>13. CASE Cancel
  BY <1>13 DEF Cancel
<1>14. QED
  BY <1>1, <1>2, <1>3, <1>4, <1>5, <1>6, <1>7, <1>8, <1>9, <1>10, <1>11, <1>12,
     <1>13
     DEF Bridge, Manager, Outside

\* A stutter disturbs nothing.
LEMMA StutterStep == IInv /\ UNCHANGED vars => IInv'
BY DEF vars, IInv, TypeOK, BridgeConfined, EpisodeConsistent, Watched, runVars,
       timerVars, bridgeVars, managerVars, tokenVars

\* The invariant is inductive.
LEMMA NextStep == IInv /\ [Next]_vars => IInv'
BY LiveStep, BackupStep, OtherStep, StutterStep DEF Next

-----------------------------------------------------------------------------
\* switcher.go and transcoding_bridge.go: the inductive invariant holds.
THEOREM Invariance == Spec => []IInv
BY InitInv, NextStep, PTL DEF Spec

\* The state of Run, of the bridge, of the channels and of the manager keeps
\* its type: in particular no channel grows beyond its capacity.
THEOREM TypeCorrect == Spec => []TypeOK
<1>1. IInv => TypeOK
  BY DEF IInv
<1>2. QED
  BY <1>1, Invariance, PTL

\* No bridge session survives the live episode it was started for.
THEOREM BridgeIsConfined == Spec => []BridgeConfined
<1>1. IInv => BridgeConfined
  BY DEF IInv
<1>2. QED
  BY <1>1, Invariance, PTL

\* State, active pipeline and remapper agree whenever Run waits.
THEOREM EpisodesConsistent == Spec => []EpisodeConsistent
<1>1. IInv => EpisodeConsistent
  BY DEF IInv
<1>2. QED
  BY <1>1, Invariance, PTL

\* Every live episode has its watchdog, whatever path led into it.
THEOREM LiveIsWatched == Spec => []Watched
<1>1. IInv => Watched
  BY DEF IInv
<1>2. QED
  BY <1>1, Invariance, PTL

-----------------------------------------------------------------------------
(* Refinement: every step of the relay is a step of Failover or a stutter. *)

\* What a step leaves of the relay that Failover sees.
Guarded == timer > 0 \/ fired
Shown   == <<activePipe, Guarded, done, pc = "exited">>

LEMMA ShownStutters == UNCHANGED Shown => UNCHANGED FO!failoverVars
BY DEF Shown, Guarded, FO!failoverVars

\* Outside a live episode the watchdog may do anything.
LEMMA LapseMaps ==
  ASSUME activePipe = "fallback", UNCHANGED <<activePipe, done, pc>>
  PROVE  FO!Next
BY DEF FO!Next, FO!Lapse

\* The exits of live end the episode.
LEMMA EndMaps ==
  ASSUME IInv, AtSelect("live"), GoBackup, UNCHANGED <<pc, done>>
  PROVE  FO!Next
BY DEF IInv, EpisodeConsistent, AtSelect, GoBackup, FO!Next, FO!End

\* The two ways into live begin one.
LEMMA BeginMaps ==
  ASSUME IInv, state = "backup", pc # "exited", pc' # "exited",
         NEW pipe \in {"srt", "bridge"}, GoLive(pipe), UNCHANGED done
  PROVE  FO!Next
<1>1. activePipe = "fallback" /\ activePipe' = pipe
  BY DEF IInv, EpisodeConsistent, GoLive
<1>2. timer' > 0
  BY GoLiveType DEF IInv
<1>3. QED
  BY <1>1, <1>2 DEF FO!Next, FO!Begin

\* An episode that goes on keeps its pipeline and its watchdog.
LEMMA WatchMaps ==
  ASSUME IInv, IInv', UNCHANGED <<state, activePipe, done, pc>>
  PROVE  [FO!Next]_(FO!failoverVars)
<1>1. CASE state = "live"
  <2>1. Guarded /\ Guarded'
    BY <1>1 DEF IInv, Watched, Guarded
  <2>2. QED
    BY <2>1, ShownStutters DEF Shown, Guarded
<1>2. CASE state # "live"
  <2>1. activePipe = "fallback"
    BY <1>2 DEF IInv, TypeOK, EpisodeConsistent
  <2>2. QED
    BY <2>1, LapseMaps
<1>3. QED
  BY <1>1, <1>2

\* The steps of Run in live end, promote or go on with the episode.
LEMMA LiveMaps == IInv /\ IInv' /\ Live => [FO!Next]_(FO!failoverVars)
<1> SUFFICES ASSUME IInv, IInv', Live PROVE [FO!Next]_(FO!failoverVars)
  OBVIOUS
<1>1. CASE LiveSrtBridged
  <2>1. CASE activePipe' = activePipe
    BY <1>1, <2>1, WatchMaps DEF LiveSrtBridged
  <2>2. CASE activePipe' # activePipe
    <3>1. /\ activePipe = "bridge" /\ activePipe' = "srt" /\ pc = "select"
          /\ UNCHANGED <<timer, fired, done, pc>>
      BY <1>1, <2>2 DEF LiveSrtBridged, AtSelect, IInv, BridgeConfined, timerVars
    <3>2. QED
      BY <3>1 DEF FO!Next, FO!Promote
  <2>3. QED
    BY <2>1, <2>2
<1>2. CASE LiveSrtDirect
  BY <1>2, WatchMaps DEF LiveSrtDirect
<1>3. CASE LiveBridge
  BY <1>3, WatchMaps DEF LiveBridge
<1>4. CASE LiveTimeout
  BY <1>4, EndMaps DEF LiveTimeout
<1>5. CASE LiveBitrate
  BY <1>5, EndMaps DEF LiveBitrate
<1>6. CASE LiveForced
  BY <1>6, EndMaps DEF LiveForced
<1>7. CASE LiveSrtDied
  BY <1>7, EndMaps DEF LiveSrtDied
<1>8. CASE LiveExit
  BY <1>8 DEF LiveExit, AtSelect, timerVars, FO!Next, FO!Halt
<1>9. QED
  BY <1>1, <1>2, <1>3, <1>4, <1>5, <1>6, <1>7, <1>8 DEF Live

\* The steps of Run in fallback begin an episode, halt or show nothing.
LEMMA BackupMaps == IInv /\ IInv' /\ Backup => [FO!Next]_(FO!failoverVars)
<1> SUFFICES ASSUME IInv, IInv', Backup PROVE [FO!Next]_(FO!failoverVars)
  OBVIOUS
<1>1. CASE BackupFallback
  BY <1>1, WatchMaps DEF BackupFallback
<1>2. CASE BackupKeyframe
  BY <1>2, BeginMaps DEF BackupKeyframe, AtSelect
<1>3. CASE BackupStartBridge
  BY <1>3, ShownStutters
     DEF BackupStartBridge, AtSelect, Shown, Guarded, timerVars
<1>4. CASE BackupEnterBridge
  BY <1>4, BeginMaps DEF BackupEnterBridge, IInv, EpisodeConsistent
<1>5. CASE BackupDiscard
  BY <1>5, WatchMaps DEF BackupDiscard, runVars
<1>6. CASE BackupToken
  BY <1>6, WatchMaps DEF BackupToken, runVars
<1>7. CASE BackupExit
  BY <1>7 DEF BackupExit, AtSelect, timerVars, FO!Next, FO!Halt
<1>8. QED
  BY <1>1, <1>2, <1>3, <1>4, <1>5, <1>6, <1>7 DEF Backup

\* The goroutines around Run show nothing, but for the shutdown's request.
LEMMA OtherMaps ==
  ASSUME IInv, IInv', ClockTick \/ Bridge \/ Manager \/ Outside
  PROVE  [FO!Next]_(FO!failoverVars)
<1>1. CASE Cancel
  BY <1>1 DEF Cancel, runVars, timerVars, FO!Next, FO!Close
<1>2. CASE ClockTick \/ Bridge \/ Manager \/ PollNobody \/ PollPublisher
             \/ ApiRestartSrt
  <2>1. UNCHANGED runVars /\ UNCHANGED done
    BY <1>2
       DEF ClockTick, Bridge, BridgeOutput, BridgeEof, StaleOutput, StaleStop,
           DrainBegin, DrainStep, Manager, SrtStart, SrtPush, SrtEof, SrtStop,
           SrtCooled, SrtExit, PollNobody, PollPublisher, ApiRestartSrt
  <2>2. QED
    BY <2>1, WatchMaps DEF runVars
<1>3. QED
  BY <1>1, <1>2 DEF Outside

\* The relay starts as Failover does.
LEMMA InitMaps == Init => FO!Init
BY SwitcherAssumption DEF SwitcherAssumption, Init, FO!Init

\* Every step of the relay is one of Failover, or stutters.
LEMMA NextMaps == IInv /\ IInv' /\ [Next]_vars => [FO!Next]_(FO!failoverVars)
<1>1. UNCHANGED vars => UNCHANGED Shown
  BY DEF vars, runVars, timerVars, Shown, Guarded
<1>2. QED
  BY <1>1, ShownStutters, LiveMaps, BackupMaps, OtherMaps DEF Next

\* switcher.go keeps the safety half of Failover: one pipeline at a time, live
\* episodes that begin guarded, stay guarded, promote in one direction only.
THEOREM ImplementsFailover == Spec => FO!Init /\ [][FO!Next]_(FO!failoverVars)
BY InitMaps, Invariance, NextMaps, PTL DEF Spec
=============================================================================
