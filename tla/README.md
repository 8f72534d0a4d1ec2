# Oracle Stream Studio in TLA+

Oracle Stream Studio is a relay: it takes a live SRT feed, broadcasts it to
outputs, recorder and preview, and puts a looping fallback file on air while
the feed is missing. This directory models the Go program beside it, checks the
models with TLC and proves what matters most with TLAPS.

- [Components](#components) is the inventory of the program.
- [Modules](#modules) says what models what, and how state and actions correspond.
- [Runs](#runs) says what TLC checks, within which bounds, under which fairness.
- [Proofs](#proofs) says what holds for every value of the constants.
- [Findings](#findings), [Not modelled](#not-modelled), [Plan](#plan).

A run of PROJECT.json is `tlc -config <cfg> <module>`, for instance
`tlc -config SwitcherSafety.cfg Switcher` or `tlc -config MCOutputs.cfg MCOutputs`;
`tlapm SwitcherProofs.tla` (and PTSRemapper-, Broadcaster-, Outputs-,
Studio-, Automation-, MultiplexerProofs, ListLemmas) checks the proofs.

## Components

| Component | State | Operations | Interacts with | Correct when | Module |
|---|---|---|---|---|---|
| **Switcher** (switcher.go) | `state`, PIDs, timeout timer, counters, event history, configuration | one goroutine, `Run`: a select over SRT, bridge and fallback packets, timer, bitrate check, tokens, cancellation | all below, by channels of 5000 packets and one-slot token channels | every live episode is watched, ends in fallback, leaves no piece of state behind; a source that sends keyframes goes live | Switcher, Failover |
| **SRT / fallback managers** (switcher.go) | the FFmpeg process, `srtEnabled` | start, wait for death, restart token or cancellation, stop, cool down | `Run` (packets, died token), the poller (`srtEnabled`, force token), the API (restart token) | one process at a time; always ends on shutdown; no restart lost | Switcher (SRT), Scenes (fallback) |
| **TranscodingBridge** (transcoding_bridge.go) | `active`, process, `stopCh`, one reader goroutine per session | Start, Write, Stop | `Run`; its readers send to `bridgeDataCh` and defer Stop | a session lives for one episode and no reader disturbs another's | Switcher |
| **PipelineRouter** (pipeline_router.go) | `activePipe`, flags and PAT/PMT caches of pipelines | SwitchTo, UpdateCaches, DrainInactive | `Run`, a drain goroutine every 5 ms | one active pipeline, agreeing with `state` | Switcher |
| **PTSRemapper** (pts_remapper.go) | last timestamps, offset, PIDs | SetPIDs, TrackOutgoing, PrepareSwitch, Remap, Reset | `Run`, a goroutine that passes PIDs once a second | outgoing clock goes on over switches, loops and wraps; PCR moves with PTS | PTSRemapper |
| **Broadcaster** (switcher.go) | map of subscriber channels | Subscribe, Unsubscribe, Broadcast | recorder, preview, meter, outputs | never sends on a closed channel, never blocks on a slow subscriber, who gets what is broadcast in order | Broadcaster, Subscription |
| **MPEG-TS parser, aligner** (tsparser.go) | the aligner's buffer | ParseTSPacket, ParsePAT, ParsePMT, IsKeyframe, Feed, Next | Switcher | recognises tables and keyframes; loses no aligned packet | TSParser, PacketAligner, Multiplexer |
| **Output, OutputManager** (output.go) | per output: target and actual state, process, stdin, channels; the list and its file | Start, Stop, Add, Remove, Update, RestartAll, StopAll, MoveOverlay | Broadcaster, API, main | one FFmpeg per output, fed as long as it is to run, none after Stop; a boot brings back what was on air (an update breaks this: Findings) | Outputs |
| **Recorder** (recorder.go) | `recording`, file, paths, `stopCh` | Start, Stop (300 ms), recordLoop, remux | Broadcaster, API, main | a recording that is shown is written, closed and converted | Recorder |
| **Preview** (preview.go) | settings, process, `running`, `stopCh`, the last picture | Start, Stop, UpdateSettings | Broadcaster, API | the picture shown is made with the settings of the last call | Preview |
| **SceneManager** (scenes.go, main.go) | scenes, active id; the files of uploads and renderings | Add, Remove, Activate; rendering in the background | Switcher (fallback path, restart token), API | what plays is the active scene (two changes in a row break this: Findings), and every scene can be played | Scenes |
| **AutoSwitcher** (autoswitch.go) | rules, trackers | evaluate every second, edits by the API | Switcher.SwitchScene | a rule fires when its condition has held, and only then (edits, toggles and shared ids break the second half: Findings) | AutoSwitch |
| **Scheduler** (scheduler.go) | schedules, last firing | check every second, edits by the API | Switcher.SwitchScene | each schedule fires once in its minute, and is not missed (a last firing that an edit keeps breaks this: Findings) | Scheduler |
| **API server** (server.go) | rate limiter, websocket clients, uploads | handlers | everything | what handlers change is consistent when they overlap | the requests of each module |
| **main** (main.go) | | boot and shutdown order | everything | a restart brings back what was saved | the restart of each module |
| AudioMeter, TransitionEngine, SysStats, bounding box, ZMQ client, web interface | | | | | see [Not modelled](#not-modelled) |

What makes it hard: `Run` shares its state with managers, bridge readers, the
poller and the API by channels whose messages outlive what they were about;
every exit from live undoes four things by hand; timestamps of unrelated clocks
are spliced in 33-bit arithmetic. Outputs, recorder and preview each run loops
that go through the fields of one object, so that a goroutine which is stopped,
or late, acts on what its successor has put there; loops under one subscriber id
overtake each other. Handlers release a lock and act afterwards; scenes change
in goroutines that read, write and signal in steps; the scheduler and the rules
work on copies while the API edits the originals. PROJECT.json lists each such
hazard at its line, with the property that would catch it or why none does.

## Modules

### Failover.tla: the abstract promise

One pipeline is on air; a live episode starts from the fallback, is guarded
while it lasts, may be promoted from bridge to passthrough but not back, and
ends in the fallback or by a shutdown that is not put off for ever once asked
for. Four variables, six actions.

### Switcher.tla: the failover engine

| Variable | In the code |
|---|---|
| `state`, `pc` | `s.state`; where `Run` is: at its select, between `bridge.Start` and the switch to it, returned |
| `activePipe` | `router.activePipe` |
| `remap` | whether the remapper was Reset or prepared last |
| `pidKnown` | `s.videoPID # 0`, learnt from PAT and PMT |
| `timer`, `fired` | the timeout timer, and a value in `timeout.C` |
| `bridge`, `stale` | `tb.active`, whether the session has produced output, and readers of ended sessions: in their send, or about to run their deferred Stop |
| `bridgeCh`, `srtCh` | the channels; a packet is its kind: tables, keyframe, other video, other |
| `draining` | DrainInactive is in its inner loop, having tested `p.Active` once |
| `srt`, `srtEnabled` | srtManagerLoop's place, and its gate |
| `restartTok`, `diedTok`, `forceTok` | the one-slot token channels |
| `splice` | history, for one property: what the first picture since the last router switch was |

Go's select takes any ready case, so every case is an action: `Live*` for
StateLive (switcher.go:661-767), `Backup*` for StateFallback (771-853). An exit
from live is one action, `GoBackup` with whatever else the case does. The start
of the bridge is two, because the session can die, and old readers can run,
between `bridge.Start` and the switch. `StaleOutput`, `StaleStop` and `Orphan`
are the readers of ended sessions: one that was in its send may still deliver,
and its deferred `tb.Stop()` stops whichever session is active then.

Abstractions, each on the side of more behaviours:
- the fallback process may deliver any picture at any time while in fallback;
  what Run discards of it in live is a stutter;
- the outcome of `checkBitrateThreshold` is an input (`LiveBitrate`);
- the reader of a killed SRT process is not waited for, so it may still send
  while the manager cools down (`SrtPush`); a process that cannot be started
  leaves the manager at its gate;
- FFmpeg's muxer gives all inputs the same PIDs, so PIDs are known or not;
- a bridge read that is not aligned to packets shows the timer no video, so
  `LiveBridge` renews it or not;
- `bridge.Write` does not block, and Stop, drain and Reset of the timer are one
  step. Both are listed as hazards.

### PTSRemapper.tla: timestamps across switches

`remapper` holds the fields of the struct; `known` is whether SetPIDs was
called; `pipe`, `raw` and `air` are the pipeline on air, the last PTS of its
source, and the last broadcast packet as it came and as it went out. The methods
are operators on the record and a packet (0 is absent, as in the code), with
sums in unbounded integers and timestamps written modulo 2^33 (`Wrap`). The
actions are Run's uses of them: `Pass` (Remap, TrackOutgoing, broadcast),
`JoinKeyframe` (PrepareSwitch, Remap, broadcast, not tracked), `JoinBridge`
(PrepareSwitch with the packet that went into the bridge), `Promote` (nothing),
`Exit` (Reset). A source says any time in any packet, which covers loops,
restarts and wrap-arounds.

### Subscription.tla, Broadcaster.tla: subscribers

`subscribers` is the map; a loop owns one channel (`open`, `queue`) and has a
`phase`. The read lock that Broadcast holds while it goes through the map is
`sweep`, the channels it has not come to; Subscribe and Unsubscribe wait for it.
`Unsubscribe(l)` removes the id of loop `l`, whoever's channel it has by then:
the code unsubscribes by id. `MCPacketPath` gives it two loops under one id and one
under another.

**Subscription** is what this comes to for a loop, without channels, map and sweep:
a loop that is fed has a `next` packet, which it is offered once it is sent; what it
has not read is `kept`, as much as there is room for; a loop that begins ends the
feed of the others of its id, and any of them ends it for all. `Delivers` says that
Broadcaster implements it.

### Outputs.tla: the outputs and their manager

| Variable | In the code |
|---|---|
| `outputs`, `file` | `om.outputs`, and outputs.json: per id absent, stopped or running, or `Torn` while `os.WriteFile` is under way |
| `obj` | an Output's fields: `config.Running`, the target and actual state, and who wrote `stopCh`, `cmd`, `stdinRef`, `dataCh` last |
| `loop` | managerLoop goroutines: testing the target, starting FFmpeg, waiting for it, pausing 3 s |
| `writer` | the writeLoop of each process, with the two channels its select waits on |
| `alive`, `eof`, `closed`, `subs` | processes, those whose stdin was closed, closed stop channels, the broadcaster's map |
| `call`, `boot` | API calls under way with the step they are at; outputs main has still to start |

A call is split where the code lets go of a lock: `StartOutput` saves under
`om.mu` and `StartsNow` acts after it; Stop is `StopChecks`, `StopCloses` and
100 ms later `StopEnds`. A goroutine reads its object's fields when the code
does, so a writer that leaves closes the pipe that is now in the field, and a
loop that reaps unsubscribes whoever has its id. `Restarts` ends the program in
any state; only the file is left. `raced` records that calls overlapped, or that
a Start met a loop that had not ended. What a save writes (`Configs`) are the
configurations, whose Running is what start, stop or the body of a request put
there; whether an output is to run is its `target`. UpdateOutput goes by the target
of the old object and keeps the body's Running: an object whose two differ for that
reason is `odd`, a history variable.

### Events.tla, Scenes.tla, Recorder.tla, Studio.tla: the control plane

`Events` is the bound the control plane shares. **Scenes** has the list and its
active scene, `config.FallbackPath` (`path`), the one-slot `token` of
RestartFallback, the manager's place (`mgr`) with the file its process plays
(`air`), the `files` on disk, and the goroutines under way (`tasks`), each a
request with the step it is at. `onSceneChange` is three steps (`ReadsActive`,
`WritesPath`, `Signals`), a deletion looks the scene up, removes it, and then
takes its files, a rendering ends any time later, replaces the scene's file and
then looks whether the scene is active. `source` says what wrote the path last;
it is "stale" when the goroutine of a change of the active scene wrote what had been
its file and was its file no more.

**Recorder** has the fields of the one Recorder, the record loops with the stop
channel each one waits on, the Starts and Stops under way, what is in the .ts
and .mp4 of each second, and the conversions. A file is named by its second, so
two Starts can share one. `raced` records what did not go in turn.

**Studio** composes the two in one program that is restarted as a whole.

### Scheduler.tla, AutoSwitch.tla, Preview.tla, MCAutomation.tla

**Scheduler**: `check` copies the list, fires what is due (`CheckFires`) and marks
it under the lock by index and id (`CheckMarks`); the API edits in between.
`runs` is history: when each schedule, as it is now, fired last. The body of a
request brings a `last_fired` with it, which the handler stores: never, one that is
made up, or one that was read of the list (`NewSchedules`). A body may name an id
that is there already; the requests then act on the first of the two (`First`), and
`raced` has their id.

**AutoSwitch**: `evaluate` copies the rules, follows the condition of each enabled
one in a tracker (`TriggerMet`, `TriggerNotMet`) and fires (`FireRule`). Trackers
are kept by id whatever becomes of the rule. `RemoveFaults` is Go ending the
program when it meets RemoveRule's delete in a pass that uses the map without
the lock. `held` is history: how long the evaluations of a rule, as it is now,
have all found its condition; `touched` the rules that were edited or toggled and
not found unmet since; `shared` the ids that two rules have had, with one tracker.

**Preview**: the loops of Start with the settings each one read, the fields
`running`, `stopCh` and `cmd` that are those of whoever wrote them last, and the
calls of UpdateSettings under way. `frame` is the settings the published picture
was made with.

`MCAutomation` has one of the three at work in a behaviour: they share nothing
but SwitchScene, which keeps a record and changes nothing on air, so their
interleavings add no behaviour to any of them.

### PacketAligner.tla, TSParser.tla, Multiplexer.tla

**PacketAligner** is Feed and Next on bytes, with reads that end anywhere.
**TSParser** has the functions of tsparser.go on the bytes of a packet and
`containsKeyframe`, which learns the PIDs. **Multiplexer** is what they are given: it
describes packets by what they carry (tables with programs, streams, descriptors and
pointer fields; video of either codec), makes their bytes (`BytesOf`), cut off
where the packet ends, and follows the program from the descriptions alone
(`told`, `expected`), never looking at the bytes. What there is to carry is given
by constants, which are sets of any size in the proofs; `MCPacketPath` gives them
small values, with every kind of NAL unit.

### MCPacketPath.tla

What a packet goes through, for TLC: PacketAligner and TSParser, PTSRemapper,
Broadcaster. They share no state, as Run hands a packet from one to the next, so a
behaviour has one of the three at work.

### Abstractions of the control plane

- Outputs: the exchange with FFmpeg over ZMQ, the check of the URL, statistics
  and logs, and disk errors are left out; select and close in Stop are one step,
  and so are a loop's reaping and its test of the target (output.go:314 and 333 read
  `o.cmd` again without the lock, which matters only where loops overtake each
  other); a pause of 3 s is longer than the writer of an ended process takes to leave.
- Scenes: the list and the path are saved whole under the lock that changes them,
  so copies on disk are never told apart; two uploads have different names;
  a fallback process that cannot be started is one that dies; .ts and .mp4 are
  not told apart; a PUT names a file that is there.
- Recorder: a loop that waits on a closed channel ends within Stop's 300 ms; the
  look at the channel and its closing are one step, and two Stops that both close
  it, which panics, are overlapping calls, where nothing is claimed; the
  user's deletion and renaming of finished files (server.go:584-638) is left out.
- Scheduler: a pass reads the clock once, so time passes between passes; a weekly
  schedule is one with a longer `Day`; dates are no start of a minute.
- AutoSwitch, Scheduler: the list on disk has one rule or schedule at most to begin
  with, and more come by requests; event histories are left out.
- Preview: a feeder that leaves ends its FFmpeg in one step, and Stop closes the
  channel and kills in one; the scan for JPEG
  markers is a step that publishes; two Stops that both close the channel, which
  panics, are overlapping calls, where nothing is claimed.
- TSParser: an adaptation field stays within its packet. (One that says it is longer,
  more than 183 bytes, makes containsKeyframe panic: switcher.go:1042, 1048.)

## Runs

| Run | Checks | Shows |
|---|---|---|
| `switcher_safety` | TypeOK, BridgeConfined, EpisodeConsistent, Watched | whatever interleaves: no session without its episode; state, pipeline and remapper agree; live is watched |
| `switcher_live` | SilenceFallsBack, KeyframesGoLive, ShutdownCompletes, Refines | what must happen happens; the relay implements Failover |
| `switcher_splice` | PassthroughStartsOnKeyframe (violated) | see Findings |
| `bridge_old_reader` | OldReadersHarmless (violated) | see Findings |
| `packet_path` | PathTypeOK, Aligned, TablesFound, KeyframesFound, ClockFollows, KeyframeJoinSeamless, NeverRewinds, NeverSendsOnClosed, OneFeedPerId, SlowNeverBlocks, Delivers | reads may cut the stream anywhere; PIDs are those the tables announce; keyframes are found, with exactly the listed mistakes. Keyframe joins continue the clock to the frame; loops and wraps do not rewind it; PCR moves with PTS. Subscriber loops that overtake each other are safe; a stuck reader blocks nobody; the broadcaster implements Subscription |
| `remapper_clock` | ClockAlwaysFollows (violated) | see Findings |
| `remapper_joins` | EveryJoinSeamless (violated) | see Findings |
| `outputs` | TypeOK, BootRestores, OneProcess, Supervised, SelfHeals, StopsForGood | calls in turn keep one supervised process per id; it is fed again whatever dies, even when loops overtake each other; between calls in turn a boot would start what is to run and nothing else, the outputs apart that an update left `odd` |
| `outputs_saved` | OnAirIsSaved (violated) | see Findings |
| `studio` | StudioTypeOK, PathFollows, RestartNotLost, ScenesPlayable, RecorderFed, RecordingKept, AirFollows, RecorderConverts | in any overlap of scene changes, uploads, renderings, deletions and restarts the path that was written last ends up playing, and every scene can be played; recordings in turn are written, kept and converted |
| `scene_order` | ActiveSceneAirs (violated) | see Findings |
| `automation` | AutomationTypeOK, FiresOnce, HeldLongEnough, NotMissed, RuleFires, PreviewFollows | schedules fire once, and are not missed unless a body brought a last firing of less than a minute ago; rules with an id of their own fire when their condition stays, and not before it has held unless they were edited or toggled; the preview ends up with the last settings |

**Where the properties stop.** Several promise something as long as calls take
turns, because the code breaks them when calls overlap; the history variables
`raced`, `overtaken`, `touched`, `odd` and `source` say exactly when that
is, and each exception is needed: without it TLC finds the property violated (tried
for `OneProcess`, `Supervised`, `RecorderFed`, `RecordingKept`, `HeldLongEnough`,
both parts of `PreviewFollows`, and `HeldBack` in `NotMissed`; for `odd` and the
"stale" source the runs `outputs_saved` and `scene_order` show it). Ids that two
rules have had (`shared`) are left out of `HeldLongEnough` for another reason: their
one tracker, and its history, is that of both, and says nothing of either. `AirFollows`
says that the path is played; that the path is the active scene's file is left out
where a stale goroutine wrote it. `SelfHeals` and `StopsForGood` differ on purpose:
an output is fed again even when a dying loop was overtaken, but then not every
process is sure to end.

**Bounds.** Channels hold one packet in the Switcher runs: `Run` only looks at
the head, and full and empty both occur. `Timeout = 2` gives a timer that is
fresh, about to expire, and expired. `MaxStale = 2` old readers let a reader
outlive two sessions; the start of a third is disabled, which is the bound in
`BackupStartBridge` and `Orphan`. The liveness run has one old reader and no
poller, which only repeats exits that `LiveSrtDied` and `LiveBitrate` have too.
In the remapper `Wrap = 8`, `Jump = 2`, `Frame = 1`, `Lag = 1`, `Scale = 2` keep
the order of the real constants (a frame is shorter than the jump threshold,
which is shorter than half the dial), and every packet ranges over the whole
dial. Four packets and channels of two let a channel overflow, a loop be
replaced and the new one overflow again. `Broadcaster` counts packets up to
`MaxPackets`; subscribers come and go after that as well.

`MaxEvents` counts requests, failures of FFmpeg or of the disk, and restarts
together, and every step of the goroutines between them is free. `outputs` has
2 after a start at boot, which is free: two calls that overtake each other and a
running loop, or a call and a crash in it; one id, as ids share only `om.mu`,
two objects, as an update replaces one, three loops and two calls at once.
`studio` has 3: an upload, its deletion and an activation with all their
goroutines; Start, Stop and Start again. `automation` has 2 requests or restarts,
two ids, a clock of 8 s with minutes of 3 s and days of 6 s (`MaxTime`, `Minute`,
`Day`, `Window`; the order of the real ones), schedules of the first minute of the
day (`Starts`) or of a date, a made-up last firing (`LastFired`) or one of the list,
durations of 0 and 2 s (`MaxDuration` caps ages), two of the four triggers, which
differ in nothing that happens here. In `packet_path` the aligner has packets of three bytes over two bytes (sync or not)
with reads of up to 4 (`MaxRead`) and streams of up to 13 (`MaxStream`), which
begins and loses four packets in any phase, and, for the parser, packets of 40
bytes (`PacketLength`), so that tables and pictures are cut off by their packet as
well: tables of up to two entries (`MaxEntries`), pictures of one NAL unit and one
more (`MaxNals`), pointer fields of 0, 12 and 22 bytes, which leave room for the table,
for its first entry, and for none.

`packet_path`, `outputs`, `studio` and `automation`, and the two runs beside them
(`outputs_saved`, `scene_order`), switch TLC's deadlock check off: a program without
requests, and a stream that has been read, stop.

**Fairness.** In Switcher (`FairSpec`) time passes (ClockTick). Go's select picks
uniformly among ready cases, so a case that stays ready is served: LiveTimeout,
the exits on a cancelled context, BackupKeyframe. Goroutines that can go on do:
BackupEnterBridge, StaleStop, SrtExit. Nothing is assumed of sources, processes,
the poller, the API or of FFmpeg ending by itself. `KeyframesGoLive` assumes in
its statement that the relay, in fallback, keeps finding tables and keyframes at
the head of the channel. In `Broadcaster` only the sweep is fair: no loop is
assumed ever to read.

In the control plane a goroutine that can go on does: calls, loops, writers that
are told to leave, the fallback manager, tasks, conversions. An FFmpeg whose
input is closed ends, one that converts or renders finishes (or fails, which is
an event), and one that is fed makes pictures. `evaluate` is called again and
again and time passes; the ticker of autoswitch.go is what justifies it.
Requests, failures and restarts may never come: the `WF` of an output's loop
leaves its failures out, and their number is bounded, so that "in the end"
(`<>[]`) means when they are over.

`ShutdownCompletes` is about Run and its processes; main does not wait for Run
before it returns, and relies on Pdeathsig for what is left then.

`NeverRewinds` and `ClockFollows` leave out the first moments of the outgoing
clock (`Settled`, `Lag`): there a shifted sum can be zero or negative, and the
code then writes the raw timestamp (pts_remapper.go:209, 347).

Every property has a mutant in PROJECT.json, a definition with a plausible bug
(`..._NoReset`, `..._LeavesBridge`) that the run must catch; the mutated forms
stand beside the definitions they mutate and nothing else uses them.

## Proofs

**SwitcherProofs.tla**, for all capacities, timeouts and numbers of old readers,
from `SwitcherAssumption` (all positive): `TypeCorrect`, `BridgeIsConfined`,
`EpisodesConsistent`, `LiveIsWatched`. The inductive invariant `IInv` is their
conjunction. The types carry the others: `Watched` needs the range of the timer
to know that a tick to zero fires, `BridgeConfined` that a state is live or
backup and nothing else. Lemmas `GoBackupType`, `GoLiveType` and
`RearmType` say once what the ways in and out do; the step lemmas go through the
actions of Run in live, in fallback, and of the goroutines around it.
`ImplementsFailover` proves the safety half of the refinement: initial states
map to initial states, and every step is a step of Failover or a stutter. It
needs the whole of `IInv`, before and after the step: an episode that goes on
keeps its guard because of `Watched`, begins from the fallback because of
`EpisodeConsistent`, and is promoted from the bridge and from nothing else
because of `BridgeConfined`.

**PTSRemapperProofs.tla**, for any width, scale, frame, jump and lag, from
`RemapperAssumption` (a turn of the dial is longer than two frames and two jumps):
- `TypeCorrect`.
- `JoinSeamless` (KeyframeJoinSeamless) and `NoRewind` (NeverRewinds), from
  `ClockInv`: what is tracked was seen (`WasKnown`), so on the fallback the last
  PTS tracked is the one that went out last (`TrackedLast`); and while a pipeline
  is on air the last packet was shifted by the offset that is set now
  (`Followed`). Run does not track the keyframe of a join, so after it the last
  PTS tracked is one frame behind what went out, and a source that jumps back
  then is aligned to the same time twice: the clock stands still, and does not
  go back.
- `PCRFollows` (ClockFollows). That PCR and PTS are written or not written
  together is the point (`PacketInStep`): the one sum may be positive and the
  other not, but only where the PTS goes out below `Lag`.

The arithmetic of the dial is in lemmas of its own: `Moved`, where a hand is that
was moved by less than a turn, `AheadIs`, `Reduced`.

**BroadcasterProofs.tla**, for any set of loops and ids: `TypeCorrect`,
`NoPanic` (NeverSendsOnClosed), `OneFeed` (OneFeedPerId). `OneFeedPerId` says
that what is open is registered; the converse, `RegisteredOpen`, is what makes a
new sweep consist of open channels, and the lock keeps it so. `SweepCarries`
types the packet. `ReadInOrder` (InOrder): `Ordered` says that a channel that is
being read holds, in order, packets between the last its reader got and the last
that was sent, and that a loop the sweep has still to reach holds none of its
packet. The last is what an offer needs, and only a sweep that reaches each
channel once has it. `ImplementsSubscription` (Delivers) proves the refinement whole,
as Subscription has no fairness. A loop the sweep has still to reach is to be
offered the packet that is sent, any other with an open channel the one after it
(`Fed`): so a broadcast changes nothing for anybody because every open channel is
registered (`OneFeedPerId`) and therefore in the sweep, a Subscribe or Unsubscribe
cuts off exactly the loops of its id because of `RegisteredOpen`, and an offer finds
its loop expecting that very packet because a sweep holds open channels only. The
channel is full when as many packets are kept as there is room for, as it holds none
twice (`KeptSize`, from `Ordered`), and its head is the oldest.

**OutputsProofs.tla**, from `OutputsAssumption` (every object has an id, the
names of the empty values are no others), for any ids, objects and manager loops,
any number of calls at once, failures and restarts:
- `TypeCorrect`. `TypeInv` adds to the types what the steps need: goroutines and
  calls under way have an object, what is to run or is being stopped has a stop
  channel.
- `BootsRestore` (BootRestores), in two halves. The file has what is in the map, or
  a save is under way, or a crash cut it off and the map is empty since (`FileTrue`):
  each change of the map or of a Running truncates the file in the same step, a step
  that does neither keeps what it says, and only the end of a save mends it. The locks
  have no part in this half: a file may be written twice over, never differently.
  And Running is the target (`Agrees`), or a call is on its way from the one to the
  other (`Settling`): a Start sets Running before the target and a Stop clears it
  before, a RestartAll finds running what it stops and starts again (`CallSets`).
  That needs calls in turn (`Alone`, `CallTrue`, below) and that no failure of FFmpeg
  touches either. StopAll at the end of the program clears targets and saves
  nothing (`EndSavesNot`). What boot has still to start, and what a request's body
  has set, are apart in `Agrees` as in the property.
- `AlwaysSupervised` (Supervised). While no call has overtaken another, at most
  one is under way (`Alone`); it works on what is in the map, and what it stops is
  to run no more (`CallTrue`); what is to run is in the map, with an open channel
  and a loop that waits on no other (`TargetTrue`). Stop closes one channel, and
  `StopsDistinct`, that no two objects share one, keeps it from ending the loop of
  another. The theorem covers the starts that overtake a dying loop (`raced` may
  hold "dying"): an old loop then looks after the same object.
- `ProcessesOneEach` (OneProcess). A process runs only while its loop waits for
  it (`WaitedFor`), and an id has one loop (`OneLoop`): a Start makes one only
  where there is none, or counts as overtaking.

**ListLemmas.tla** says what removing an entry from a list by its place, appending
one, and taking the first with an id do to the entries and to ids that are unique.
Scenes, rules and schedules are such lists. It also has what the proofs about the
parser know of least elements, iterated sums and flattened lists.

**StudioProofs.tla**, for any number of requests, failures, restarts and loops, from
`ScenesAssumption` (no file has the empty name):
- `NoRestartLost` (RestartNotLost) is inductive as it stands; the argument is the
  order of the code, path first and token second, in each of the three goroutines.
- `ScenesStayPlayable` (ScenesPlayable) and `PathIsFollowed` (PathFollows), from
  `ScenesInv`: ids of scenes are unique, a scene's file bears its id and is on disk,
  the active scene is in the list (`ListGood`); a rendering that has its output has
  it on disk as long as its scene is listed, and a deletion unlinks the files of an
  id that is not listed any more (`Good`). The order in handleDeleteScene, from the
  list first and the disk last, and the ids that are never used again are what the
  proof uses. PathFollows then holds because a step that changes the active
  scene or its file leaves behind a goroutine that will read the active scene, or
  carries its file already.
- `RecordingsKept` (RecordingKept) rests on `KInv`: the number of a request names
  one recording at most (`Numbered`), the fields and the conversions name a second
  in which one began (`InUse`), and a conversion that has its output took it from
  the one recording of its second, and no other writes that .mp4 (`AllSafe`): when
  it removes the .ts, a whole .mp4 is there. Calls that overlap do no harm to this
  argument, only two recordings of one second do; the property leaves both out, as
  a file that another call closed early is a file in the model.
- `RecorderIsFed` (RecorderFed), from `FedInv`: while Starts and Stops take turns
  there is one call and one loop at most (`OneByOne`), the loop writes the file that
  is in the field and waits on the channel that is there (`InTurn`), and each step
  of a call finds the flag, the fields and the loop as the step before left them
  (`Phase`). That an old loop is gone before the next Start comes needs the closed
  channel that a sleeping Stop has behind it.
- `StudioTypes` (StudioTypeOK), from both.

**AutomationProofs.tla**, for any ids, durations, triggers and lists, and however
edits, passes and restarts interleave.

Auto-switch engine: `RulesHeldLongEnough` (HeldLongEnough).
`HeldLongEnough` speaks of the moment a rule is about to fire; `AutoInv` carries
it there: `TrackersTrue`, a tracker is no older than the condition of its rule
has held, and `CopyCurrent`, a rule of the pass that is still to come is the one
of the list unless it was touched. Both need that the ids of list and copy are unique but for
`shared`, which `RemoveAtUniqueBut` and `AppendUniqueBut` keep, and the types,
`AutoTypeOK`. An id that was shared once is never spoken of again, as its tracker may
be that of either rule.

Scheduler, from `SchedulerAssumption` (the window is shorter than a
minute, a minute than a day): `SchedulesFireOnce` (FiresOnce). When a schedule that
nothing raced with has fired as it is now, the list has that firing as its last, but
for the moment between firing and mark (`MarksTrue`; what a body brought as last
firing need be nobody's); what a check has still to come to is what the
list has, in the same places (`CopyTrue`); and what it marks is what has fired
(`FiringTrue`). A firing then meets a copy that is not due again within a minute,
and `DueIsNew` turns this into another occurrence, as the window is shorter.
`SchedulesNotMissed` (NotMissed) needs the converse: what `firedRecently` holds
back has fired in this window and not in the one before, or was never fired as it is
now and has a last firing from its body, less than a minute old (`HeldBack`).
`LastDue` keeps that a schedule's own last firing was in one of its windows,
`PassedTrue` carries the answer from an entry to the end of the check, and
`RecentIsThis` is the arithmetic: two times less than a minute, so less than a day
apart, with the later in the last second of its window (`SameDay`).

Preview: `AutomationTypes` (AutomationTypeOK), from the two above and `PInv` of the
preview. That a process belongs to a loop needs that the loop waits
for it (`AliveRuns`), and that loops stay apart needs that the numbers of calls
and of loops do (`NumbersTrue`).

**MultiplexerProofs.tla**, the aligner, for any bytes, any size of packets, any
lengths of reads and of the stream: `PacketsAligned` (Aligned). `Starts` follows the whole stream by
recursion; its value is found without an induction theorem, by least
counterexamples (`LeastNat`, of a set of naturals that is not empty): the recursion
looks ahead only (`BodyLooksAhead`), so it has a solution (`Solvable`), and a
`Chain` of packets, each where it is expected or at the next pair of sync bytes, is
that solution once it is complete (`ChainIsFound`). The invariant `AInv` says that
the packets sent are those of a chain and what is held is the end of the stream
(`Held`): in step, it begins where the next packet is expected; out of step, no
pair of sync bytes begins in what was dropped. More of the stream leaves a chain a
chain (`ChainStays`), as a first pair stays the first; a packet that Next finds is
the next of the chain (`FoundFollows`); and what Next drops when it finds none are the
bytes whose partner a packet later it has seen (`NothingFollows`).

The parser, from `MultiplexerAssumption` (a packet has 20 to 188 bytes, PIDs 13 bits
and are not 0, lengths the bits of their fields, and what has one PID is one
thing: no video under the PID of a PMT, no PMT under that of a stream), for any
programs, streams, descriptors, pointer fields, pictures and numbers of entries:
- `TablesLearned` (TablesFound): what ParseTSPacket, ParsePAT and ParsePMT read out
  of the bytes is what was put in, as far as the packet reaches. `PatWritten` and
  `PmtWritten` say where BytesOf puts each entry (`Ends`, the sums of the lengths
  before it), and `TableRead` that the parser comes to the section whatever the
  pointer field skips. ParsePAT's places are then those of the entries, and never that
  of the CRC, though that reads like one more; ParsePMT's loop goes from the end of one
  stream to that of the next (`StreamsRead`), so it neither stops early nor reads on
  in descriptors, which are filled with what looks like the entry of a video.
- `KeyframesRecognised` (KeyframesFound): the places where IsKeyframe sees a start
  code are those where one was written (`HeaderFound`, and `FoundHeader` for the
  converse), as a unit's body is neither 0 nor 1 and its header comes after a 1; and
  the masks of IsKeyframe match the headers in `Key` and `Mistaken` and no other
  (`KeyRead`).
- Both rest on `MInv`: the PIDs that are known are those of programs and streams, so
  that no packet is inspected as one of another kind.

Sums and concatenations are folds, and there is no induction over them: `Iterates` and
`Flattened` in ListLemmas find their values, as those of `Starts`, by the least place
where they would differ.

Only model-checked: all liveness and the fairness half of `Refines` (no ENABLED in
the prover). Every safety property of a passing run is a theorem; `PathTypeOK` is that
of PTSRemapperProofs and of BroadcasterProofs, both called `TypeCorrect`.

## Findings

1. **Passthrough starts without its keyframe** (`switcher_splice`). The natural
   keyframe that ends the bridge goes into the bridge and is not broadcast
   (switcher.go:675-684); the rest of its picture follows in passthrough.
   ADR-002:13 promises artifact-free failover.
2. **An old reader stops a new session** (`bridge_old_reader`). Each reader
   defers `tb.Stop()` (transcoding_bridge.go:188), which stops what is active.
3. **PCR without PTS** (`remapper_clock`). A join before the once-a-second
   SetPIDs shifts the PCR only, by an offset in 27 MHz units that is applied
   in 90 kHz units (pts_remapper.go:142-146, 208).
4. **The outgoing clock leaps** (`remapper_joins`) when the bridge is joined, on
   the way from the bridge to passthrough and back to fallback, against
   ADR-002:14 and pts_remapper.go:14-15.
5. **An update takes an output off the next boot** (`outputs_saved`). UpdateOutput
   starts the new object when the old one was to run, and saves the Running of the
   request's body (output.go:560-572), which the web interface does not send
   (web/app.js:519-530). output.go:41 calls the field "Persist running state on boot".
6. **A scene that is not active stays on air** (`scene_order`). Changes of the
   active scene start goroutines that read it, and then write the path
   (scenes.go:178, 217; main.go:146-152); of two, the earlier can write last, and
   nothing writes again. scenes.go:30, main.go:155.

Noted, with no run of their own:
- the fallback goes on air at once and not at its next keyframe (README.md:26 of
  the repository);
- the SRT pipeline's PAT and PMT are never cached (pipeline_router.go:193), and
  DetectCodec is given the keyframe's packet alone (switcher.go:826), where it
  finds no codec;
- IsKeyframe takes four ordinary NAL headers for keyframes (H.264 0x21 and 0x41,
  H.265 0x08 and 0x48) and misses a header that is the last byte of its packet
  after a short start code; only the first packet of a picture is looked at
  (`KeyframesFound` says so exactly);
- "Seconds condition must persist before triggering" (autoswitch.go:17) does not
  hold for a rule that was edited or toggled, whose tracker goes on from before, nor
  for one that took the id of a rule removed during a pass, which puts the tracker
  back: such rules fire early. `HeldLongEnough` leaves them out (`touched`) and TLC
  finds it violated with them;
- an edit stores the `last_fired` of its body (scheduler.go:205-213,
  server.go:1336-1342): a schedule that was read, moved and put back within a minute
  of its last firing is missed. `NotMissed` states this (`HeldBack`);
- AddRule and AddSchedule take an id that is there already: two rules then share a
  tracker, a firing resets it for both, and edits reach the first only (`shared`, `raced`);
- rules and schedules end in SwitchScene, which changes nothing on air, though
  the comment above it (switcher.go:476) says the fallback is restarted;
- a rule whose condition stays fires again after each of its durations, where the
  comment at autoswitch.go:188 speaks of preventing that;
- Stop and Start of an output within 3 s leave two managers and two processes;
  the same of the preview; an early Stop and Start of the recorder closes the new
  recording. `raced` and `overtaken` mark these cases;
- two recordings begun in one second share their file;
- RemoveRule changes the map of trackers while evaluate uses it unlocked;
- tsparser_test.go does not compile as it is, and its test of the aligner expects
  a packet that no sync byte follows.

## Not modelled

- **AudioMeter**: the life cycle of the preview without requests (one Start at
  boot, one Stop at the end), so nothing overtakes anything.
- **TransitionEngine**: only ExecuteCut is called, which keeps a record of itself;
  fade and dip have no caller.
- **SysStats, bounding box**: values read, or set and read, whole.
- **ZMQ client, web interface, scripts**: a wire format, a browser's client,
  installation; no state of the relay.
- **API server**, in part: authentication, the rate limiter, the websocket,
  statistics, and the handlers of watermark files and of finished recordings
  (plain file operations).
- **Switcher**, in part: statistics and event history; the arithmetic of the
  bitrate hysteresis, whose verdict is an input; a `bridge.Write` that blocks, as
  the capacity of pipes is outside the code; the bytes in the router's caches.
- The building of FFmpeg arguments, logging.

## Plan

Done: Failover, Switcher, PTSRemapper, Subscription, Broadcaster, Outputs, Scenes,
Recorder, Studio, Scheduler, AutoSwitch, Preview, PacketAligner, TSParser, Multiplexer,
and the proofs of all their safety properties and of both refinements, but for the
fairness of Failover.

To come: an abstract specification of an output (to run or not, fed or not), which
Outputs would implement while calls take turns; the byte caches of PipelineRouter.
