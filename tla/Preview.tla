------------------------------- MODULE Preview -------------------------------
(***************************************************************************)
(* preview.go.  Start runs a loop that keeps an FFmpeg alive, which makes  *)
(* pictures of the broadcast in the size and rate that were set when the   *)
(* loop began; UpdateSettings stops the loop and starts another.  They go  *)
(* through fields of the one PreviewManager, without a lock: running and   *)
(* stopCh are those of whoever wrote them last, and a loop that meets a    *)
(* later Start's goes on.                                                  *)
(*                                                                         *)
(* A Start is named by the number of its request (or of the restart of the *)
(* program), and so are its loop, its stop channel and the loop's process, *)
(* which has one goroutine that feeds it.  The loops subscribe under one   *)
(* id; a channel is open as long as the broadcaster maps the id to it.     *)
(*                                                                         *)
(* overtaken is a history variable: since the program was started, calls   *)
(* have overlapped, or one has started a loop where an earlier one had not *)
(* ended or had not begun yet.                                             *)
(***************************************************************************)
EXTENDS Events, Integers

CONSTANTS
  Sizes,    \* rates and sizes of the pictures
  AtBoot    \* of these, NewPreviewManager's
ASSUME PreviewAssumption == AtBoot \in Sizes /\ "off" \notin Sizes

VARIABLES
  settings,  \* p.fps, p.width, p.height; "off" when fps is 0
  running,   \* p.running
  stopCh,    \* p.stopCh
  closed,    \* the stop channels that are closed
  cmd,       \* p.cmd
  loops,     \* the loops: where each is, the settings it read, the stop channel
             \* its pause waits on, and the one its process's feeder waits on
  alive,     \* the loops whose FFmpeg runs
  sub,       \* the loop whose channel preview_internal is mapped to
  frame,     \* p.latestFrame: the settings it was made with, or "off"
  calls,     \* the calls of UpdateSettings under way
  overtaken

previewVars == <<settings, running, stopCh, closed, cmd, loops, alive, sub, frame, calls, overtaken>>

Nobody == -1
Loops == 0..MaxEvents
LoopOrNobody == Loops \cup {Nobody}
Settings == Sizes \cup {"off"}

PreviewTypeOK ==
  /\ settings \in Settings /\ frame \in Settings
  /\ running \in BOOLEAN /\ overtaken \in BOOLEAN
  /\ {stopCh, cmd, sub} \subseteq LoopOrNobody
  /\ closed \subseteq Loops /\ alive \subseteq {l.n : l \in loops}
  /\ loops \subseteq [n: Loops, at: {"reads", "opens", "tests", "spawns", "runs", "pauses"},
                      set: Settings, on: LoopOrNobody, feed: LoopOrNobody]
  /\ \A k, l \in loops : k.n = l.n => k = l
  /\ calls \subseteq [n: Loops, set: Settings, at: {"tests", "stops", "closes", "ends"}]

Begun(n) == [n |-> n, at |-> "reads", set |-> "off", on |-> Nobody, feed |-> Nobody]

\* main starts the preview when the program starts.
PreviewBegins(s, begun) ==
  /\ settings = s /\ frame = "off"
  /\ running = FALSE /\ stopCh = Nobody /\ closed = {} /\ cmd = Nobody
  /\ loops = begun /\ alive = {} /\ sub = Nobody
  /\ calls = {} /\ overtaken = FALSE
PreviewInit == PreviewBegins(AtBoot, {Begun(0)})
PreviewIdle == PreviewBegins("off", {})

PreviewRestart ==
  /\ Event
  /\ settings' = AtBoot /\ frame' = "off"
  /\ running' = FALSE /\ stopCh' = Nobody /\ closed' = {} /\ cmd' = Nobody
  /\ loops' = {Begun(events')} /\ alive' = {} /\ sub' = Nobody
  /\ calls' = {} /\ overtaken' = FALSE

-----------------------------------------------------------------------------
CallAt(c, at) == calls' = (calls \ {c}) \cup {[c EXCEPT !.at = at]}
fields == <<settings, running, stopCh, closed, cmd>>

\* UpdateSettings: the settings, ...
UpdateSettings(s) ==
  /\ Event
  /\ settings' = s
  /\ calls' = calls \cup {[n |-> events', set |-> s, at |-> "tests"]}
  /\ overtaken' = (overtaken \/ calls # {})
  /\ UNCHANGED <<running, stopCh, closed, cmd, loops, alive, sub, frame>>
\* ... Stop, if there is something to stop: the flag, ...
TestsRunning(c) ==
  /\ c.at = "tests"
  /\ CallAt(c, IF running THEN "stops" ELSE "ends")
  /\ UNCHANGED <<fields, loops, alive, sub, frame, overtaken, events>>
ClearsRunning(c) ==
  /\ c.at = "stops"
  /\ running' = FALSE
  /\ CallAt(c, "closes")
  /\ UNCHANGED <<settings, stopCh, closed, cmd, loops, alive, sub, frame, overtaken, events>>
\* ... the channel and the process in the fields, ...
ClosesStopCh(c) ==
  /\ c.at = "closes"
  /\ closed' = closed \cup {stopCh}
  /\ alive' = alive \ {cmd}
  /\ CallAt(c, "ends")
  /\ UNCHANGED <<settings, running, stopCh, cmd, loops, sub, frame, overtaken, events>>
\* ... and, 100 ms later, no picture or a Start in a goroutine of its own.
UpdateEnds_KeepsFrame(c) ==
  /\ c.at = "ends"
  /\ calls' = calls \ {c}
  /\ loops' = loops \cup (IF c.set = "off" THEN {} ELSE {Begun(c.n)})
  /\ overtaken' = (overtaken \/ loops # {})
  /\ UNCHANGED <<fields, alive, sub, frame, events>>
UpdateEnds(c) ==
  /\ c.at = "ends"
  /\ calls' = calls \ {c}
  /\ IF c.set = "off" THEN frame' = "off" /\ UNCHANGED loops
                      ELSE loops' = loops \cup {Begun(c.n)} /\ UNCHANGED frame
  /\ overtaken' = (overtaken \/ loops # {})
  /\ UNCHANGED <<fields, alive, sub, events>>

-----------------------------------------------------------------------------
Becomes(l, m) == loops' = (loops \ {l}) \cup {m}
LoopAt(l, at) == Becomes(l, [l EXCEPT !.at = at])

\* Start: the settings, a channel and the flag, ...
ReadsSettings(l) ==
  /\ l.at = "reads"
  /\ Becomes(l, [l EXCEPT !.at = "opens", !.set = settings])
  /\ UNCHANGED <<fields, alive, sub, frame, calls, overtaken, events>>
SetsRunning(l) ==
  /\ l.at = "opens"
  /\ stopCh' = l.n /\ running' = TRUE
  /\ LoopAt(l, "tests")
  /\ UNCHANGED <<settings, closed, cmd, alive, sub, frame, calls, overtaken, events>>
\* ... and the loop, as long as the flag is set.
LoopTests(l) ==
  /\ l.at = "tests"
  /\ IF running THEN LoopAt(l, "spawns") ELSE loops' = loops \ {l}
  /\ UNCHANGED <<fields, alive, sub, frame, calls, overtaken, events>>

\* runPreviewProcess: Subscribe closes the channel the id had; FFmpeg, which
\* does not run without a rate, is in the field from now on.
RunsProcess(l) ==
  /\ l.at = "spawns"
  /\ sub' = l.n /\ cmd' = l.n
  /\ alive' = alive \cup (IF l.set = "off" THEN {} ELSE {l.n})
  /\ Becomes(l, [l EXCEPT !.at = "runs", !.feed = stopCh])
  /\ UNCHANGED <<settings, running, stopCh, closed, frame, calls, overtaken, events>>
\* It is over: Unsubscribe closes whatever channel has the id.
GoesOn(l) ==
  /\ sub' = Nobody
  /\ IF running THEN Becomes(l, [l EXCEPT !.at = "pauses", !.on = stopCh, !.feed = Nobody])
                ELSE loops' = loops \ {l}
SpawnFails(l) ==
  /\ Event
  /\ l.at = "spawns" /\ GoesOn(l)
  /\ UNCHANGED <<fields, alive, frame, calls, overtaken>>
Reaps(l) ==
  /\ l.at = "runs" /\ l.n \notin alive /\ GoesOn(l)
  /\ UNCHANGED <<fields, alive, frame, calls, overtaken, events>>
\* The pause of 2 s, or the end of it.
PauseEnds(l) ==
  /\ l.at = "pauses"
  /\ Becomes(l, [l EXCEPT !.at = "tests", !.on = Nobody])
  /\ UNCHANGED <<fields, alive, sub, frame, calls, overtaken, events>>
PauseStops(l) ==
  /\ l.at = "pauses" /\ l.on \in closed
  /\ loops' = loops \ {l}
  /\ UNCHANGED <<fields, alive, sub, frame, calls, overtaken, events>>

\* The feeder waits on its channel and on the stop channel now in the field, ...
Feeds(l) ==
  /\ l.at = "runs" /\ l.feed # Nobody /\ sub = l.n
  /\ Becomes(l, [l EXCEPT !.feed = stopCh])
  /\ UNCHANGED <<fields, alive, sub, frame, calls, overtaken, events>>
\* ... and leaves when either is closed: FFmpeg ends without its input, ...
FeederLeaves(l) ==
  /\ l.at = "runs" /\ l.feed # Nobody /\ (sub # l.n \/ l.feed \in closed)
  /\ Becomes(l, [l EXCEPT !.feed = Nobody])
  /\ alive' = alive \ {l.n}
  /\ UNCHANGED <<fields, sub, frame, calls, overtaken, events>>
\* ... or of itself.
ProcessDies(l) ==
  /\ Event
  /\ l.n \in alive
  /\ alive' = alive \ {l.n}
  /\ UNCHANGED <<fields, loops, sub, frame, calls, overtaken>>
\* readFrames, which may be behind the process.
Publishes(l) ==
  /\ l.at = "runs" /\ l.set # "off"
  /\ frame' = l.set
  /\ UNCHANGED <<fields, loops, alive, sub, calls, overtaken, events>>

CallGoesOn(c) == TestsRunning(c) \/ ClearsRunning(c) \/ ClosesStopCh(c) \/ UpdateEnds(c)
LoopGoesOn(l) ==
  \/ ReadsSettings(l) \/ SetsRunning(l) \/ LoopTests(l) \/ RunsProcess(l)
  \/ Reaps(l) \/ PauseEnds(l) \/ PauseStops(l) \/ FeederLeaves(l)
PreviewNext ==
  \/ \E s \in Settings : UpdateSettings(s)
  \/ \E c \in calls : CallGoesOn(c)
  \/ \E l \in loops : LoopGoesOn(l) \/ SpawnFails(l) \/ Feeds(l) \/ ProcessDies(l) \/ Publishes(l)
  \/ PreviewRestart

\* The process of a loop gets the broadcast.
Fed(l) == l.n \in alive /\ sub = l.n /\ l.feed \notin closed \cup {Nobody}

\* Calls and loops go on, and an FFmpeg that is fed makes pictures.
PreviewFairness ==
  \A n \in Loops :
    /\ WF_<<previewVars, events>>(\E c \in calls : c.n = n /\ CallGoesOn(c))
    /\ WF_<<previewVars, events>>(\E l \in loops : l.n = n /\ LoopGoesOn(l))
    /\ WF_<<previewVars, events>>(\E l \in loops : l.n = n /\ Fed(l) /\ Publishes(l))

-----------------------------------------------------------------------------
\* The picture that is shown is in the end one made with the settings of the
\* last call, or none, and an FFmpeg is fed for it whatever dies: one call ends
\* the loop of the call before, whenever in its life it comes.  Not so when calls
\* overlap, or a call comes before the last one's goroutine has begun or the loop
\* before has ended (preview.go:65, 77): then two loops take the broadcast from
\* each other for good, in two sizes.
PreviewFollows ==
  <>[](overtaken \/ (frame = settings /\ (settings = "off" \/ \E l \in loops : Fed(l))))
==============================================================================
