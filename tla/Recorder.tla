------------------------------ MODULE Recorder ------------------------------
(***************************************************************************)
(* recorder.go.  Start opens a file and starts a record loop, which copies *)
(* the broadcast into it; Stop ends the loop, closes the file and has      *)
(* FFmpeg turn it into an .mp4 in the background.  Start and Stop test a   *)
(* flag and act on it later, hold no lock between the two, and go through  *)
(* fields of the one Recorder: file, tsPath and stopCh are those of        *)
(* whoever wrote them last.                                                *)
(*                                                                         *)
(* A Start is named by the number of its request, and so are its loop, its *)
(* stop channel, its file handle, and its data in files.  A file has the   *)
(* second of the Start as its name: Starts of one second share it.  The    *)
(* loops subscribe under one id; the channel of a loop is open as long as  *)
(* the broadcaster maps the id to it.                                      *)
(*                                                                         *)
(* raced is a history variable: Starts and Stops that have overlapped or   *)
(* shared a second, errors of the disk or of FFmpeg, ends of the program.  *)
(***************************************************************************)
EXTENDS Events, Integers, FiniteSets

VARIABLES
  recording,  \* r.recording
  fields,     \* r.file, r.tsPath (and mp4Path) and r.stopCh
  closed,     \* the stop channels that are closed
  loops,      \* the record loops: where each is, and the stop channel its
              \* select waits on
  sub,        \* the loop whose channel recorder_internal is mapped to
  calls,      \* the Starts and Stops under way
  ts,         \* for each second, whose data is in its .ts file
  mp4,        \* for each second, whose data is in its .mp4 file
  torn,       \* the seconds whose .mp4 FFmpeg has not finished
  remux,      \* the background conversions
  begun,      \* the second of each recording that has begun
  raced       \* what has gone other than in turn

recorderVars ==
  <<recording, fields, closed, loops, sub, calls, ts, mp4, torn, remux, begun, raced>>

Names == 0..MaxEvents      \* 0: none
Seconds == 1..MaxEvents
disk == <<ts, mp4, torn>>

RecorderTypeOK ==
  /\ recording \in BOOLEAN
  /\ fields \in [file: Names, sec: Names, stop: Names]
  /\ closed \subseteq Names \ {0}
  /\ loops \subseteq [n: Names, at: {"begins", "runs", "leaves"}, on: Names]
  /\ \A k, l \in loops : k.n = l.n => k = l
  /\ sub \in Names
  /\ calls \subseteq [n: Names, at: {"creates", "flags", "tests", "clears", "closes", "sleeps"}]
  /\ ts \in [Seconds -> Names] /\ mp4 \in [Seconds -> Names]
  /\ torn \subseteq Seconds
  /\ remux \subseteq [n: Names, at: {"begins", "runs", "removes"}, sec: Names]
  /\ begun \in [Names -> Names]
  /\ raced \subseteq {"calls", "second", "disk", "ffmpeg", "end"}

RecorderInit ==
  /\ recording = FALSE
  /\ fields = [file |-> 0, sec |-> 0, stop |-> 0]
  /\ closed = {} /\ loops = {} /\ sub = 0 /\ calls = {} /\ remux = {}
  /\ ts = [s \in Seconds |-> 0] /\ mp4 = [s \in Seconds |-> 0] /\ torn = {}
  /\ begun = [n \in Names |-> 0] /\ raced = {}

\* The program ends, by a crash or after main's own Stop, which waits for no
\* conversion: what is left is the disk.
RecorderRestart ==
  /\ recording' = FALSE
  /\ fields' = [file |-> 0, sec |-> 0, stop |-> 0]
  /\ closed' = {} /\ loops' = {} /\ sub' = 0 /\ calls' = {} /\ remux' = {}
  /\ raced' = raced \cup {"end"}
  /\ UNCHANGED <<disk, begun>>

-----------------------------------------------------------------------------
Overlaps == raced' = IF calls = {} THEN raced ELSE raced \cup {"calls"}
CallTo(c, at) == calls' = (calls \ {c}) \cup {[c EXCEPT !.at = at]}
LoopTo(l, at) == loops' = (loops \ {l}) \cup {[l EXCEPT !.at = at]}

\* Start: a recording that is under way is an error ...
StartRecording ==
  /\ Event
  /\ ~recording
  /\ calls' = calls \cup {[n |-> events', at |-> "creates"]}
  /\ Overlaps
  /\ UNCHANGED <<recording, fields, closed, loops, sub, disk, remux, begun>>
\* ... the file, emptied if it is there, and the fields ...
LastSecond == CHOOSE s \in Names : (\A n \in Names : begun[n] <= s) /\ \E n \in Names : begun[n] = s
Creates(c) ==
  /\ c.at = "creates"
  /\ \E s \in {LastSecond, LastSecond + 1} \cap Seconds :
       /\ ts' = [ts EXCEPT ![s] = c.n]
       /\ fields' = [file |-> c.n, sec |-> s, stop |-> c.n]
       /\ begun' = [begun EXCEPT ![c.n] = s]
       /\ raced' = IF \E n \in Names : begun[n] = s THEN raced \cup {"second"} ELSE raced
  /\ CallTo(c, "flags")
  /\ UNCHANGED <<recording, closed, loops, sub, mp4, torn, remux, events>>
\* ... the flag, and the loop.
Flags(c) ==
  /\ c.at = "flags"
  /\ recording' = TRUE
  /\ loops' = loops \cup {[n |-> c.n, at |-> "begins", on |-> 0]}
  /\ calls' = calls \ {c}
  /\ UNCHANGED <<fields, closed, sub, disk, remux, begun, raced, events>>

\* Stop, by a request, by main at the end, or by a loop that has reached its
\* limit: the flag is tested ...
StopRecording ==
  /\ Event
  /\ recording
  /\ calls' = calls \cup {[n |-> events', at |-> "clears"]}
  /\ Overlaps
  /\ UNCHANGED <<recording, fields, closed, loops, sub, disk, remux, begun>>
Tests(c) ==
  /\ c.at = "tests"
  /\ IF recording THEN CallTo(c, "clears") ELSE calls' = calls \ {c}
  /\ UNCHANGED <<recording, fields, closed, loops, sub, disk, remux, begun, raced, events>>
\* ... and cleared ...
Clears(c) ==
  /\ c.at = "clears"
  /\ recording' = FALSE
  /\ CallTo(c, "closes")
  /\ UNCHANGED <<fields, closed, loops, sub, disk, remux, begun, raced, events>>
\* ... the channel of the field is closed, unless it is ...
Closes(c) ==
  /\ c.at = "closes"
  /\ closed' = closed \cup {fields.stop}
  /\ CallTo(c, "sleeps")
  /\ UNCHANGED <<recording, fields, loops, sub, disk, remux, begun, raced, events>>
\* ... and after 300 ms, in which a loop that waits on a closed channel has
\* ended, the file is closed and its conversion begins.
Ended == \A l \in loops :
  l.at # "leaves" /\ (IF l.at = "begins" THEN fields.stop ELSE l.on) \notin closed
SleepEnds_NoWait(c) ==
  /\ c.at = "sleeps"
  /\ fields' = [fields EXCEPT !.file = 0]
  /\ remux' = remux \cup {[n |-> c.n, at |-> "begins", sec |-> fields.sec]}
  /\ calls' = calls \ {c}
  /\ UNCHANGED <<recording, closed, loops, sub, disk, begun, raced, events>>
SleepEnds(c) ==
  /\ c.at = "sleeps" /\ Ended
  /\ fields' = [fields EXCEPT !.file = 0]
  /\ remux' = remux \cup {[n |-> c.n, at |-> "begins", sec |-> fields.sec]}
  /\ calls' = calls \ {c}
  /\ UNCHANGED <<recording, closed, loops, sub, disk, begun, raced, events>>

-----------------------------------------------------------------------------
\* recordLoop: Subscribe closes the channel that had the id ...
LoopBegins(l) ==
  /\ l.at = "begins"
  /\ sub' = l.n
  /\ loops' = (loops \ {l}) \cup {[l EXCEPT !.at = "runs", !.on = fields.stop]}
  /\ UNCHANGED <<recording, fields, closed, calls, disk, remux, begun, raced, events>>
\* ... every round of the select reads r.stopCh again ...
LoopRounds(l) ==
  /\ l.at = "runs" /\ sub = l.n /\ l.on # fields.stop
  /\ loops' = (loops \ {l}) \cup {[l EXCEPT !.on = fields.stop]}
  /\ UNCHANGED <<recording, fields, closed, sub, calls, disk, remux, begun, raced, events>>
\* ... the loop ends when its channel is closed, or the one it waits on ...
LoopStops_Ignores(l) ==
  /\ l.at = "runs" /\ sub # l.n
  /\ LoopTo(l, "leaves")
  /\ UNCHANGED <<recording, fields, closed, sub, calls, disk, remux, begun, raced, events>>
LoopStops(l) ==
  /\ l.at = "runs" /\ (sub # l.n \/ l.on \in closed)
  /\ LoopTo(l, "leaves")
  /\ UNCHANGED <<recording, fields, closed, sub, calls, disk, remux, begun, raced, events>>
\* ... or a write fails ...
LoopFails(l) ==
  /\ Event
  /\ l.at = "runs" /\ sub = l.n /\ fields.file # 0
  /\ LoopTo(l, "leaves")
  /\ raced' = raced \cup {"disk"}
  /\ UNCHANGED <<recording, fields, closed, sub, calls, disk, remux, begun>>
\* ... or the file has 10 GB or 12 hours: it has itself stopped.
LoopLimit(l) ==
  /\ Event
  /\ l.at = "runs" /\ sub = l.n
  /\ LoopTo(l, "leaves")
  /\ calls' = calls \cup {[n |-> events', at |-> "tests"]}
  /\ Overlaps
  /\ UNCHANGED <<recording, fields, closed, sub, disk, remux, begun>>
\* The deferred Unsubscribe closes whatever channel has the id.
LoopLeaves(l) ==
  /\ l.at = "leaves"
  /\ sub' = 0
  /\ loops' = loops \ {l}
  /\ UNCHANGED <<recording, fields, closed, calls, disk, remux, begun, raced, events>>

-----------------------------------------------------------------------------
\* The conversion: FFmpeg does not begin without its input, nor over a file
\* that is there, ...
RemuxTo(r, at) == remux' = (remux \ {r}) \cup {[r EXCEPT !.at = at]}
RemuxBegins(r) ==
  /\ r.at = "begins"
  /\ IF ts[r.sec] # 0 /\ mp4[r.sec] = 0
       THEN /\ mp4' = [mp4 EXCEPT ![r.sec] = ts[r.sec]] /\ torn' = torn \cup {r.sec}
            /\ RemuxTo(r, "runs")
       ELSE remux' = remux \ {r} /\ UNCHANGED <<mp4, torn>>
  /\ UNCHANGED <<recording, fields, closed, loops, sub, calls, ts, begun, raced, events>>
\* ... and keeps its input when it fails; ...
RemuxFails_Removes(r) ==
  /\ Event
  /\ r.at = "runs"
  /\ RemuxTo(r, "removes")
  /\ raced' = raced \cup {"ffmpeg"}
  /\ UNCHANGED <<recording, fields, closed, loops, sub, calls, disk, begun>>
RemuxFails(r) ==
  /\ Event
  /\ r.at = "runs"
  /\ remux' = remux \ {r}
  /\ raced' = raced \cup {"ffmpeg"}
  /\ UNCHANGED <<recording, fields, closed, loops, sub, calls, disk, begun>>
RemuxDone(r) ==
  /\ r.at = "runs"
  /\ torn' = torn \ {r.sec}
  /\ RemuxTo(r, "removes")
  /\ UNCHANGED <<recording, fields, closed, loops, sub, calls, ts, mp4, begun, raced, events>>
\* ... the .ts is removed when it is done.
RemuxRemoves(r) ==
  /\ r.at = "removes"
  /\ ts' = [ts EXCEPT ![r.sec] = 0]
  /\ remux' = remux \ {r}
  /\ UNCHANGED <<recording, fields, closed, loops, sub, calls, mp4, torn, begun, raced, events>>

CallSteps(c) == Creates(c) \/ Flags(c) \/ Tests(c) \/ Clears(c) \/ Closes(c) \/ SleepEnds(c)
LoopSteps(l) == LoopBegins(l) \/ LoopRounds(l) \/ LoopStops(l) \/ LoopLeaves(l)
RemuxSteps(r) == RemuxBegins(r) \/ RemuxDone(r) \/ RemuxRemoves(r)

RecorderNext ==
  \/ StartRecording \/ StopRecording
  \/ \E c \in calls : CallSteps(c)
  \/ \E l \in loops : LoopSteps(l) \/ LoopFails(l) \/ LoopLimit(l)
  \/ \E r \in remux : RemuxSteps(r) \/ RemuxFails(r)

\* Calls, loops and FFmpeg go on.
RecorderFairness ==
  \A n \in Names :
    /\ WF_recorderVars(\E c \in calls : c.n = n /\ CallSteps(c))
    /\ WF_recorderVars(\E l \in loops : l.n = n /\ LoopSteps(l))
    /\ WF_recorderVars(\E r \in remux : r.n = n /\ RemuxSteps(r))

-----------------------------------------------------------------------------
Writing(l) ==
  /\ l.n = fields.file
  /\ l.at = "begins" \/ (l.at = "runs" /\ sub = l.n)
  /\ {l.on, fields.stop} \cap closed = {}

\* As long as Starts and Stops take turns and the disk takes the data, a
\* recorder that says it records has the one loop that writes, on a channel
\* nobody has closed, to the file of the last Start; one that says it does not
\* has no loop and no open file.  An earlier loop, which unsubscribes whatever
\* has the id and waits on whatever is in the field, is what could break it
\* (recorder.go:150, 189).
RecorderFed ==
  raced \cap {"calls", "disk"} = {} /\ calls = {} =>
    IF recording THEN \E l \in loops : loops = {l} /\ Writing(l)
    ELSE fields.file = 0 /\ loops = {}

\* What was recorded is on disk, in the .ts or in a whole .mp4, whatever fails
\* or ends, unless Starts or Stops have overlapped or shared a second.
RecordingKept ==
  raced \cap {"calls", "second"} = {} =>
    \A n \in Names : begun[n] # 0 =>
      ts[begun[n]] = n \/ (mp4[begun[n]] = n /\ begun[n] \notin torn)

\* When nothing has overlapped or failed and the program has not ended, every
\* recording that is stopped becomes an .mp4, and its .ts is removed: the loop
\* sees the end, Stop the end of the loop, and FFmpeg a file of its own.
RecorderConverts ==
  <>[](raced = {} /\ ~recording =>
         \A n \in Names : begun[n] # 0 => mp4[begun[n]] = n /\ ts[begun[n]] = 0)
=============================================================================
