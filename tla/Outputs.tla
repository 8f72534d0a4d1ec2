------------------------------ MODULE Outputs ------------------------------
(***************************************************************************)
(* The RTMP outputs of output.go.  An Output object keeps an FFmpeg alive: *)
(* its manager loop starts a process, waits for it and starts another 3 s  *)
(* later, and one writer goroutine per process copies the broadcast into   *)
(* its stdin.  The OutputManager maps ids to objects, serves the calls of  *)
(* the API and writes outputs.json in place; a crash loses everything but  *)
(* that file, and a boot starts again the outputs it calls running.        *)
(*                                                                         *)
(* A goroutine reads the fields of its object afresh: cmd, stdinRef,       *)
(* dataCh and stopCh are those of whoever wrote them last.  A manager loop *)
(* has at most one process, one stop channel was made with it, and each    *)
(* process has one data channel: all of them bear the loop's name.  A      *)
(* channel of the broadcaster is open as long as its id is mapped to it.   *)
(*                                                                         *)
(* raced is a history variable: how calls have overtaken each other, or a  *)
(* dying loop, since the program was started.  The field odd of an object  *)
(* is one too: that its Running was set by the body of a request against   *)
(* what the object does.                                                   *)
(***************************************************************************)
EXTENDS Integers, FiniteSets

CONSTANTS
  Ids,         \* ids of outputs
  Objs,        \* Output objects
  IdOf,        \* config.ID of each object
  Loops,       \* manager loops
  Clients,     \* requests under way at once
  None, Torn,
  MaxEvents    \* bound: calls of the API, failures of FFmpeg and restarts of
               \* the program, together

ASSUME OutputsAssumption ==
  /\ IdOf \in [Objs -> Ids]
  /\ None \notin Objs \cup Loops
  /\ Torn \notin [Ids -> {"absent", "stopped", "running"}]
  /\ MaxEvents \in Nat

VARIABLES
  outputs,   \* om.outputs: the object of each id, or None
  file,      \* outputs.json: what it says of each id, or Torn
  obj,       \* the fields of each object
  closed,    \* the stop channels that are closed
  loop,      \* the manager loops: where each is, its object and the stop
             \* channel its pause waits on
  writer,    \* the writeLoop goroutine of each loop's process: its object and
             \* the two channels its select waits on
  alive,     \* loops whose FFmpeg runs
  eof,       \* of these, the ones whose FFmpeg has had its stdin closed
  subs,      \* the broadcaster's map
  call,      \* the calls under way
  boot,      \* ids that are still to be started at boot
  events,    \* how many of those there have been
  raced

procs == <<loop, writer, alive, eof, subs>>
vars == <<outputs, file, obj, closed, procs, call, boot, events, raced>>

Idle == [op |-> "none", at |-> "idle", obj |-> None, todo |-> {}]
Off == [at |-> "off", obj |-> None, on |-> None]
NoWriter == [obj |-> None, data |-> None, stop |-> None]
LoopOrNone == Loops \cup {None}
ObjOrNone == Objs \cup {None}
Images == [Ids -> {"absent", "stopped", "running"}]

TypeOK ==
  /\ outputs \in [Ids -> ObjOrNone]
  /\ file \in Images \cup {Torn}
  /\ obj \in [Objs -> [run: BOOLEAN, odd: BOOLEAN, target: BOOLEAN, running: BOOLEAN,
                       stop: LoopOrNone, cmd: LoopOrNone, stdin: LoopOrNone,
                       data: LoopOrNone]]
  /\ closed \subseteq Loops
  /\ loop \in [Loops -> [at: {"off", "check", "spawn", "wait", "pause"},
                         obj: ObjOrNone, on: LoopOrNone]]
  /\ writer \in [Loops -> [obj: ObjOrNone, data: LoopOrNone, stop: LoopOrNone]]
  /\ alive \subseteq Loops /\ eof \subseteq alive
  /\ subs \in [Ids -> LoopOrNone]
  /\ call \in [Clients ->
       [op: {"none", "start", "stop", "add", "remove", "update", "move", "restart",
             "shutdown"},
        at: {"idle", "saving", "start", "next", "check", "close", "sleep", "after"},
        obj: ObjOrNone, todo: SUBSET Objs]]
  /\ boot \subseteq Ids
  /\ events \in 0..MaxEvents
  /\ raced \subseteq {"calls", "dying"}

-----------------------------------------------------------------------------
\* NewOutput
NewOutput(r) == [run |-> r, odd |-> FALSE, target |-> FALSE, running |-> FALSE,
                 stop |-> None, cmd |-> None, stdin |-> None, data |-> None]
\* ... for the body of a request, whose Running is r, when the output is then
\* to run (on) or not.
FromBody(r, on) == [NewOutput(r) EXCEPT !.odd = (r # on)]

Says(content, i) == IF content = Torn THEN "absent" ELSE content[i]

\* loadConfig: an object for each id of the file; a file that does not parse
\* counts as none.
Load(content, objs) ==
  \A i \in Ids : IF Says(content, i) = "absent" THEN objs[i] = None
                 ELSE objs[i] # None /\ IdOf[objs[i]] = i
Loaded(content, objs) ==
  [o \in Objs |-> NewOutput(objs[IdOf[o]] = o /\ Says(content, IdOf[o]) = "running")]

Init ==
  /\ file \in Images
  /\ outputs \in [Ids -> ObjOrNone] /\ Load(file, outputs)
  /\ obj = Loaded(file, outputs)
  /\ closed = {} /\ loop = [k \in Loops |-> Off] /\ writer = [k \in Loops |-> NoWriter]
  /\ alive = {} /\ eof = {} /\ subs = [i \in Ids |-> None]
  /\ call = [c \in Clients |-> Idle]
  /\ boot = {i \in Ids : file[i] = "running"}
  /\ events = 0 /\ raced = {}

Event == events < MaxEvents /\ events' = events + 1

\* The program ends, whatever it was doing, and is started again: its
\* children die with it (Pdeathsig), and what is left is the file.
Restarts ==
  /\ Event
  /\ \E objs \in [Ids -> ObjOrNone] :
       Load(file, objs) /\ outputs' = objs /\ obj' = Loaded(file, objs)
  /\ closed' = {} /\ loop' = [k \in Loops |-> Off] /\ writer' = [k \in Loops |-> NoWriter]
  /\ alive' = {} /\ eof' = {} /\ subs' = [i \in Ids |-> None]
  /\ call' = [c \in Clients |-> Idle]
  /\ boot' = {i \in Ids : Says(file, i) = "running"}
  /\ raced' = {}
  /\ UNCHANGED file

-----------------------------------------------------------------------------
\* What saveConfig writes: the configurations in the map, whose Running is not
\* looked up from the output but is what was put there.
Configs == [i \in Ids |-> IF outputs[i] = None THEN "absent"
                          ELSE IF obj[outputs[i]].run THEN "running" ELSE "stopped"]

\* om.mu: the calls that change the map hold it throughout, the others while
\* they save; RestartAll and StopAll hold it for reading.
Writes(c) == call[c].op \in {"add", "remove", "update", "move"} \/ call[c].at = "saving"
Reads(c) == call[c].op \in {"restart", "shutdown"}
CanWrite(c) == \A d \in Clients \ {c} : ~Writes(d) /\ ~Reads(d)
CanRead(c) == \A d \in Clients \ {c} : ~Writes(d)

\* Names are alike: any one will do.
First(S) == IF S = {} THEN {} ELSE {CHOOSE x \in S : TRUE}

\* Names nothing refers to.
FreeLoop(k) ==
  /\ loop[k] = Off /\ writer[k] = NoWriter
  /\ \A o \in Objs : k \notin {obj[o].stop, obj[o].cmd, obj[o].stdin, obj[o].data}
  /\ \A j \in Loops : k \notin {loop[j].on, writer[j].data, writer[j].stop}
FreeObj(o) ==
  /\ o \notin {outputs[i] : i \in Ids}
  /\ \A k \in Loops : o \notin {loop[k].obj, writer[k].obj}
  /\ \A c \in Clients : o # call[c].obj /\ o \notin call[c].todo

NewObj(i) == First({o \in Objs : IdOf[o] = i /\ FreeObj(o)})

Others(c) == {d \in Clients \ {c} : call[d] # Idle}

\* A call begins: a name is at hand for each Start under way.
Begins(c, op, at, o, todo) ==
  /\ c \in First({d \in Clients : call[d] = Idle})
  /\ Cardinality({k \in Loops : FreeLoop(k)}) > Cardinality(Others(c))
  /\ call' = [call EXCEPT ![c] = [op |-> op, at |-> at, obj |-> o, todo |-> todo]]
  /\ raced' = IF Others(c) = {} THEN raced ELSE raced \cup {"calls"}
Goes(c, at) == call' = [call EXCEPT ![c].at = at]
Returns(c) == call' = [call EXCEPT ![c] = Idle]

\* os.WriteFile truncates the file and then writes it.
Truncates == file' = Torn

-----------------------------------------------------------------------------
\* (a mutant: a second Start is not refused)
StartObj_Twice(objs, o) ==
  \E k \in First({j \in Loops : FreeLoop(j)}) :
     /\ obj' = [objs EXCEPT ![o].target = TRUE, ![o].stop = k]
     /\ closed' = closed \ {k}
     /\ loop' = [loop EXCEPT ![k] = [at |-> "check", obj |-> o, on |-> None]]
\* Output.Start, under o.mu: nothing to do when the output is to run.  objs is
\* the state of the objects.
StartObj(objs, o) ==
  IF objs[o].target
    THEN obj' = objs /\ UNCHANGED <<closed, loop>>
    ELSE \E k \in First({j \in Loops : FreeLoop(j)}) :
           /\ obj' = [objs EXCEPT ![o].target = TRUE, ![o].stop = k]
           /\ closed' = closed \ {k}
           /\ loop' = [loop EXCEPT ![k] = [at |-> "check", obj |-> o, on |-> None]]

\* It is called while an earlier loop of the id has not ended.
Dying(i) == \E k \in Loops : loop[k].obj \in Objs /\ IdOf[loop[k].obj] = i
Overtaking(o) ==
  raced' = IF ~obj[o].target /\ Dying(IdOf[o]) THEN raced \cup {"dying"} ELSE raced

StartOutput(c, i) ==
  /\ CanWrite(c) /\ outputs[i] # None
  /\ Begins(c, "start", "saving", outputs[i], {})
  /\ obj' = [obj EXCEPT ![outputs[i]].run = TRUE, ![outputs[i]].odd = FALSE]
  /\ Truncates
  /\ UNCHANGED <<outputs, closed, procs>>

\* main starts at boot the outputs that were running; one that is gone by then
\* is an error it ignores.
BootStarts(c, i) ==
  /\ i \in boot /\ boot' = boot \ {i} /\ UNCHANGED events
  /\ \/ StartOutput(c, i)
     \/ /\ outputs[i] = None /\ CanWrite(c)
        /\ UNCHANGED <<outputs, file, obj, closed, procs, call, raced>>

\* ... and, when the file is saved and om.mu released, Start.
StartsNow(c) ==
  /\ call[c].op = "start" /\ call[c].at = "start"
  /\ StartObj(obj, call[c].obj) /\ Overtaking(call[c].obj) /\ Returns(c)
  /\ UNCHANGED <<outputs, file, writer, alive, eof, subs, boot, events>>

StopOutput_Unsaved(c, i) ==
  /\ CanWrite(c) /\ outputs[i] # None
  /\ Begins(c, "stop", "check", outputs[i], {})
  /\ obj' = [obj EXCEPT ![outputs[i]].run = FALSE, ![outputs[i]].odd = FALSE]
  /\ UNCHANGED <<outputs, file, closed, procs>>
StopOutput(c, i) ==
  /\ CanWrite(c) /\ outputs[i] # None
  /\ Begins(c, "stop", "saving", outputs[i], {})
  /\ obj' = [obj EXCEPT ![outputs[i]].run = FALSE, ![outputs[i]].odd = FALSE]
  /\ Truncates
  /\ UNCHANGED <<outputs, closed, procs>>

AddOutput(c, i) ==
  /\ CanWrite(c) /\ outputs[i] = None
  /\ \E o \in NewObj(i), r \in BOOLEAN :
       /\ Begins(c, "add", "saving", o, {})
       /\ outputs' = [outputs EXCEPT ![i] = o]
       /\ obj' = [obj EXCEPT ![o] = FromBody(r, FALSE)]
  /\ Truncates
  /\ UNCHANGED <<closed, procs>>

\* RemoveOutput and UpdateOutput stop first an output that is to run.
RemoveOutput(c, i) ==
  /\ CanWrite(c) /\ outputs[i] # None
  /\ Begins(c, "remove", IF obj[outputs[i]].target THEN "check" ELSE "after", outputs[i], {})
  /\ UNCHANGED <<outputs, file, obj, closed, procs>>
Removes(c) ==
  /\ call[c].op = "remove" /\ call[c].at = "after"
  /\ outputs' = [outputs EXCEPT ![IdOf[call[c].obj]] = None]
  /\ Goes(c, "saving") /\ Truncates
  /\ UNCHANGED <<obj, closed, procs, boot, events, raced>>

UpdateOutput(c, i) ==
  /\ CanWrite(c) /\ outputs[i] # None
  /\ NewObj(i) # {}
  /\ IF obj[outputs[i]].target
       THEN /\ Begins(c, "update", "check", outputs[i], {})
            /\ UNCHANGED <<outputs, file, obj>>
       ELSE \E o \in NewObj(i), r \in BOOLEAN :
              /\ Begins(c, "update", "saving", o, {})
              /\ outputs' = [outputs EXCEPT ![i] = o]
              /\ obj' = [obj EXCEPT ![o] = FromBody(r, FALSE)]
              /\ Truncates
  /\ UNCHANGED <<closed, procs>>
\* The new object is started when the old one was to run; Running is what the
\* request's body says.
Updates(c) ==
  /\ call[c].op = "update" /\ call[c].at = "after"
  /\ \E o \in NewObj(IdOf[call[c].obj]), r \in BOOLEAN :
       /\ outputs' = [outputs EXCEPT ![IdOf[o]] = o]
       /\ StartObj([obj EXCEPT ![o] = FromBody(r, TRUE)], o)
       /\ call' = [call EXCEPT ![c].at = "saving", ![c].obj = o]
       /\ raced' = IF Dying(IdOf[o]) THEN raced \cup {"dying"} ELSE raced
  /\ Truncates
  /\ UNCHANGED <<writer, alive, eof, subs, boot, events>>

\* MoveOverlay changes the coordinates, which are not told apart here, tells
\* FFmpeg, and saves them.
MoveOverlay(c, i) ==
  /\ CanWrite(c) /\ outputs[i] # None
  /\ Begins(c, "move", "saving", outputs[i], {})
  /\ Truncates
  /\ UNCHANGED <<outputs, obj, closed, procs>>

\* RestartAll, and StopAll at the end of the program, go through the map.
ForAll(c, op) ==
  /\ CanRead(c) /\ \A d \in Clients : call[d].op # "shutdown"
  /\ op = "shutdown" => events + 1 < MaxEvents
  /\ Begins(c, op, "next", None, {outputs[i] : i \in Ids} \ {None})
  /\ UNCHANGED <<outputs, file, obj, closed, procs>>
TakesNext(c) ==
  /\ call[c].at = "next"
  /\ \E o \in call[c].todo :
       call' = [call EXCEPT ![c].todo = @ \ {o}, ![c].obj = o,
                            ![c].at = IF obj[o].target THEN "check" ELSE "next"]
  /\ UNCHANGED <<outputs, file, obj, closed, procs, boot, events, raced>>
StartsAgain(c) ==
  /\ Reads(c) /\ call[c].at = "after"
  /\ IF call[c].op = "restart"
       THEN StartObj(obj, call[c].obj) /\ Overtaking(call[c].obj)
       ELSE UNCHANGED <<obj, closed, loop, raced>>
  /\ Goes(c, "next")
  /\ UNCHANGED <<outputs, file, writer, alive, eof, subs, boot, events>>
ForAllEnds(c) ==
  /\ call[c].at = "next" /\ call[c].todo = {}
  /\ IF call[c].op = "shutdown" THEN Restarts
     ELSE Returns(c) /\ UNCHANGED <<outputs, file, obj, closed, procs, boot, events, raced>>

\* saveConfig ends; the calls that hold om.mu throughout return.
Saved(c) ==
  /\ call[c].at = "saving"
  /\ file' = Configs
  /\ CASE call[c].op = "start" -> Goes(c, "start")
       [] call[c].op = "stop" -> Goes(c, "check")
       [] OTHER -> Returns(c)
  /\ UNCHANGED <<outputs, obj, closed, procs, boot, events, raced>>

-----------------------------------------------------------------------------
\* Output.Stop, which takes o.mu for the kill only: the target ...
StopChecks(c) ==
  /\ call[c].at = "check"
  /\ obj' = [obj EXCEPT ![call[c].obj].target = FALSE]
  /\ IF obj[call[c].obj].target THEN Goes(c, "close")
     ELSE IF call[c].op = "stop" THEN Returns(c) ELSE Goes(c, "after")
  /\ UNCHANGED <<outputs, file, closed, procs, boot, events, raced>>
\* ... the channel and the process in the fields ...
StopCloses(c) ==
  /\ call[c].at = "close"
  /\ closed' = closed \cup {obj[call[c].obj].stop}
  /\ alive' = alive \ {obj[call[c].obj].cmd} /\ eof' = eof \ {obj[call[c].obj].cmd}
  /\ Goes(c, "sleep")
  /\ UNCHANGED <<outputs, file, obj, loop, writer, subs, boot, events, raced>>
\* ... and, 100 ms later, the flag.
StopEnds(c) ==
  /\ call[c].at = "sleep"
  /\ obj' = [obj EXCEPT ![call[c].obj].running = FALSE]
  /\ IF call[c].op = "stop" THEN Returns(c) ELSE Goes(c, "after")
  /\ UNCHANGED <<outputs, file, closed, procs, boot, events, raced>>

-----------------------------------------------------------------------------
\* managerLoop
LoopChecks(k) ==
  /\ loop[k].at = "check"
  /\ loop' = [loop EXCEPT ![k] =
                 IF obj[@.obj].target
                   THEN [at |-> "spawn", obj |-> @.obj, on |-> None] ELSE Off]
  /\ UNCHANGED <<outputs, file, obj, closed, writer, alive, eof, subs, call, boot, events, raced>>

LoopSpawns_Unfed(k) ==
  LET o == loop[k].obj IN
  /\ loop[k].at = "spawn"
  /\ obj' = [obj EXCEPT ![o].cmd = k, ![o].stdin = k, ![o].data = k, ![o].running = TRUE]
  /\ alive' = alive \cup {k}
  /\ writer' = [writer EXCEPT ![k] = [obj |-> o, data |-> k, stop |-> obj[o].stop]]
  /\ loop' = [loop EXCEPT ![k].at = "wait"]
  /\ UNCHANGED <<outputs, file, closed, eof, subs, call, boot, events, raced>>
\* runProcess, under o.mu: Subscribe closes the channel the id had.
LoopSpawns(k) ==
  LET o == loop[k].obj IN
  /\ loop[k].at = "spawn"
  /\ obj' = [obj EXCEPT ![o].cmd = k, ![o].stdin = k, ![o].data = k, ![o].running = TRUE]
  /\ subs' = [subs EXCEPT ![IdOf[o]] = k]
  /\ alive' = alive \cup {k} /\ UNCHANGED eof
  /\ writer' = [writer EXCEPT ![k] = [obj |-> o, data |-> k, stop |-> obj[o].stop]]
  /\ loop' = [loop EXCEPT ![k].at = "wait"]
  /\ UNCHANGED <<outputs, file, closed, call, boot, events, raced>>
GoesOn_GivesUp(k) == loop' = [loop EXCEPT ![k] = Off]
\* The process is over: the loop ends, or pauses on the stop channel now in
\* the field.
GoesOn(k) ==
  loop' = [loop EXCEPT ![k] =
             IF obj[@.obj].target
               THEN [at |-> "pause", obj |-> @.obj, on |-> obj[@.obj].stop] ELSE Off]

\* FFmpeg does not start: the fields are left with its dead remains.
LoopFails(k) ==
  /\ loop[k].at = "spawn" /\ Event
  /\ obj' = [obj EXCEPT ![loop[k].obj].cmd = None, ![loop[k].obj].stdin = None]
  /\ GoesOn(k)
  /\ UNCHANGED <<outputs, file, closed, writer, alive, eof, subs, call, boot, raced>>

\* Wait returns: the loop unsubscribes the id, whoever's channel it has now.
LoopReaps(k) ==
  /\ loop[k].at = "wait" /\ k \notin alive
  /\ obj' = [obj EXCEPT ![loop[k].obj].running = FALSE]
  /\ subs' = [subs EXCEPT ![IdOf[loop[k].obj]] = None]
  /\ GoesOn(k)
  /\ UNCHANGED <<outputs, file, closed, writer, alive, eof, call, boot, events, raced>>

\* The pause of 3 s is longer than a writer takes to leave.
LoopResumes(k) ==
  /\ loop[k].at = "pause" /\ \A j \in Loops : writer[j].data # k
  /\ loop' = [loop EXCEPT ![k].at = "check", ![k].on = None]
  /\ UNCHANGED <<outputs, file, obj, closed, writer, alive, eof, subs, call, boot, events, raced>>
LoopStopped(k) ==
  /\ loop[k].at = "pause" /\ loop[k].on \in closed
  /\ loop' = [loop EXCEPT ![k] = Off]
  /\ UNCHANGED <<outputs, file, obj, closed, writer, alive, eof, subs, call, boot, events, raced>>

\* writeLoop: after a packet it waits on the channels now in the fields.
WriterReads(k) ==
  LET w == writer[k] IN
  /\ w # NoWriter /\ subs[IdOf[w.obj]] = w.data
  /\ writer' = [writer EXCEPT ![k].data = obj[w.obj].data, ![k].stop = obj[w.obj].stop]
  /\ UNCHANGED <<outputs, file, obj, closed, loop, alive, eof, subs, call, boot, events, raced>>
\* Its deferred function closes the pipe that is now in the field.
WriterLeaves_KeepsPipe(k) ==
  LET w == writer[k] IN
  /\ w # NoWriter /\ (subs[IdOf[w.obj]] # w.data \/ w.stop \in closed)
  /\ writer' = [writer EXCEPT ![k] = NoWriter]
  /\ UNCHANGED <<outputs, file, obj, closed, loop, alive, eof, subs, call, boot, events, raced>>
WriterLeaves(k) ==
  LET w == writer[k] IN
  /\ w # NoWriter /\ (subs[IdOf[w.obj]] # w.data \/ w.stop \in closed)
  /\ eof' = eof \cup ({obj[w.obj].stdin} \cap alive)
  /\ obj' = [obj EXCEPT ![w.obj].stdin = None]
  /\ writer' = [writer EXCEPT ![k] = NoWriter]
  /\ UNCHANGED <<outputs, file, closed, loop, alive, subs, call, boot, events, raced>>

ProcExits_Uncleared(k) ==
  /\ k \in eof /\ alive' = alive \ {k}
  /\ UNCHANGED <<outputs, file, obj, closed, loop, writer, eof, subs, call, boot, events, raced>>
\* FFmpeg ends because its input has, or of itself.
ProcExits(k) ==
  /\ k \in eof /\ alive' = alive \ {k} /\ eof' = eof \ {k}
  /\ UNCHANGED <<outputs, file, obj, closed, loop, writer, subs, call, boot, events, raced>>
ProcFails(k) ==
  /\ k \in alive \ eof /\ alive' = alive \ {k}
  /\ Event
  /\ UNCHANGED <<outputs, file, obj, closed, loop, writer, eof, subs, call, boot, raced>>

-----------------------------------------------------------------------------
Request(c) ==
  /\ Event /\ UNCHANGED boot
  /\ \/ \E i \in Ids : \/ StartOutput(c, i) \/ StopOutput(c, i) \/ AddOutput(c, i)
                       \/ RemoveOutput(c, i) \/ UpdateOutput(c, i)
                       \/ MoveOverlay(c, i)
     \/ \E op \in {"restart", "shutdown"} : ForAll(c, op)
Serve(c) ==
  \/ Saved(c) \/ StartsNow(c) \/ Removes(c) \/ Updates(c)
  \/ TakesNext(c) \/ StartsAgain(c) \/ ForAllEnds(c)
  \/ StopChecks(c) \/ StopCloses(c) \/ StopEnds(c)
Manage(k) ==
  \/ LoopChecks(k) \/ LoopSpawns(k) \/ LoopFails(k) \/ LoopReaps(k)
  \/ LoopResumes(k) \/ LoopStopped(k)

Next ==
  \/ Restarts
  \/ \E c \in Clients : Request(c) \/ Serve(c) \/ \E i \in Ids : BootStarts(c, i)
  \/ \E k \in Loops : Manage(k) \/ WriterReads(k) \/ WriterLeaves(k) \/ ProcExits(k) \/ ProcFails(k)

Spec == Init /\ [][Next]_vars

\* The scheduler runs the goroutines of the calls, of the boot and of each
\* process, and an FFmpeg without input ends.  Requests, failures and restarts
\* may never come.
FairSpec ==
  /\ Spec
  /\ WF_vars(\E c \in Clients : Serve(c))
  /\ WF_vars(\E c \in Clients, i \in Ids : BootStarts(c, i))
  /\ \A k \in Loops :
       WF_vars(UNCHANGED events /\ (Manage(k) \/ WriterLeaves(k) \/ ProcExits(k)))

-----------------------------------------------------------------------------
\* The process of loop k sends the broadcast to the destination of id i.
FedBy(i, k) ==
  LET o == outputs[i] IN
  /\ k \in alive \ eof /\ obj[o].stdin = k
  /\ \E j \in Loops : writer[j].obj = o /\ writer[j].data = k /\ subs[i] = k

Processes(i) == {k \in alive : IdOf[loop[k].obj] = i}

Quiet == "calls" \notin raced /\ \A c \in Clients : call[c] = Idle

\* Between calls that did not overtake each other the file has the outputs of
\* the map, and calls running, so that a boot starts them again, those that are
\* to run and no others (output.go:41, main.go:196), whatever FFmpeg does and
\* wherever the program ended before: but for an output that boot has still to
\* start, and one that a body has put in the map with another Running than it has
\* (UpdateOutput goes by whether the old one was to run, output.go:560-572).
BootRestores ==
  Quiet =>
    \A i \in Ids :
      /\ Says(file, i) = "absent" <=> outputs[i] = None
      /\ outputs[i] # None /\ i \notin boot /\ ~obj[outputs[i]].odd =>
           (Says(file, i) = "running" <=> obj[outputs[i]].target)

\* "Persist running state on boot" (output.go:41): an output on air is called
\* running in the file.
OnAirIsSaved ==
  Quiet =>
    \A i \in Ids \ boot :
      outputs[i] # None /\ obj[outputs[i]].target => Says(file, i) = "running"

\* As long as no call overtakes another or a loop that is still dying, an id
\* has one FFmpeg at most: two would push to the same address, and the fields
\* lead to the last one only (Stop's 100 ms, managerLoop, runProcess).
OneProcess == raced = {} => \A i \in Ids : Cardinality(Processes(i)) <= 1

\* As long as no call overtakes another, an output that is to run is in the
\* map, so that it can be stopped, its stop channel is open, and a loop that
\* will not be told to end looks after it (GetStats calls it running).
Supervised ==
  "calls" \notin raced =>
    \A o \in Objs : obj[o].target =>
      /\ o = outputs[IdOf[o]]
      /\ obj[o].stop \notin closed
      /\ \E k \in Loops : loop[k].obj = o /\ loop[k].on \notin closed

\* Whatever dies, and even when loops overtake each other and close each
\* other's pipes and feeds, an output that stays to run is fed again and again
\* (managerLoop's restart after 3 s).
SelfHeals ==
  \A i \in Ids : []<>(\/ "calls" \in raced \/ outputs[i] = None
                      \/ ~obj[outputs[i]].target
                      \/ \E k \in Loops : FedBy(i, k))

\* When nothing is to run, every FFmpeg ends, also one that was started behind
\* the back of Stop's kill, unless loops or calls have overtaken each other.
StopsForGood ==
  (\A o \in Objs : ~obj[o].target)
     ~> (alive = {} \/ raced # {} \/ \E o \in Objs : obj[o].target)
=============================================================================
