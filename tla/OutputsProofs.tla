---------------------------- MODULE OutputsProofs ----------------------------
(***************************************************************************)
(* What the outputs and their manager keep for any ids, objects, loops and *)
(* numbers of requests, failures and restarts, checked by TLAPS.           *)
(***************************************************************************)
EXTENDS Outputs, FiniteSetTheorems, TLAPS

\* The types of the parts, and what is named in them: goroutines and calls that
\* are under way have an object; what is to run, or is being stopped, has a stop
\* channel.
ObjRecs == [run: BOOLEAN, odd: BOOLEAN, target: BOOLEAN, running: BOOLEAN,
            stop: LoopOrNone, cmd: LoopOrNone, stdin: LoopOrNone, data: LoopOrNone]
LoopRecs == [at: {"off", "check", "spawn", "wait", "pause"}, obj: ObjOrNone, on: LoopOrNone]
WriterRecs == [obj: ObjOrNone, data: LoopOrNone, stop: LoopOrNone]
CallRecs ==
  [op: {"none", "start", "stop", "add", "remove", "update", "move", "restart", "shutdown"},
   at: {"idle", "saving", "start", "next", "check", "close", "sleep", "after"},
   obj: ObjOrNone, todo: SUBSET Objs]

ObjGood(r) == r \in ObjRecs /\ (r.target => r.stop \in Loops)
LoopGood(r) == r \in LoopRecs /\ (r.at # "off" => r.obj \in Objs)
WriterGood(r) == r \in WriterRecs /\ (r # NoWriter => r.obj \in Objs)
CallGood(r) == r \in CallRecs /\ (r.at \notin {"idle", "next"} => r.obj \in Objs)

ObjsGood == obj = [o \in Objs |-> obj[o]] /\ \A o \in Objs : ObjGood(obj[o])
LoopsGood == loop = [k \in Loops |-> loop[k]] /\ \A k \in Loops : LoopGood(loop[k])
WritersGood == writer = [k \in Loops |-> writer[k]] /\ \A k \in Loops : WriterGood(writer[k])
CallsGood == call = [c \in Clients |-> call[c]] /\ \A c \in Clients : CallGood(call[c])
ClosesGood == \A c \in Clients : call[c].at = "close" => obj[call[c].obj].stop \in Loops
RestGood ==
  /\ outputs \in [Ids -> ObjOrNone]
  /\ file \in Images \cup {Torn}
  /\ closed \subseteq Loops
  /\ alive \subseteq Loops /\ eof \subseteq alive
  /\ subs \in [Ids -> LoopOrNone]
  /\ boot \subseteq Ids
  /\ events \in 0..MaxEvents
  /\ raced \subseteq {"calls", "dying"}

TypeInv == ObjsGood /\ LoopsGood /\ WritersGood /\ CallsGood /\ ClosesGood /\ RestGood
\* While no save is under way outputs.json has what is in the map, but for a file
\* that a crash has left half written.
FileTrue ==
  \/ file = Configs
  \/ file = Torn /\ \/ \E c \in Clients : call[c].at = "saving"
                    \/ \A i \in Ids : outputs[i] = None
IInv == TypeInv /\ FileTrue

\* They are the types of the specification.
LEMMA TypeInvTypes == TypeInv => TypeOK
<1> SUFFICES ASSUME TypeInv PROVE TypeOK
  OBVIOUS
<1>1. obj \in [Objs -> ObjRecs]
  BY DEF TypeInv, ObjsGood, ObjGood
<1>2. loop \in [Loops -> LoopRecs]
  BY DEF TypeInv, LoopsGood, LoopGood
<1>3. writer \in [Loops -> WriterRecs]
  BY DEF TypeInv, WritersGood, WriterGood
<1>4. call \in [Clients -> CallRecs]
  BY DEF TypeInv, CallsGood, CallGood
<1>5. QED
  BY <1>1, <1>2, <1>3, <1>4
     DEF TypeInv, RestGood, TypeOK, ObjRecs, LoopRecs, WriterRecs, CallRecs

\* What First returns is in its set.
LEMMA FirstIn == ASSUME NEW S PROVE First(S) \subseteq S
BY DEF First

\* What the constants are.
LEMMA Consts == None \notin Objs /\ None \notin Loops /\ IdOf \in [Objs -> Ids] /\ MaxEvents \in Nat
BY OutputsAssumption DEF OutputsAssumption

\* One object is changed, to another good one.
LEMMA ObjChanged ==
  ASSUME ObjsGood, NEW o \in Objs, NEW r, ObjGood(r), obj' = [obj EXCEPT ![o] = r]
  PROVE  ObjsGood' /\ obj'[o] = r /\ \A x \in Objs : x # o => obj'[x] = obj[x]
BY DEF ObjsGood
\* The same of a loop, ...
LEMMA LoopChanged ==
  ASSUME LoopsGood, NEW k \in Loops, NEW r, LoopGood(r), loop' = [loop EXCEPT ![k] = r]
  PROVE  LoopsGood'
BY DEF LoopsGood
\* ... of a writer ...
LEMMA WriterChanged ==
  ASSUME WritersGood, NEW k \in Loops, NEW r, WriterGood(r), writer' = [writer EXCEPT ![k] = r]
  PROVE  WritersGood'
BY DEF WritersGood
\* ... and of a call.
LEMMA CallChanged ==
  ASSUME CallsGood, NEW c \in Clients, NEW r, CallGood(r), call' = [call EXCEPT ![c] = r]
  PROVE  CallsGood' /\ call'[c] = r /\ \A d \in Clients : d # c => call'[d] = call[d]
BY DEF CallsGood
\* Stop channels stay, and no call comes to its close.
LEMMA ClosesKept ==
  ASSUME ClosesGood, CallsGood,
         \A o \in Objs : obj[o].stop \in Loops => obj'[o].stop \in Loops,
         \A c \in Clients : call'[c].at = "close" =>
            call[c].at = "close" /\ call'[c].obj = call[c].obj
  PROVE  ClosesGood'
BY DEF ClosesGood, CallsGood, CallGood

\* A new object is good, ...
LEMMA NewOutputGood ==
  ASSUME NEW r \in BOOLEAN
  PROVE  /\ ObjGood(NewOutput(r))
         /\ NewOutput(r).target = FALSE /\ NewOutput(r).stop = None
         /\ NewOutput(r).run = r /\ NewOutput(r).odd = FALSE
BY DEF NewOutput, ObjRecs, ObjGood, LoopOrNone
\* ... also one made of the body of a request.
LEMMA FromBodyGood ==
  ASSUME NEW r \in BOOLEAN, NEW on \in BOOLEAN
  PROVE  /\ ObjGood(FromBody(r, on))
         /\ FromBody(r, on).target = FALSE /\ FromBody(r, on).stop = None
         /\ FromBody(r, on).run = r /\ FromBody(r, on).odd = (r # on)
BY DEF FromBody, NewOutput, ObjRecs, ObjGood, LoopOrNone

-----------------------------------------------------------------------------
\* What the goroutines leave alone of the objects.
FieldsKept ==
  \A x \in Objs : /\ obj'[x].run = obj[x].run /\ obj'[x].odd = obj[x].odd
                  /\ obj'[x].target = obj[x].target /\ obj'[x].stop = obj[x].stop

\* The loops.
LEMMA LoopStep ==
  ASSUME TypeInv, NEW k \in Loops, Manage(k)
  PROVE  TypeInv' /\ FieldsKept
<1> USE Consts
<1>0. LoopGood(loop[k]) /\ loop[k] \in LoopRecs
  BY DEF TypeInv, LoopsGood, LoopGood
<1>1. CASE LoopChecks(k)
  <2> DEFINE r == IF obj[loop[k].obj].target
                   THEN [at |-> "spawn", obj |-> loop[k].obj, on |-> None] ELSE Off
  <2>1. LoopGood(r)
    BY <1>0, <1>1 DEF LoopChecks, LoopGood, LoopRecs, Off, LoopOrNone, ObjOrNone
  <2>2. loop' = [loop EXCEPT ![k] = r]
    BY <1>1 DEF LoopChecks
  <2> HIDE DEF r
  <2>3. LoopsGood'
    BY <2>1, <2>2, LoopChanged DEF TypeInv
  <2>4. QED
    BY <1>1, <2>3 DEF LoopChecks, FieldsKept, TypeInv, ObjsGood, WritersGood, CallsGood, ClosesGood, RestGood
<1>2. CASE LoopSpawns(k)
  <2> DEFINE o == loop[k].obj
             r == [obj[o] EXCEPT !.cmd = k, !.stdin = k, !.data = k, !.running = TRUE]
             w == [obj |-> o, data |-> k, stop |-> obj[o].stop]
             l == [loop[k] EXCEPT !.at = "wait"]
  <2>1. o \in Objs /\ ObjGood(obj[o])
    BY <1>0, <1>2 DEF LoopSpawns, LoopGood, TypeInv, ObjsGood
  <2>2. ObjGood(r) /\ r.stop = obj[o].stop /\ r.run = obj[o].run /\ r.odd = obj[o].odd /\ r.target = obj[o].target
    BY <2>1 DEF ObjGood, ObjRecs, LoopOrNone
  <2>3. WriterGood(w)
    BY <2>1 DEF WriterGood, WriterRecs, LoopOrNone, ObjOrNone, ObjGood, ObjRecs
  <2>4. LoopGood(l)
    BY <1>0, <2>1 DEF LoopGood, LoopRecs
  <2>5. /\ obj' = [obj EXCEPT ![o] = r]
        /\ writer' = [writer EXCEPT ![k] = w]
        /\ loop' = [loop EXCEPT ![k] = l]
        /\ UNCHANGED call
    BY <1>2 DEF LoopSpawns
  <2>6. RestGood'
    BY <1>2 DEF LoopSpawns, TypeInv, RestGood, LoopOrNone
  <2> HIDE DEF o, r, w, l
  <2>7. ObjsGood' /\ obj'[o] = r /\ \A x \in Objs : x # o => obj'[x] = obj[x]
    BY <2>1, <2>2, <2>5, ObjChanged DEF TypeInv
  <2>8. LoopsGood' /\ WritersGood' /\ CallsGood'
    BY <2>3, <2>4, <2>5, LoopChanged, WriterChanged DEF TypeInv, CallsGood
  <2>9. ClosesGood'
    BY <2>2, <2>5, <2>7, ClosesKept DEF TypeInv
  <2>10. QED
    BY <2>2, <2>6, <2>7, <2>8, <2>9 DEF TypeInv, FieldsKept
<1> DEFINE g == IF obj[loop[k].obj].target
                  THEN [at |-> "pause", obj |-> loop[k].obj, on |-> obj[loop[k].obj].stop] ELSE Off
<1>3. CASE LoopFails(k)
  <2> DEFINE o == loop[k].obj
             r == [obj[o] EXCEPT !.cmd = None, !.stdin = None]
  <2>1. o \in Objs /\ ObjGood(obj[o])
    BY <1>0, <1>3 DEF LoopFails, LoopGood, TypeInv, ObjsGood
  <2>2. ObjGood(r) /\ r.stop = obj[o].stop /\ r.run = obj[o].run /\ r.odd = obj[o].odd /\ r.target = obj[o].target
    BY <2>1 DEF ObjGood, ObjRecs, LoopOrNone
  <2>3. LoopGood(g)
    BY <2>1 DEF LoopGood, LoopRecs, Off, LoopOrNone, ObjOrNone, ObjGood, ObjRecs
  <2>5. /\ obj' = [obj EXCEPT ![o] = r]
        /\ loop' = [loop EXCEPT ![k] = g]
        /\ UNCHANGED <<call, writer>>
    BY <1>3 DEF LoopFails, GoesOn
  <2>6. RestGood'
    BY <1>3 DEF LoopFails, TypeInv, RestGood, Event
  <2> HIDE DEF o, r, g
  <2>7. ObjsGood' /\ obj'[o] = r /\ \A x \in Objs : x # o => obj'[x] = obj[x]
    BY <2>1, <2>2, <2>5, ObjChanged DEF TypeInv
  <2>8. LoopsGood' /\ WritersGood' /\ CallsGood'
    BY <2>3, <2>5, LoopChanged DEF TypeInv, CallsGood, WritersGood
  <2>9. ClosesGood'
    BY <2>2, <2>5, <2>7, ClosesKept DEF TypeInv
  <2>10. QED
    BY <2>2, <2>6, <2>7, <2>8, <2>9 DEF TypeInv, FieldsKept
<1>4. CASE LoopReaps(k)
  <2> DEFINE o == loop[k].obj
             r == [obj[o] EXCEPT !.running = FALSE]
  <2>1. o \in Objs /\ ObjGood(obj[o])
    BY <1>0, <1>4 DEF LoopReaps, LoopGood, TypeInv, ObjsGood
  <2>2. ObjGood(r) /\ r.stop = obj[o].stop /\ r.run = obj[o].run /\ r.odd = obj[o].odd /\ r.target = obj[o].target
    BY <2>1 DEF ObjGood, ObjRecs, LoopOrNone
  <2>3. LoopGood(g)
    BY <2>1 DEF LoopGood, LoopRecs, Off, LoopOrNone, ObjOrNone, ObjGood, ObjRecs
  <2>5. /\ obj' = [obj EXCEPT ![o] = r]
        /\ loop' = [loop EXCEPT ![k] = g]
        /\ UNCHANGED <<call, writer>>
    BY <1>4 DEF LoopReaps, GoesOn
  <2>6. RestGood'
    BY <1>4 DEF LoopReaps, TypeInv, RestGood, LoopOrNone
  <2> HIDE DEF o, r, g
  <2>7. ObjsGood' /\ obj'[o] = r /\ \A x \in Objs : x # o => obj'[x] = obj[x]
    BY <2>1, <2>2, <2>5, ObjChanged DEF TypeInv
  <2>8. LoopsGood' /\ WritersGood' /\ CallsGood'
    BY <2>3, <2>5, LoopChanged DEF TypeInv, CallsGood, WritersGood
  <2>9. ClosesGood'
    BY <2>2, <2>5, <2>7, ClosesKept DEF TypeInv
  <2>10. QED
    BY <2>2, <2>6, <2>7, <2>8, <2>9 DEF TypeInv, FieldsKept
<1>5. CASE LoopResumes(k)
  <2> DEFINE r == [loop[k] EXCEPT !.at = "check", !.on = None]
  <2>1. LoopGood(r)
    BY <1>0, <1>5 DEF LoopResumes, LoopGood, LoopRecs, LoopOrNone
  <2>2. loop' = [loop EXCEPT ![k] = r]
    BY <1>5 DEF LoopResumes
  <2> HIDE DEF r
  <2>3. LoopsGood'
    BY <2>1, <2>2, LoopChanged DEF TypeInv
  <2>4. QED
    BY <1>5, <2>3 DEF LoopResumes, FieldsKept, TypeInv, ObjsGood, WritersGood, CallsGood, ClosesGood, RestGood
<1>6. CASE LoopStopped(k)
  <2>1. LoopGood(Off)
    BY DEF LoopGood, LoopRecs, Off, LoopOrNone, ObjOrNone
  <2>2. LoopsGood'
    BY <1>6, <2>1, LoopChanged DEF LoopStopped, TypeInv
  <2>3. QED
    BY <1>6, <2>2 DEF LoopStopped, FieldsKept, TypeInv, ObjsGood, WritersGood, CallsGood, ClosesGood, RestGood
<1>7. QED
  BY <1>1, <1>2, <1>3, <1>4, <1>5, <1>6 DEF Manage

\* The writers and the processes.
LEMMA ProcStep ==
  ASSUME TypeInv, NEW k \in Loops,
         WriterReads(k) \/ WriterLeaves(k) \/ ProcExits(k) \/ ProcFails(k)
  PROVE  TypeInv' /\ FieldsKept
<1> USE Consts
<1>0. WriterGood(writer[k]) /\ WriterGood(NoWriter)
  BY DEF TypeInv, WritersGood, WriterGood, WriterRecs, NoWriter, LoopOrNone, ObjOrNone
<1>1. CASE WriterReads(k)
  <2> DEFINE o == writer[k].obj
             r == [writer[k] EXCEPT !.data = obj[o].data, !.stop = obj[o].stop]
  <2>1. o \in Objs /\ ObjGood(obj[o])
    BY <1>0, <1>1 DEF WriterReads, WriterGood, TypeInv, ObjsGood
  <2>2. WriterGood(r)
    BY <1>0, <2>1 DEF WriterGood, WriterRecs, ObjGood, ObjRecs
  <2>3. writer' = [writer EXCEPT ![k] = r]
    BY <1>1 DEF WriterReads
  <2> HIDE DEF o, r
  <2>4. WritersGood'
    BY <2>2, <2>3, WriterChanged DEF TypeInv
  <2>5. QED
    BY <1>1, <2>4 DEF WriterReads, FieldsKept, TypeInv, ObjsGood, LoopsGood, CallsGood, ClosesGood, RestGood
<1>2. CASE WriterLeaves(k)
  <2> DEFINE o == writer[k].obj
             r == [obj[o] EXCEPT !.stdin = None]
  <2>1. o \in Objs /\ ObjGood(obj[o])
    BY <1>0, <1>2 DEF WriterLeaves, WriterGood, TypeInv, ObjsGood
  <2>2. ObjGood(r) /\ r.stop = obj[o].stop /\ r.run = obj[o].run /\ r.odd = obj[o].odd /\ r.target = obj[o].target
    BY <2>1 DEF ObjGood, ObjRecs, LoopOrNone
  <2>3. /\ obj' = [obj EXCEPT ![o] = r]
        /\ writer' = [writer EXCEPT ![k] = NoWriter]
        /\ UNCHANGED <<call, loop>>
    BY <1>2 DEF WriterLeaves
  <2>4. RestGood'
    BY <1>2 DEF WriterLeaves, TypeInv, RestGood
  <2> HIDE DEF o, r
  <2>5. ObjsGood' /\ obj'[o] = r /\ \A x \in Objs : x # o => obj'[x] = obj[x]
    BY <2>1, <2>2, <2>3, ObjChanged DEF TypeInv
  <2>6. LoopsGood' /\ WritersGood' /\ CallsGood'
    BY <1>0, <2>3, WriterChanged DEF TypeInv, CallsGood, LoopsGood
  <2>7. ClosesGood'
    BY <2>2, <2>3, <2>5, ClosesKept DEF TypeInv
  <2>8. QED
    BY <2>2, <2>4, <2>5, <2>6, <2>7 DEF TypeInv, FieldsKept
<1>3. CASE ProcExits(k) \/ ProcFails(k)
  <2>1. RestGood'
    <3>1. CASE ProcExits(k)
      BY <3>1 DEF ProcExits, TypeInv, RestGood
    <3>2. CASE ProcFails(k)
      BY <3>2 DEF ProcFails, Event, TypeInv, RestGood
    <3>3. QED
      BY <1>3, <3>1, <3>2
  <2>2. QED
    BY <1>3, <2>1 DEF ProcExits, ProcFails, FieldsKept, TypeInv, ObjsGood, LoopsGood, WritersGood, CallsGood, ClosesGood
<1>4. QED
  BY <1>1, <1>2, <1>3

-----------------------------------------------------------------------------
\* Start, on objects that are good.
LEMMA StartObjGood ==
  ASSUME LoopsGood, closed \subseteq Loops, NEW o \in Objs,
         NEW objs, objs = [x \in Objs |-> objs[x]], \A x \in Objs : ObjGood(objs[x]),
         StartObj(objs, o)
  PROVE  /\ ObjsGood' /\ LoopsGood' /\ closed' \subseteq Loops
         /\ \A x \in Objs : /\ obj'[x].run = objs[x].run /\ obj'[x].odd = objs[x].odd
                            /\ objs[x].stop \in Loops => obj'[x].stop \in Loops
<1>1. CASE objs[o].target
  BY <1>1 DEF StartObj, ObjsGood, LoopsGood
<1>2. CASE ~objs[o].target
  <2>1. PICK k \in First({j \in Loops : FreeLoop(j)}) :
           /\ obj' = [objs EXCEPT ![o].target = TRUE, ![o].stop = k]
           /\ closed' = closed \ {k}
           /\ loop' = [loop EXCEPT ![k] = [at |-> "check", obj |-> o, on |-> None]]
    BY <1>2 DEF StartObj
  <2>2. k \in Loops
    BY FirstIn
  <2> DEFINE r == [objs[o] EXCEPT !.target = TRUE, !.stop = k]
             l == [at |-> "check", obj |-> o, on |-> None]
  <2>3. ObjGood(r) /\ r.run = objs[o].run /\ r.odd = objs[o].odd /\ r.stop = k
    BY <2>2 DEF ObjGood, ObjRecs, LoopOrNone
  <2>4. LoopGood(l)
    BY DEF LoopGood, LoopRecs, LoopOrNone, ObjOrNone
  <2>5. obj' = [objs EXCEPT ![o] = r] /\ loop' = [loop EXCEPT ![k] = l]
    BY <2>1
  <2> HIDE DEF r, l
  <2>6. LoopsGood'
    BY <2>2, <2>4, <2>5, LoopChanged
  <2>7. ObjsGood'
    BY <2>3, <2>5 DEF ObjsGood
  <2>8. \A x \in Objs : /\ obj'[x].run = objs[x].run /\ obj'[x].odd = objs[x].odd
                        /\ objs[x].stop \in Loops => obj'[x].stop \in Loops
    BY <2>2, <2>3, <2>5
  <2>9. QED
    BY <2>1, <2>6, <2>7, <2>8
<1>3. QED
  BY <1>1, <1>2

\* What a call is for.
Ops == {"start", "stop", "add", "remove", "update", "move", "restart", "shutdown"}
\* A call begins, ...
LEMMA CallBegins ==
  ASSUME TypeInv, NEW c \in Clients, NEW op \in Ops, NEW at \in {"saving", "check", "after", "next"},
         NEW o \in ObjOrNone, at # "next" => o \in Objs, NEW todo \in SUBSET Objs,
         Begins(c, op, at, o, todo)
  PROVE  /\ call[c] = Idle
         /\ CallsGood' /\ raced' \subseteq {"calls", "dying"}
         /\ call'[c].at = at /\ \A d \in Clients : d # c => call'[d] = call[d]
<1> DEFINE r == [op |-> op, at |-> at, obj |-> o, todo |-> todo]
<1>1. CallGood(r) /\ r.at = at
  BY DEF CallGood, CallRecs, Ops
<1>2. call' = [call EXCEPT ![c] = r] /\ c \in First({d \in Clients : call[d] = Idle})
  BY DEF Begins
<1>3. call[c] = Idle
  BY <1>2, FirstIn
<1>4. raced' \subseteq {"calls", "dying"}
  BY DEF Begins, TypeInv, RestGood
<1> HIDE DEF r
<1>5. QED
  BY <1>1, <1>2, <1>3, <1>4, CallChanged DEF TypeInv

\* ... goes on ...
LEMMA CallGoes ==
  ASSUME TypeInv, NEW c \in Clients, NEW at \in {"saving", "start", "next", "check", "close", "sleep", "after"},
         at = "next" \/ call[c].at \notin {"idle", "next"}, Goes(c, at)
  PROVE  /\ CallsGood' /\ call'[c].at = at /\ call'[c].obj = call[c].obj
         /\ \A d \in Clients : d # c => call'[d] = call[d]
<1> DEFINE r == [call[c] EXCEPT !.at = at]
<1>0. CallGood(call[c])
  BY DEF TypeInv, CallsGood
<1>1. CallGood(r) /\ r.at = at /\ r.obj = call[c].obj
  BY <1>0 DEF CallGood, CallRecs
<1>2. call' = [call EXCEPT ![c] = r]
  BY DEF Goes
<1> HIDE DEF r
<1>3. QED
  BY <1>1, <1>2, CallChanged DEF TypeInv

\* ... and returns.
LEMMA CallReturns ==
  ASSUME TypeInv, NEW c \in Clients, Returns(c)
  PROVE  /\ CallsGood' /\ call'[c].at = "idle"
         /\ \A d \in Clients : d # c => call'[d] = call[d]
<1>1. CallGood(Idle) /\ Idle.at = "idle"
  BY DEF CallGood, CallRecs, Idle, ObjOrNone
<1>2. QED
  BY <1>1, CallChanged DEF TypeInv, Returns

\* A call that changes an output, or begins to stop one.
LEMMA RequestStep ==
  ASSUME TypeInv, NEW c \in Clients, NEW i \in Ids,
         events' \in 0..MaxEvents, boot' \subseteq Ids,
         \/ StartOutput(c, i) \/ StopOutput(c, i) \/ AddOutput(c, i)
         \/ RemoveOutput(c, i) \/ UpdateOutput(c, i) \/ MoveOverlay(c, i)
  PROVE  TypeInv'
<1> USE Consts
<1>0. outputs[i] # None => outputs[i] \in Objs /\ ObjGood(obj[outputs[i]])
  BY DEF TypeInv, RestGood, ObjsGood, ObjOrNone
<1>n. ASSUME NEW o \in NewObj(i) PROVE o \in Objs /\ IdOf[o] = i /\ FreeObj(o)
  BY FirstIn DEF NewObj
<1>1. CASE StartOutput(c, i) \/ StopOutput(c, i)
  <2>1. PICK op \in {"start", "stop"}, run \in BOOLEAN :
           /\ outputs[i] # None
           /\ Begins(c, op, "saving", outputs[i], {})
           /\ obj' = [obj EXCEPT ![outputs[i]].run = run, ![outputs[i]].odd = FALSE]
           /\ Truncates
           /\ UNCHANGED <<outputs, closed, procs>>
    BY <1>1 DEF StartOutput, StopOutput
  <2> DEFINE o == outputs[i]
             r == [obj[o] EXCEPT !.run = run, !.odd = FALSE]
  <2>2. ObjGood(r) /\ r.stop = obj[o].stop /\ obj' = [obj EXCEPT ![o] = r] /\ o \in Objs
    BY <1>0, <2>1 DEF ObjGood, ObjRecs
  <2>3. CallsGood' /\ raced' \subseteq {"calls", "dying"} /\ call'[c].at = "saving"
        /\ \A d \in Clients : d # c => call'[d] = call[d]
    BY <2>1, <2>2, CallBegins DEF Ops, ObjOrNone
  <2>4. RestGood'
    BY <2>1, <2>3 DEF TypeInv, RestGood, Truncates, procs
  <2>5. LoopsGood' /\ WritersGood'
    BY <2>1 DEF procs, TypeInv, LoopsGood, WritersGood
  <2> HIDE DEF o, r
  <2>6. ObjsGood' /\ obj'[o] = r /\ \A x \in Objs : x # o => obj'[x] = obj[x]
    BY <2>2, ObjChanged DEF TypeInv
  <2>7. ClosesGood'
    BY <2>2, <2>3, <2>6, ClosesKept DEF TypeInv
  <2>8. QED
    BY <2>3, <2>4, <2>5, <2>6, <2>7 DEF TypeInv
<1>2. ASSUME NEW op \in {"add", "update"}, NEW o \in NewObj(i), NEW run \in BOOLEAN, NEW on \in BOOLEAN,
             Begins(c, op, "saving", o, {}),
             outputs' = [outputs EXCEPT ![i] = o],
             obj' = [obj EXCEPT ![o] = FromBody(run, on)],
             Truncates, UNCHANGED <<closed, procs>>
      PROVE  TypeInv'
  <2>2. o \in Objs /\ ObjGood(FromBody(run, on)) /\ \A d \in Clients : call[d].obj # o
    BY <1>n, FromBodyGood DEF FreeObj
  <2>3. CallsGood' /\ raced' \subseteq {"calls", "dying"} /\ call'[c].at = "saving"
        /\ \A d \in Clients : d # c => call'[d] = call[d]
    BY <1>2, <2>2, CallBegins DEF Ops, ObjOrNone
  <2>4. RestGood'
    BY <1>2, <2>2, <2>3 DEF TypeInv, RestGood, Truncates, procs, ObjOrNone
  <2>5. LoopsGood' /\ WritersGood'
    BY <1>2 DEF procs, TypeInv, LoopsGood, WritersGood
  <2>6. ObjsGood' /\ \A x \in Objs : x # o => obj'[x] = obj[x]
    BY <1>2, <2>2, ObjChanged DEF TypeInv
  <2>7. ClosesGood'
    BY <2>2, <2>3, <2>6 DEF TypeInv, ClosesGood, CallsGood, CallGood
  <2>8. QED
    BY <2>3, <2>4, <2>5, <2>6, <2>7 DEF TypeInv
<1>3. ASSUME NEW op \in Ops, NEW at \in {"saving", "check", "after"}, outputs[i] # None,
             Begins(c, op, at, outputs[i], {}),
             UNCHANGED <<outputs, obj, closed, procs>>, file' = file \/ Truncates
      PROVE  TypeInv'
  <2>3. CallsGood' /\ raced' \subseteq {"calls", "dying"} /\ call'[c].at = at
        /\ \A d \in Clients : d # c => call'[d] = call[d]
    BY <1>0, <1>3, CallBegins DEF ObjOrNone
  <2>4. RestGood'
    BY <1>3, <2>3 DEF TypeInv, RestGood, Truncates, procs
  <2>5. LoopsGood' /\ WritersGood' /\ ObjsGood'
    BY <1>3 DEF procs, TypeInv, LoopsGood, WritersGood, ObjsGood
  <2>6. ClosesGood'
    BY <1>3, <2>3, ClosesKept DEF TypeInv
  <2>7. QED
    BY <2>3, <2>4, <2>5, <2>6 DEF TypeInv
<1>4. CASE AddOutput(c, i)
  BY <1>2, <1>4 DEF AddOutput
<1>5. CASE RemoveOutput(c, i)
  <2>1. PICK at \in {"check", "after"} : Begins(c, "remove", at, outputs[i], {})
    BY <1>5 DEF RemoveOutput
  <2>2. QED
    BY <1>3, <1>5, <2>1 DEF RemoveOutput, Ops
<1>6. CASE UpdateOutput(c, i)
  <2>1. CASE obj[outputs[i]].target
    BY <1>3, <1>6, <2>1 DEF UpdateOutput, Ops
  <2>2. CASE ~obj[outputs[i]].target
    BY <1>2, <1>6, <2>2 DEF UpdateOutput
  <2>3. QED
    BY <2>1, <2>2
<1>7. CASE MoveOverlay(c, i)
  BY <1>3, <1>7 DEF MoveOverlay, Ops
<1>8. QED
  BY <1>1, <1>4, <1>5, <1>6, <1>7

\* The steps of a call that is under way.
LEMMA ServeStep ==
  ASSUME TypeInv, NEW c \in Clients, Serve(c), ~ForAllEnds(c)
  PROVE  TypeInv'
<1> USE Consts
<1>0. /\ call[c] \in CallRecs
      /\ call[c].at \notin {"idle", "next"} => call[c].obj \in Objs /\ ObjGood(obj[call[c].obj])
  BY DEF TypeInv, CallsGood, CallGood, ObjsGood
<1> DEFINE o == call[c].obj
<1>1. CASE Saved(c)
  <2>1. CallsGood' /\ \A d \in Clients : call'[d].at = "close" => d # c /\ call'[d] = call[d]
    <3>1. CASE Goes(c, "start")
      BY <1>1, <3>1, CallGoes DEF Saved
    <3>2. CASE Goes(c, "check")
      BY <1>1, <3>2, CallGoes DEF Saved
    <3>3. CASE Returns(c)
      BY <3>3, CallReturns
    <3>4. QED
      BY <1>1, <3>1, <3>2, <3>3 DEF Saved
  <2>2. file' \in Images
    BY <1>1 DEF Saved, Configs, Images
  <2>3. QED
    BY <1>1, <2>1, <2>2 DEF Saved, procs, TypeInv, ObjsGood, LoopsGood, WritersGood, ClosesGood, RestGood
<1>2. CASE StartsNow(c)
  <2>1. CallsGood' /\ \A d \in Clients : call'[d].at = "close" => d # c /\ call'[d] = call[d]
    BY <1>2, CallReturns DEF StartsNow
  <2>2. /\ ObjsGood' /\ LoopsGood' /\ closed' \subseteq Loops
        /\ \A x \in Objs : obj[x].stop \in Loops => obj'[x].stop \in Loops
    BY <1>0, <1>2, StartObjGood DEF StartsNow, TypeInv, ObjsGood, RestGood
  <2>3. ClosesGood'
    BY <2>1, <2>2, ClosesKept DEF TypeInv
  <2>4. WritersGood' /\ RestGood'
    BY <1>2, <2>2 DEF StartsNow, Overtaking, TypeInv, WritersGood, RestGood
  <2>5. QED
    BY <2>1, <2>2, <2>3, <2>4 DEF TypeInv
<1>3. CASE Removes(c)
  <2>1. CallsGood' /\ call'[c].at = "saving" /\ \A d \in Clients : d # c => call'[d] = call[d]
    BY <1>3, CallGoes DEF Removes
  <2>2. QED
    BY <1>3, <2>1 DEF Removes, Truncates, procs, TypeInv, ObjsGood, LoopsGood, WritersGood, ClosesGood,
                      RestGood, ObjOrNone
<1>4. CASE Updates(c)
  <2>1. PICK n \in NewObj(IdOf[o]), run \in BOOLEAN, on \in BOOLEAN :
       /\ outputs' = [outputs EXCEPT ![IdOf[n]] = n]
       /\ StartObj([obj EXCEPT ![n] = FromBody(run, on)], n)
       /\ call' = [call EXCEPT ![c].at = "saving", ![c].obj = n]
       /\ raced' = IF Dying(IdOf[n]) THEN raced \cup {"dying"} ELSE raced
    BY <1>4 DEF Updates
  <2>2. n \in Objs /\ FreeObj(n)
    BY FirstIn DEF NewObj
  <2> DEFINE r == [call[c] EXCEPT !.at = "saving", !.obj = n]
             objs == [obj EXCEPT ![n] = FromBody(run, on)]
  <2>3. CallGood(r) /\ r.at = "saving" /\ call' = [call EXCEPT ![c] = r]
    BY <1>0, <2>1, <2>2 DEF CallGood, CallRecs, ObjOrNone
  <2>4. /\ objs = [x \in Objs |-> objs[x]] /\ \A x \in Objs : ObjGood(objs[x])
        /\ \A x \in Objs : x # n => objs[x] = obj[x]
    BY <2>2, FromBodyGood DEF TypeInv, ObjsGood
  <2> HIDE DEF r
  <2>5. CallsGood' /\ call'[c].at = "saving" /\ \A d \in Clients : d # c => call'[d] = call[d]
    BY <2>3, CallChanged DEF TypeInv
  <2>6. StartObj(objs, n)
    BY <2>1
  <2> HIDE DEF objs
  <2>7. /\ ObjsGood' /\ LoopsGood' /\ closed' \subseteq Loops
        /\ \A x \in Objs : objs[x].stop \in Loops => obj'[x].stop \in Loops
    BY <2>2, <2>4, <2>6, StartObjGood DEF TypeInv, RestGood
  <2>8. ClosesGood'
    <3> SUFFICES ASSUME NEW d \in Clients, call'[d].at = "close"
                 PROVE  obj'[call'[d].obj].stop \in Loops
      BY DEF ClosesGood
    <3>1. d # c /\ call'[d] = call[d]
      BY <2>5
    <3>2. call[d].obj \in Objs /\ call[d].obj # n /\ obj[call[d].obj].stop \in Loops
      BY <2>2, <3>1 DEF FreeObj, TypeInv, CallsGood, CallGood, ClosesGood
    <3>3. QED
      BY <2>4, <2>7, <3>1, <3>2
  <2>9. WritersGood' /\ RestGood'
    BY <1>4, <2>1, <2>2, <2>7 DEF Updates, Truncates, TypeInv, WritersGood, RestGood, ObjOrNone
  <2>10. QED
    BY <2>5, <2>7, <2>8, <2>9 DEF TypeInv
<1>5. CASE TakesNext(c)
  <2>1. PICK x \in call[c].todo :
       call' = [call EXCEPT ![c].todo = @ \ {x}, ![c].obj = x,
                            ![c].at = IF obj[x].target THEN "check" ELSE "next"]
    BY <1>5 DEF TakesNext
  <2> DEFINE r == [call[c] EXCEPT !.todo = @ \ {x}, !.obj = x,
                                  !.at = IF obj[x].target THEN "check" ELSE "next"]
  <2>2. CallGood(r) /\ r.at # "close" /\ call' = [call EXCEPT ![c] = r]
    BY <1>0, <2>1 DEF CallGood, CallRecs, ObjOrNone
  <2> HIDE DEF r
  <2>3. CallsGood' /\ call'[c].at # "close" /\ \A d \in Clients : d # c => call'[d] = call[d]
    BY <2>2, CallChanged DEF TypeInv
  <2>4. QED
    BY <1>5, <2>3 DEF TakesNext, procs, TypeInv, ObjsGood, LoopsGood, WritersGood, ClosesGood, RestGood
<1>6. CASE StartsAgain(c)
  <2>1. CallsGood' /\ \A d \in Clients : call'[d].at = "close" => d # c /\ call'[d] = call[d]
    BY <1>6, CallGoes DEF StartsAgain
  <2>2. CASE StartObj(obj, o) /\ Overtaking(o)
    <3>1. /\ ObjsGood' /\ LoopsGood' /\ closed' \subseteq Loops
          /\ \A x \in Objs : obj[x].stop \in Loops => obj'[x].stop \in Loops
      BY <1>0, <1>6, <2>2, StartObjGood DEF StartsAgain, TypeInv, ObjsGood, RestGood
    <3>2. ClosesGood'
      BY <2>1, <3>1, ClosesKept DEF TypeInv
    <3>3. WritersGood' /\ RestGood'
      BY <1>6, <2>2, <3>1 DEF StartsAgain, Overtaking, TypeInv, WritersGood, RestGood
    <3>4. QED
      BY <2>1, <3>1, <3>2, <3>3 DEF TypeInv
  <2>3. CASE UNCHANGED <<obj, closed, loop, raced>>
    BY <1>6, <2>1, <2>3 DEF StartsAgain, TypeInv, ObjsGood, LoopsGood, WritersGood, ClosesGood, RestGood
  <2>4. QED
    BY <1>6, <2>2, <2>3 DEF StartsAgain
<1>7. CASE StopChecks(c)
  <2> DEFINE r == [obj[o] EXCEPT !.target = FALSE]
  <2>1. o \in Objs /\ ObjGood(obj[o])
    BY <1>0, <1>7 DEF StopChecks
  <2>2. ObjGood(r) /\ r.stop = obj[o].stop /\ r.run = obj[o].run /\ obj' = [obj EXCEPT ![o] = r]
    BY <1>7, <2>1 DEF StopChecks, ObjGood, ObjRecs
  <2> HIDE DEF r
  <2>3. ObjsGood' /\ \A x \in Objs : obj'[x].stop = obj[x].stop
    BY <2>1, <2>2, ObjChanged DEF TypeInv
  <2>4. /\ CallsGood' /\ \A d \in Clients : d # c => call'[d] = call[d]
        /\ call'[c].at = "close" => obj[o].target /\ call'[c].obj = o
    <3>1. CASE obj[o].target
      BY <1>7, <3>1, CallGoes DEF StopChecks
    <3>2. CASE ~obj[o].target /\ Returns(c)
      BY <3>2, CallReturns
    <3>3. CASE ~obj[o].target /\ Goes(c, "after")
      BY <1>7, <3>3, CallGoes DEF StopChecks
    <3>4. QED
      BY <1>7, <3>1, <3>2, <3>3 DEF StopChecks
  <2>5. ClosesGood'
    <3> SUFFICES ASSUME NEW d \in Clients, call'[d].at = "close"
                 PROVE  obj'[call'[d].obj].stop \in Loops
      BY DEF ClosesGood
    <3>1. CASE d = c
      BY <2>1, <2>3, <2>4, <3>1 DEF ObjGood
    <3>2. CASE d # c
      BY <2>3, <2>4, <3>2 DEF TypeInv, CallsGood, CallGood, ClosesGood
    <3>3. QED
      BY <3>1, <3>2
  <2>6. QED
    BY <1>7, <2>3, <2>4, <2>5 DEF StopChecks, procs, TypeInv, LoopsGood, WritersGood, RestGood
<1>8. CASE StopCloses(c)
  <2>1. CallsGood' /\ call'[c].at = "sleep" /\ \A d \in Clients : d # c => call'[d] = call[d]
    BY <1>8, CallGoes DEF StopCloses
  <2>2. obj[o].stop \in Loops
    BY <1>8 DEF StopCloses, TypeInv, ClosesGood
  <2>3. RestGood'
    BY <1>8, <2>2 DEF StopCloses, TypeInv, RestGood
  <2>4. QED
    BY <1>8, <2>1, <2>3 DEF StopCloses, TypeInv, ObjsGood, LoopsGood, WritersGood, ClosesGood
<1>9. CASE StopEnds(c)
  <2> DEFINE r == [obj[o] EXCEPT !.running = FALSE]
  <2>1. o \in Objs /\ ObjGood(obj[o])
    BY <1>0, <1>9 DEF StopEnds
  <2>2. ObjGood(r) /\ r.stop = obj[o].stop /\ obj' = [obj EXCEPT ![o] = r]
    BY <1>9, <2>1 DEF StopEnds, ObjGood, ObjRecs
  <2> HIDE DEF r
  <2>3. ObjsGood' /\ \A x \in Objs : obj'[x].stop = obj[x].stop
    BY <2>1, <2>2, ObjChanged DEF TypeInv
  <2>4. CallsGood' /\ \A d \in Clients : call'[d].at = "close" => d # c /\ call'[d] = call[d]
    <3>1. CASE Returns(c)
      BY <3>1, CallReturns
    <3>2. CASE Goes(c, "after")
      BY <1>9, <3>2, CallGoes DEF StopEnds
    <3>3. QED
      BY <1>9, <3>1, <3>2 DEF StopEnds
  <2>5. ClosesGood'
    BY <2>3, <2>4, ClosesKept DEF TypeInv
  <2>6. QED
    BY <1>9, <2>3, <2>4, <2>5 DEF StopEnds, procs, TypeInv, LoopsGood, WritersGood, RestGood
<1>10. QED
  BY <1>1, <1>2, <1>3, <1>4, <1>5, <1>6, <1>7, <1>8, <1>9 DEF Serve

\* The objects made of a file are good, ...
LEMMA LoadedGood ==
  ASSUME NEW content, NEW objs \in [Ids -> ObjOrNone]
  PROVE  /\ Loaded(content, objs) = [o \in Objs |-> Loaded(content, objs)[o]]
         /\ \A o \in Objs : ObjGood(Loaded(content, objs)[o])
BY NewOutputGood DEF Loaded

\* ... so that the program begins well typed ...
LEMMA InitTypes == Init => TypeInv
<1> SUFFICES ASSUME Init PROVE TypeInv
  OBVIOUS
<1> USE Consts DEF Init
<1>1. ObjsGood
  BY LoadedGood DEF ObjsGood
<1>2. LoopGood(Off) /\ WriterGood(NoWriter) /\ CallGood(Idle) /\ Idle.at = "idle"
  BY DEF LoopGood, LoopRecs, Off, WriterGood, WriterRecs, NoWriter, CallGood, CallRecs, Idle,
         LoopOrNone, ObjOrNone
<1>3. LoopsGood /\ WritersGood /\ CallsGood /\ ClosesGood
  BY <1>2 DEF LoopsGood, WritersGood, CallsGood, ClosesGood
<1>4. RestGood
  BY DEF RestGood, LoopOrNone
<1>5. QED
  BY <1>1, <1>3, <1>4 DEF TypeInv

\* ... and begins so again.
LEMMA RestartStep == ASSUME TypeInv, Restarts PROVE TypeInv'
<1> USE Consts DEF Restarts
<1>1. ObjsGood'
  BY LoadedGood DEF ObjsGood
<1>2. LoopGood(Off) /\ WriterGood(NoWriter) /\ CallGood(Idle) /\ Idle.at = "idle"
  BY DEF LoopGood, LoopRecs, Off, WriterGood, WriterRecs, NoWriter, CallGood, CallRecs, Idle,
         LoopOrNone, ObjOrNone
<1>3. LoopsGood' /\ WritersGood' /\ CallsGood' /\ ClosesGood'
  BY <1>2 DEF LoopsGood, WritersGood, CallsGood, ClosesGood
<1>4. RestGood'
  BY DEF TypeInv, RestGood, LoopOrNone, Event
<1>5. QED
  BY <1>1, <1>3, <1>4 DEF TypeInv

\* The calls that go through the map begin ...
LEMMA ForAllStep ==
  ASSUME TypeInv, NEW c \in Clients, events' \in 0..MaxEvents, boot' = boot,
         NEW op \in {"restart", "shutdown"}, ForAll(c, op)
  PROVE  TypeInv'
<1> USE Consts
<1>1. {outputs[i] : i \in Ids} \ {None} \subseteq Objs
  BY DEF TypeInv, RestGood, ObjOrNone
<1>2. Begins(c, op, "next", None, {outputs[i] : i \in Ids} \ {None})
  BY DEF ForAll
<1>3. CallsGood' /\ raced' \subseteq {"calls", "dying"} /\ call'[c].at = "next"
      /\ \A d \in Clients : d # c => call'[d] = call[d]
  BY <1>1, <1>2, CallBegins DEF Ops, ObjOrNone
<1>4. QED
  BY <1>3 DEF ForAll, procs, TypeInv, ObjsGood, LoopsGood, WritersGood, ClosesGood, RestGood

\* ... and end.
LEMMA ForAllEndsStep ==
  ASSUME TypeInv, NEW c \in Clients, ForAllEnds(c)
  PROVE  TypeInv'
<1>1. CASE Restarts
  BY <1>1, RestartStep
<1>2. CASE Returns(c) /\ UNCHANGED <<outputs, file, obj, closed, procs, boot, events, raced>>
  <2>1. CallsGood' /\ call'[c].at = "idle" /\ \A d \in Clients : d # c => call'[d] = call[d]
    BY <1>2, CallReturns
  <2>2. QED
    BY <1>2, <2>1 DEF procs, TypeInv, ObjsGood, LoopsGood, WritersGood, ClosesGood, RestGood
<1>3. QED
  BY <1>1, <1>2 DEF ForAllEnds

\* The starts at boot.
LEMMA BootStep ==
  ASSUME TypeInv, NEW c \in Clients, NEW i \in Ids, BootStarts(c, i)
  PROVE  TypeInv'
<1>1. boot' \subseteq Ids /\ events' \in 0..MaxEvents
  BY DEF BootStarts, TypeInv, RestGood
<1>2. CASE StartOutput(c, i)
  BY <1>1, <1>2, RequestStep
<1>3. CASE UNCHANGED <<outputs, file, obj, closed, procs, call, raced>>
  BY <1>1, <1>3 DEF procs, TypeInv, ObjsGood, LoopsGood, WritersGood, CallsGood, ClosesGood, RestGood
<1>4. QED
  BY <1>2, <1>3 DEF BootStarts

\* Every step keeps the types.
LEMMA TypeStep == TypeInv /\ [Next]_vars => TypeInv'
<1> SUFFICES ASSUME TypeInv, [Next]_vars PROVE TypeInv'
  OBVIOUS
<1>1. CASE Restarts
  BY <1>1, RestartStep
<1>2. ASSUME NEW c \in Clients, Request(c) PROVE TypeInv'
  <2>1. events' \in 0..MaxEvents /\ boot' = boot
    BY <1>2, Consts DEF Request, Event, TypeInv, RestGood
  <2>2. boot' \subseteq Ids
    BY <2>1 DEF TypeInv, RestGood
  <2>3. QED
    BY <1>2, <2>1, <2>2, RequestStep, ForAllStep DEF Request
<1>3. ASSUME NEW c \in Clients, Serve(c) PROVE TypeInv'
  BY <1>3, ServeStep, ForAllEndsStep
<1>4. ASSUME NEW c \in Clients, NEW i \in Ids, BootStarts(c, i) PROVE TypeInv'
  BY <1>4, BootStep
<1>5. ASSUME NEW k \in Loops,
             Manage(k) \/ WriterReads(k) \/ WriterLeaves(k) \/ ProcExits(k) \/ ProcFails(k)
      PROVE  TypeInv'
  BY <1>5, LoopStep, ProcStep
<1>6. CASE UNCHANGED vars
  BY <1>6 DEF vars, procs, TypeInv, ObjsGood, LoopsGood, WritersGood, CallsGood, ClosesGood, RestGood
<1>7. QED
  BY <1>1, <1>2, <1>3, <1>4, <1>5, <1>6 DEF Next

-----------------------------------------------------------------------------
\* A step that saves nothing and lets no save go keeps what the file says, ...
LEMMA NotSaved ==
  ASSUME TypeInv, FileTrue, UNCHANGED <<outputs, file>>,
         \A o \in Objs : obj'[o].run = obj[o].run,
         \A c \in Clients : call[c].at = "saving" => call'[c].at = "saving"
  PROVE  FileTrue'
<1>1. Configs' = Configs
  BY DEF Configs, TypeInv, RestGood, ObjOrNone
<1>2. QED
  BY <1>1 DEF FileTrue

\* ... and one that begins a save leaves the file torn.
LEMMA Saving ==
  ASSUME Truncates, NEW c \in Clients, call'[c].at = "saving"
  PROVE  FileTrue'
BY DEF FileTrue, Truncates

\* What is loaded is what the file says.
LEMMA LoadedIsCurrent ==
  ASSUME file \in Images \cup {Torn}, NEW objs \in [Ids -> ObjOrNone], Load(file, objs),
         outputs' = objs, obj' = Loaded(file, objs), file' = file
  PROVE  FileTrue'
<1>1. CASE file = Torn
  <2>1. \A i \in Ids : objs[i] = None
    BY <1>1 DEF Load, Says
  <2>2. QED
    BY <1>1, <2>1 DEF FileTrue
<1>2. CASE file # Torn
  <2>1. ASSUME NEW i \in Ids PROVE Configs'[i] = file[i]
    <3>1. file[i] \in {"absent", "stopped", "running"} /\ Says(file, i) = file[i]
      BY <1>2 DEF Images, Says
    <3>2. CASE file[i] = "absent"
      BY <3>1, <3>2 DEF Load, Configs
    <3>3. CASE file[i] # "absent"
      <4>1. objs[i] \in Objs /\ objs[i] # None /\ IdOf[objs[i]] = i
        BY <3>1, <3>3 DEF Load, ObjOrNone
      <4>2. obj'[objs[i]].run <=> file[i] = "running"
        BY <3>1, <4>1 DEF Loaded, NewOutput
      <4>3. QED
        BY <3>1, <3>3, <4>1, <4>2 DEF Configs
    <3>4. QED
      BY <3>2, <3>3
  <2>2. file = Configs'
    BY <1>2, <2>1 DEF Images, Configs
  <2>3. QED
    BY <2>2 DEF FileTrue
<1>3. QED
  BY <1>1, <1>2

\* It is so from the start.
LEMMA InitSaved == Init => FileTrue
<1> SUFFICES ASSUME Init PROVE FileTrue
  OBVIOUS
<1>1. ASSUME NEW i \in Ids PROVE Configs[i] = file[i]
  <2>1. file[i] \in {"absent", "stopped", "running"} /\ Says(file, i) = file[i]
    BY OutputsAssumption DEF OutputsAssumption, Init, Images, Says
  <2>2. CASE file[i] = "absent"
    BY <2>1, <2>2 DEF Init, Load, Configs
  <2>3. CASE file[i] # "absent"
    <3>1. outputs[i] \in Objs /\ outputs[i] # None /\ IdOf[outputs[i]] = i
      BY <2>1, <2>3 DEF Init, Load, ObjOrNone
    <3>2. obj[outputs[i]].run <=> file[i] = "running"
      BY <2>1, <3>1 DEF Init, Loaded, NewOutput
    <3>3. QED
      BY <2>1, <2>3, <3>1, <3>2 DEF Configs
  <2>4. QED
    BY <2>2, <2>3
<1>2. file = Configs
  BY <1>1 DEF Init, Images, Configs
<1>3. QED
  BY <1>2 DEF FileTrue

\* The requests: what changes the list or what is to run is saved.
LEMMA RequestSaved ==
  ASSUME IInv, NEW c \in Clients, NEW i \in Ids,
         \/ StartOutput(c, i) \/ StopOutput(c, i) \/ AddOutput(c, i)
         \/ RemoveOutput(c, i) \/ UpdateOutput(c, i) \/ MoveOverlay(c, i)
  PROVE  FileTrue'
<1> USE DEF IInv
<1>1. ASSUME NEW op \in Ops, NEW o \in Objs, Begins(c, op, "saving", o, {}), Truncates
      PROVE  FileTrue'
  <2>1. call'[c].at = "saving"
    BY <1>1, CallBegins DEF ObjOrNone
  <2>2. QED
    BY <1>1, <2>1, Saving
<1>2. ASSUME NEW op \in Ops, NEW o \in Objs, NEW at \in {"check", "after"},
             Begins(c, op, at, o, {}), UNCHANGED <<outputs, file, obj>>
      PROVE  FileTrue'
  <2>1. call[c] = Idle /\ \A d \in Clients : d # c => call'[d] = call[d]
    BY <1>2, CallBegins DEF ObjOrNone
  <2>2. \A d \in Clients : call[d].at = "saving" => call'[d].at = "saving"
    BY <2>1 DEF Idle
  <2>3. QED
    BY <1>2, <2>2, NotSaved
<1>3. outputs[i] # None => outputs[i] \in Objs
  BY DEF TypeInv, RestGood, ObjOrNone
<1>4. NewObj(i) \subseteq Objs
  BY FirstIn DEF NewObj
<1>5. CASE StartOutput(c, i) \/ StopOutput(c, i) \/ MoveOverlay(c, i)
  BY <1>1, <1>3, <1>5 DEF StartOutput, StopOutput, MoveOverlay, Ops
<1>6. CASE AddOutput(c, i)
  BY <1>1, <1>4, <1>6 DEF AddOutput, Ops
<1>7. CASE RemoveOutput(c, i)
  BY <1>2, <1>3, <1>7 DEF RemoveOutput, Ops
<1>8. CASE UpdateOutput(c, i)
  <2>1. CASE obj[outputs[i]].target
    BY <1>2, <1>3, <1>8, <2>1 DEF UpdateOutput, Ops
  <2>2. CASE ~obj[outputs[i]].target
    BY <1>1, <1>4, <1>8, <2>2 DEF UpdateOutput, Ops
  <2>3. QED
    BY <2>1, <2>2
<1>9. QED
  BY <1>5, <1>6, <1>7, <1>8

\* The steps of the calls.
LEMMA ServeSaved ==
  ASSUME IInv, NEW c \in Clients, Serve(c)
  PROVE  FileTrue'
<1> USE DEF IInv
<1>0. call[c].at \notin {"idle", "next"} => call[c].obj \in Objs
  BY DEF TypeInv, CallsGood, CallGood
\* The call is not saving, and the others go on.
<1>1. ASSUME call[c].at # "saving", UNCHANGED <<outputs, file>>,
             \A o \in Objs : obj'[o].run = obj[o].run,
             \A d \in Clients : d # c => call'[d] = call[d]
      PROVE  FileTrue'
  BY <1>1, NotSaved
<1>2. CASE Saved(c)
  <2>1. Configs' = Configs
    BY <1>2 DEF Saved, Configs
  <2>2. QED
    BY <1>2, <2>1 DEF Saved, FileTrue
<1>3. CASE StartsNow(c)
  <2>1. \A o \in Objs : obj'[o].run = obj[o].run
    BY <1>0, <1>3, StartObjGood DEF StartsNow, TypeInv, ObjsGood, RestGood
  <2>2. \A d \in Clients : d # c => call'[d] = call[d]
    BY <1>3, CallReturns DEF StartsNow
  <2>3. QED
    BY <1>1, <1>3, <2>1, <2>2 DEF StartsNow
<1>4. CASE Removes(c)
  <2>1. call'[c].at = "saving"
    BY <1>4, CallGoes DEF Removes
  <2>2. QED
    BY <1>4, <2>1, Saving DEF Removes
<1>5. CASE Updates(c)
  <2>1. call'[c].at = "saving"
    BY <1>5 DEF Updates, TypeInv, CallsGood, CallGood, CallRecs
  <2>2. QED
    BY <1>5, <2>1, Saving DEF Updates
<1>6. CASE TakesNext(c)
  <2>1. \A d \in Clients : d # c => call'[d] = call[d]
    BY <1>6 DEF TakesNext, TypeInv, CallsGood
  <2>2. QED
    BY <1>1, <1>6, <2>1 DEF TakesNext
<1>7. CASE StartsAgain(c)
  <2>1. \A o \in Objs : obj'[o].run = obj[o].run
    <3>1. CASE StartObj(obj, call[c].obj)
      BY <1>0, <1>7, <3>1, StartObjGood DEF StartsAgain, TypeInv, ObjsGood, RestGood
    <3>2. CASE UNCHANGED obj
      BY <3>2
    <3>3. QED
      BY <1>7, <3>1, <3>2 DEF StartsAgain
  <2>2. \A d \in Clients : d # c => call'[d] = call[d]
    BY <1>7, CallGoes DEF StartsAgain
  <2>3. QED
    BY <1>1, <1>7, <2>1, <2>2 DEF StartsAgain
<1>8. CASE ForAllEnds(c)
  <2>1. CASE Restarts
    BY <2>1, LoadedIsCurrent DEF Restarts, TypeInv, RestGood
  <2>2. CASE Returns(c) /\ UNCHANGED <<outputs, file, obj>>
    BY <1>1, <1>8, <2>2, CallReturns DEF ForAllEnds
  <2>3. QED
    BY <1>8, <2>1, <2>2 DEF ForAllEnds
<1>9. CASE StopChecks(c) \/ StopCloses(c) \/ StopEnds(c)
  <2>1. \A o \in Objs : obj'[o].run = obj[o].run
    BY <1>0, <1>9 DEF StopChecks, StopCloses, StopEnds, TypeInv, ObjsGood, ObjGood, ObjRecs
  <2>2. \A d \in Clients : d # c => call'[d] = call[d]
    BY <1>9 DEF StopChecks, StopCloses, StopEnds, Goes, Returns, TypeInv, CallsGood
  <2>3. QED
    BY <1>1, <1>9, <2>1, <2>2 DEF StopChecks, StopCloses, StopEnds
<1>10. QED
  BY <1>2, <1>3, <1>4, <1>5, <1>6, <1>7, <1>8, <1>9 DEF Serve

\* Every step keeps both.
LEMMA NextInv == IInv /\ [Next]_vars => IInv'
<1> SUFFICES ASSUME IInv, [Next]_vars PROVE FileTrue'
  BY TypeStep DEF IInv
<1> USE DEF IInv
<1>1. CASE Restarts
  BY <1>1, LoadedIsCurrent DEF Restarts, TypeInv, RestGood
<1>2. ASSUME NEW c \in Clients, Request(c) PROVE FileTrue'
  <2>1. ASSUME NEW op \in {"restart", "shutdown"}, ForAll(c, op) PROVE FileTrue'
    <3>1. {outputs[i] : i \in Ids} \ {None} \subseteq Objs
      BY DEF TypeInv, RestGood, ObjOrNone
    <3>2. call[c] = Idle /\ \A d \in Clients : d # c => call'[d] = call[d]
      BY <2>1, <3>1, CallBegins DEF ForAll, Ops, ObjOrNone
    <3>3. \A d \in Clients : call[d].at = "saving" => call'[d].at = "saving"
      BY <3>2 DEF Idle
    <3>4. QED
      BY <2>1, <3>3, NotSaved DEF ForAll
  <2>2. QED
    BY <1>2, <2>1, RequestSaved DEF Request
<1>3. ASSUME NEW c \in Clients, Serve(c) PROVE FileTrue'
  BY <1>3, ServeSaved
<1>4. ASSUME NEW c \in Clients, NEW i \in Ids, BootStarts(c, i) PROVE FileTrue'
  BY <1>4, RequestSaved, NotSaved DEF BootStarts
<1>5. ASSUME NEW k \in Loops,
             Manage(k) \/ WriterReads(k) \/ WriterLeaves(k) \/ ProcExits(k) \/ ProcFails(k)
      PROVE  FileTrue'
  <2>1. \A o \in Objs : obj'[o].run = obj[o].run
    BY <1>5, LoopStep, ProcStep DEF FieldsKept
  <2>2. UNCHANGED <<outputs, file, call>>
    BY <1>5 DEF Manage, LoopChecks, LoopSpawns, LoopFails, LoopReaps, LoopResumes, LoopStopped,
                WriterReads, WriterLeaves, ProcExits, ProcFails
  <2>3. QED
    BY <2>1, <2>2, NotSaved
<1>6. CASE UNCHANGED vars
  BY <1>6, NotSaved DEF vars
<1>7. QED
  BY <1>1, <1>2, <1>3, <1>4, <1>5, <1>6 DEF Next

-----------------------------------------------------------------------------
\* The manager, its outputs, goroutines and calls keep their types (output.go).
THEOREM TypeCorrect == Spec => []TypeOK
BY InitTypes, TypeStep, TypeInvTypes, PTL DEF Spec

-----------------------------------------------------------------------------
\* Stop channels are their objects' own, and the map has objects at their ids.
StopsDistinct == \A x, y \in Objs : x # y /\ obj[x].stop # None => obj[x].stop # obj[y].stop
MapTrue == \A i \in Ids : outputs[i] # None => IdOf[outputs[i]] = i

\* While no two calls overlap there is one at most, ...
Alone == \A c, d \in Clients : call[c] # Idle /\ call[d] # Idle => c = d
\* ... it works on what is in the map, until it has removed it, and what it
\* stops is to run no more; ...
CallTrue(c) ==
  /\ call[c].at \notin {"idle", "next"} /\ ~(call[c].op = "remove" /\ call[c].at = "saving") =>
       outputs[IdOf[call[c].obj]] = call[c].obj
  /\ \A o \in call[c].todo : outputs[IdOf[o]] = o
  /\ ~Reads(c) => call[c].todo = {}
  /\ call[c].at \in {"close", "sleep", "after"} => ~obj[call[c].obj].target
\* ... and what is to run is in the map, with an open stop channel, and a loop
\* that waits on no other.
Looked(o) ==
  \E k \in Loops : loop[k].at # "off" /\ loop[k].obj = o /\ loop[k].on \in {None, obj[o].stop}
TargetTrue(o) ==
  obj[o].target => o = outputs[IdOf[o]] /\ obj[o].stop \notin closed /\ Looked(o)

Orderly ==
  "calls" \notin raced =>
    Alone /\ (\A c \in Clients : CallTrue(c)) /\ (\A o \in Objs : TargetTrue(o))
SInv == TypeInv /\ StopsDistinct /\ MapTrue /\ Orderly

\* Calls that do nothing are true.
LEMMA IdleTrue == ASSUME NEW c \in Clients, call'[c] = Idle PROVE CallTrue(c)'
BY DEF CallTrue, Idle

\* A call that begins while nothing is raced is alone.
LEMMA BeginsAlone ==
  ASSUME TypeInv, NEW c \in Clients, NEW op \in Ops, NEW at \in {"saving", "check", "after", "next"},
         NEW o \in ObjOrNone, at # "next" => o \in Objs, NEW todo \in SUBSET Objs,
         Begins(c, op, at, o, todo), "calls" \notin raced'
  PROVE  /\ "calls" \notin raced
         /\ call'[c] = [op |-> op, at |-> at, obj |-> o, todo |-> todo]
         /\ \A d \in Clients : d # c => call'[d] = Idle
         /\ Alone'
<1>1. call = [d \in Clients |-> call[d]]
  BY DEF TypeInv, CallsGood
<1>2. "calls" \notin raced /\ Others(c) = {}
  BY DEF Begins
<1>3. \A d \in Clients : d # c => call[d] = Idle
  BY <1>2 DEF Others
<1>4. /\ call'[c] = [op |-> op, at |-> at, obj |-> o, todo |-> todo]
      /\ \A d \in Clients : d # c => call'[d] = Idle
  BY <1>1, <1>3 DEF Begins
<1>5. QED
  BY <1>2, <1>4 DEF Alone

\* One that goes on stays alone.
LEMMA GoesAlone ==
  ASSUME Alone, NEW c \in Clients, call[c] # Idle,
         \A d \in Clients : d # c => call'[d] = call[d]
  PROVE  Alone' /\ \A d \in Clients : d # c => call'[d] = Idle
BY DEF Alone

\* A loop that looks after an object does so when it and the object stay.
LEMMA TargetKept ==
  ASSUME NEW o \in Objs, TargetTrue(o),
         obj'[o].target => obj[o].target, obj'[o].stop = obj[o].stop,
         o = outputs[IdOf[o]] => o = outputs'[IdOf[o]],
         obj[o].target /\ obj[o].stop \notin closed => obj[o].stop \notin closed',
         \A k \in Loops : loop[k].at # "off" /\ loop[k].obj = o => loop'[k] = loop[k]
  PROVE  TargetTrue(o)'
<1>1. CASE obj'[o].target
  <2>1. PICK k \in Loops :
           loop[k].at # "off" /\ loop[k].obj = o /\ loop[k].on \in {None, obj[o].stop}
    BY <1>1 DEF TargetTrue, Looked
  <2>2. loop'[k].at # "off" /\ loop'[k].obj = o /\ loop'[k].on \in {None, obj'[o].stop}
    BY <2>1
  <2>3. QED
    BY <1>1, <2>2 DEF TargetTrue, Looked
<1>2. CASE ~obj'[o].target
  BY <1>2 DEF TargetTrue
<1>3. QED
  BY <1>1, <1>2

\* Start gives the object a channel and a loop of its own.
LEMMA StartTargets ==
  ASSUME TypeInv, NEW o \in Objs, NEW objs, objs = [x \in Objs |-> objs[x]],
         \A x \in Objs : ObjGood(objs[x]),
         \A x \in Objs : x # o => objs[x] = obj[x],
         objs[o].target => objs[o] = obj[o],
         objs[o].stop \in {None, obj[o].stop},
         StopsDistinct, StartObj(objs, o)
  PROVE  /\ StopsDistinct'
         /\ \A x \in Objs : x # o /\ TargetTrue(x) /\ (x = outputs[IdOf[x]] => x = outputs'[IdOf[x]])
                              => TargetTrue(x)'
         /\ TargetTrue(o) /\ o = outputs'[IdOf[o]] => TargetTrue(o)'
         /\ (\A x \in Objs : x # o => obj'[x].target = obj[x].target) /\ obj'[o].target
<1> USE Consts
<1>1. CASE objs[o].target
  <2>1. obj' = objs /\ UNCHANGED <<closed, loop>> /\ objs[o] = obj[o]
    BY <1>1 DEF StartObj
  <2>2. \A x \in Objs : obj'[x] = obj[x]
    BY <2>1
  <2>3. StopsDistinct'
    BY <2>2 DEF StopsDistinct
  <2>4. ASSUME NEW x \in Objs, TargetTrue(x), x = outputs[IdOf[x]] => x = outputs'[IdOf[x]]
        PROVE  TargetTrue(x)'
    BY <2>1, <2>2, <2>4, TargetKept
  <2>5. QED
    BY <1>1, <2>1, <2>2, <2>3, <2>4
<1>2. CASE ~objs[o].target
  <2>1. PICK k \in First({j \in Loops : FreeLoop(j)}) :
           /\ obj' = [objs EXCEPT ![o].target = TRUE, ![o].stop = k]
           /\ closed' = closed \ {k}
           /\ loop' = [loop EXCEPT ![k] = [at |-> "check", obj |-> o, on |-> None]]
    BY <1>2 DEF StartObj
  <2>2. k \in Loops /\ FreeLoop(k)
    BY FirstIn
  <2>3. /\ \A x \in Objs : x # o => obj'[x] = obj[x]
        /\ obj'[o].target = TRUE /\ obj'[o].stop = k
    BY <2>1 DEF ObjGood, ObjRecs
  <2>4. /\ loop'[k] = [at |-> "check", obj |-> o, on |-> None]
        /\ \A j \in Loops : j # k => loop'[j] = loop[j]
        /\ loop[k].at = "off"
    BY <2>1, <2>2 DEF TypeInv, LoopsGood, FreeLoop, Off
  <2>5. \A x \in Objs : obj[x].stop # k
    BY <2>2 DEF FreeLoop
  <2>6. StopsDistinct'
    BY <2>2, <2>3, <2>5 DEF StopsDistinct
  <2>7. ASSUME NEW x \in Objs, x # o, TargetTrue(x), x = outputs[IdOf[x]] => x = outputs'[IdOf[x]]
        PROVE  TargetTrue(x)'
    BY <2>1, <2>3, <2>4, <2>7, TargetKept
  <2>8. o = outputs'[IdOf[o]] => TargetTrue(o)'
    <3>1. Looked(o)'
      BY <2>2, <2>4 DEF Looked
    <3>2. QED
      BY <2>1, <2>3, <3>1 DEF TargetTrue
  <2>9. QED
    BY <2>3, <2>6, <2>7, <2>8
<1>3. QED
  BY <1>1, <1>2

\* Loops, writers and processes.
LEMMA LoopOrderly ==
  ASSUME SInv, NEW k \in Loops,
         Manage(k) \/ WriterReads(k) \/ WriterLeaves(k) \/ ProcExits(k) \/ ProcFails(k)
  PROVE  SInv'
<1> USE Consts DEF SInv
<1>1. TypeInv' /\ FieldsKept
  BY LoopStep, ProcStep
<1>2. UNCHANGED <<outputs, closed, call, raced>>
  BY DEF Manage, LoopChecks, LoopSpawns, LoopFails, LoopReaps, LoopResumes, LoopStopped,
         WriterReads, WriterLeaves, ProcExits, ProcFails
<1>3. StopsDistinct' /\ MapTrue'
  BY <1>1, <1>2 DEF FieldsKept, StopsDistinct, MapTrue
<1>4. ASSUME "calls" \notin raced PROVE Alone' /\ \A c \in Clients : CallTrue(c)'
  <2>1. Alone /\ \A c \in Clients : CallTrue(c)
    BY <1>4 DEF Orderly
  <2>2. ASSUME NEW c \in Clients PROVE CallTrue(c)'
    <3>1. call[c].at \notin {"idle", "next"} => call[c].obj \in Objs
      BY DEF TypeInv, CallsGood, CallGood
    <3>2. QED
      BY <1>1, <1>2, <2>1, <3>1 DEF CallTrue, Reads, FieldsKept
  <2>3. QED
    BY <1>2, <2>1, <2>2 DEF Alone
<1>5. ASSUME NEW o \in Objs, TargetTrue(o), obj'[o].target PROVE TargetTrue(o)'
  <2>1. /\ obj[o].target /\ obj'[o].stop = obj[o].stop
        /\ o = outputs[IdOf[o]] /\ obj[o].stop \notin closed /\ Looked(o)
    BY <1>1, <1>5 DEF FieldsKept, TargetTrue
  <2>2. PICK j \in Loops :
           loop[j].at # "off" /\ loop[j].obj = o /\ loop[j].on \in {None, obj[o].stop}
    BY <2>1 DEF Looked
  <2>3. loop = [i \in Loops |-> loop[i]] /\ LoopGood(loop[j]) /\ closed \subseteq Loops
    BY DEF TypeInv, LoopsGood, RestGood
  <2>4. loop'[j].at # "off" /\ loop'[j].obj = o /\ loop'[j].on \in {None, obj[o].stop}
    <3>1. CASE j # k
      <4>1. loop'[j] = loop[j]
        BY <2>3, <3>1 DEF Manage, LoopChecks, LoopSpawns, LoopFails, LoopReaps, LoopResumes,
                LoopStopped, GoesOn, WriterReads, WriterLeaves, ProcExits, ProcFails
      <4>2. QED
        BY <2>2, <4>1
    <3>2. CASE j = k
      <4>1. CASE LoopChecks(k)
        BY <2>1, <2>2, <2>3, <3>2, <4>1 DEF LoopChecks
      <4>2. CASE LoopSpawns(k)
        BY <2>2, <2>3, <3>2, <4>2 DEF LoopSpawns, LoopGood, LoopRecs
      <4>3. CASE LoopFails(k) \/ LoopReaps(k)
        BY <2>1, <2>2, <2>3, <3>2, <4>3 DEF LoopFails, LoopReaps, GoesOn
      <4>4. CASE LoopResumes(k)
        BY <2>2, <2>3, <3>2, <4>4 DEF LoopResumes, LoopGood, LoopRecs
      <4>5. CASE LoopStopped(k)
        BY <2>1, <2>2, <2>3, <3>2, <4>5 DEF LoopStopped
      <4>6. CASE WriterReads(k) \/ WriterLeaves(k) \/ ProcExits(k) \/ ProcFails(k)
        BY <2>2, <3>2, <4>6 DEF WriterReads, WriterLeaves, ProcExits, ProcFails
      <4>7. QED
        BY <4>1, <4>2, <4>3, <4>4, <4>5, <4>6 DEF Manage
    <3>3. QED
      BY <3>1, <3>2
  <2>5. QED
    BY <1>2, <2>1, <2>4 DEF TargetTrue, Looked
<1>6. \A o \in Objs : TargetTrue(o) => TargetTrue(o)'
  BY <1>5 DEF TargetTrue
<1>7. QED
  BY <1>1, <1>2, <1>3, <1>4, <1>6 DEF Orderly

\* The requests.
LEMMA RequestOrderly ==
  ASSUME SInv, NEW c \in Clients, NEW i \in Ids, TypeInv',
         \/ StartOutput(c, i) \/ StopOutput(c, i) \/ AddOutput(c, i)
         \/ RemoveOutput(c, i) \/ UpdateOutput(c, i) \/ MoveOverlay(c, i)
  PROVE  SInv'
<1> USE Consts DEF SInv
<1>0. obj = [o \in Objs |-> obj[o]] /\ outputs \in [Ids -> ObjOrNone]
      /\ \A o \in Objs : ObjGood(obj[o])
  BY DEF TypeInv, ObjsGood, RestGood
<1>o. outputs[i] # None => outputs[i] \in Objs /\ IdOf[outputs[i]] = i
  BY <1>0 DEF MapTrue, ObjOrNone
<1>n. ASSUME NEW o \in NewObj(i)
      PROVE  o \in Objs /\ IdOf[o] = i /\ FreeObj(o) /\ o # outputs[i]
  BY FirstIn DEF NewObj, FreeObj
\* A call on the output of the id, which leaves what is to run.
<1>1. ASSUME NEW op \in Ops, NEW at \in {"saving", "check", "after"}, outputs[i] # None,
             Begins(c, op, at, outputs[i], {}),
             at = "after" => ~obj[outputs[i]].target,
             ~(op = "remove" /\ at = "saving"),
             \A o \in Objs : obj'[o].target = obj[o].target /\ obj'[o].stop = obj[o].stop,
             UNCHANGED <<outputs, closed, loop>>
      PROVE  SInv'
  <2>1. StopsDistinct' /\ MapTrue'
    BY <1>1 DEF StopsDistinct, MapTrue
  <2>2. SUFFICES ASSUME "calls" \notin raced'
                 PROVE  Alone' /\ (\A d \in Clients : CallTrue(d)') /\ \A o \in Objs : TargetTrue(o)'
    BY <2>1 DEF Orderly
  <2>a. /\ outputs[i] \in ObjOrNone /\ outputs[i] \in Objs
        /\ at \in {"saving", "check", "after", "next"} /\ {} \in SUBSET Objs
        /\ Begins(c, op, at, outputs[i], {})
    BY <1>1, <1>o DEF ObjOrNone
  <2>3. /\ "calls" \notin raced
        /\ call'[c] = [op |-> op, at |-> at, obj |-> outputs[i], todo |-> {}]
        /\ \A d \in Clients : d # c => call'[d] = Idle
        /\ Alone'
    BY <2>2, <2>a, BeginsAlone
  <2>4. CallTrue(c)'
    BY <1>1, <1>o, <2>3 DEF CallTrue
  <2>5. \A d \in Clients : CallTrue(d)'
    BY <2>3, <2>4, IdleTrue
  <2>6. \A o \in Objs : TargetTrue(o)
    BY <2>3 DEF Orderly
  <2>7. \A o \in Objs : TargetTrue(o)'
    BY <1>1, <2>6, TargetKept
  <2>8. QED
    BY <2>3, <2>5, <2>7
\* One that puts a new object in the map.
<1>2. ASSUME NEW op \in {"add", "update"}, NEW o \in NewObj(i), NEW run \in BOOLEAN, NEW on \in BOOLEAN,
             Begins(c, op, "saving", o, {}),
             outputs[i] = None \/ ~obj[outputs[i]].target,
             outputs' = [outputs EXCEPT ![i] = o],
             obj' = [obj EXCEPT ![o] = FromBody(run, on)],
             UNCHANGED <<closed, loop>>
      PROVE  SInv'
  <2>0. o \in Objs /\ IdOf[o] = i /\ o # outputs[i]
    BY <1>n
  <2>1. /\ \A x \in Objs : x # o => obj'[x] = obj[x]
        /\ obj'[o].target = FALSE /\ obj'[o].stop = None
    BY <1>0, <1>2, <2>0, FromBodyGood
  <2>2. StopsDistinct'
    BY <2>0, <2>1 DEF StopsDistinct
  <2>3. MapTrue'
    BY <1>0, <1>2, <2>0 DEF MapTrue
  <2>4. SUFFICES ASSUME "calls" \notin raced'
                 PROVE  Alone' /\ (\A d \in Clients : CallTrue(d)') /\ \A x \in Objs : TargetTrue(x)'
    BY <2>2, <2>3 DEF Orderly
  <2>a. o \in ObjOrNone /\ op \in Ops /\ {} \in SUBSET Objs
    BY <1>2, <2>0 DEF ObjOrNone, Ops
  <2>5. /\ "calls" \notin raced
        /\ call'[c] = [op |-> op, at |-> "saving", obj |-> o, todo |-> {}]
        /\ \A d \in Clients : d # c => call'[d] = Idle
        /\ Alone'
    BY <1>2, <2>0, <2>4, <2>a, BeginsAlone
  <2>6. outputs'[IdOf[o]] = o
    BY <1>0, <1>2, <2>0
  <2>7. \A d \in Clients : CallTrue(d)'
    BY <2>5, <2>6, IdleTrue DEF CallTrue
  <2>8. ASSUME NEW x \in Objs PROVE TargetTrue(x)'
    <3>1. CASE x = o
      BY <2>1, <3>1 DEF TargetTrue
    <3>2. CASE x # o /\ ~obj[x].target
      BY <2>1, <3>2 DEF TargetTrue
    <3>3. CASE x # o /\ obj[x].target
      <4>1. TargetTrue(x) /\ x = outputs[IdOf[x]]
        BY <2>5, <3>3 DEF Orderly, TargetTrue
      <4>2. IdOf[x] # i /\ IdOf[x] \in Ids
        BY <1>2, <3>3, <4>1
      <4>3. x = outputs'[IdOf[x]]
        BY <1>0, <1>2, <4>1, <4>2
      <4>4. QED
        BY <1>2, <2>1, <3>3, <4>1, <4>3, TargetKept
    <3>4. QED
      BY <3>1, <3>2, <3>3
  <2>9. QED
    BY <2>5, <2>7, <2>8
<1>3. CASE StartOutput(c, i)
  <2>1. \A o \in Objs : obj'[o].target = obj[o].target /\ obj'[o].stop = obj[o].stop
    BY <1>0, <1>3 DEF StartOutput, ObjGood, ObjRecs
  <2>2. QED
    BY <1>1, <1>3, <2>1 DEF StartOutput, procs, Ops
<1>4. CASE StopOutput(c, i)
  <2>1. \A o \in Objs : obj'[o].target = obj[o].target /\ obj'[o].stop = obj[o].stop
    BY <1>0, <1>4 DEF StopOutput, ObjGood, ObjRecs
  <2>2. QED
    BY <1>1, <1>4, <2>1 DEF StopOutput, procs, Ops
<1>5. CASE MoveOverlay(c, i)
  BY <1>1, <1>5 DEF MoveOverlay, procs, Ops
<1>6. CASE AddOutput(c, i)
  BY <1>2, <1>6 DEF AddOutput, procs
<1>7. CASE RemoveOutput(c, i)
  <2>1. CASE obj[outputs[i]].target
    BY <1>1, <1>7, <2>1 DEF RemoveOutput, procs, Ops
  <2>2. CASE ~obj[outputs[i]].target
    BY <1>1, <1>7, <2>2 DEF RemoveOutput, procs, Ops
  <2>3. QED
    BY <2>1, <2>2
<1>8. CASE UpdateOutput(c, i)
  <2>1. CASE obj[outputs[i]].target
    BY <1>1, <1>8, <2>1 DEF UpdateOutput, procs, Ops
  <2>2. CASE ~obj[outputs[i]].target
    BY <1>2, <1>8, <2>2 DEF UpdateOutput, procs
  <2>3. QED
    BY <2>1, <2>2
<1>9. QED
  BY <1>3, <1>4, <1>5, <1>6, <1>7, <1>8

\* A step of the one call that is under way.
LEMMA ServeAlone ==
  ASSUME SInv, TypeInv', StopsDistinct', MapTrue', NEW c \in Clients, call[c].at # "idle",
         \A d \in Clients : d # c => call'[d] = call[d],
         "calls" \in raced => "calls" \in raced',
         "calls" \notin raced /\ CallTrue(c) /\ (\A o \in Objs : TargetTrue(o)) =>
            CallTrue(c)' /\ \A o \in Objs : TargetTrue(o)'
  PROVE  SInv'
<1> USE DEF SInv
<1>1. SUFFICES ASSUME "calls" \notin raced'
               PROVE  Alone' /\ (\A d \in Clients : CallTrue(d)') /\ \A o \in Objs : TargetTrue(o)'
  BY DEF Orderly
<1>2. "calls" \notin raced /\ Alone /\ CallTrue(c) /\ \A o \in Objs : TargetTrue(o)
  BY <1>1 DEF Orderly
<1>3. call[c] # Idle
  BY DEF Idle
<1>4. Alone' /\ \A d \in Clients : d # c => call'[d] = Idle
  BY <1>2, <1>3, GoesAlone
<1>5. \A d \in Clients : CallTrue(d)'
  BY <1>2, <1>4, IdleTrue
<1>6. QED
  BY <1>2, <1>4, <1>5

\* How a call goes on.
LEMMA CallWent ==
  ASSUME TypeInv, NEW c \in Clients, NEW at, Goes(c, at)
  PROVE  /\ call'[c].at = at /\ call'[c].op = call[c].op
         /\ call'[c].obj = call[c].obj /\ call'[c].todo = call[c].todo
         /\ \A d \in Clients : d # c => call'[d] = call[d]
<1>1. call = [d \in Clients |-> call[d]] /\ call[c] \in CallRecs
  BY DEF TypeInv, CallsGood, CallGood
<1>2. call' = [call EXCEPT ![c] = [call[c] EXCEPT !.at = at]]
  BY DEF Goes
<1>3. QED
  BY <1>1, <1>2 DEF CallRecs
\* How it returns.
LEMMA CallReturned ==
  ASSUME TypeInv, NEW c \in Clients, Returns(c)
  PROVE  call'[c] = Idle /\ CallTrue(c)' /\ \A d \in Clients : d # c => call'[d] = call[d]
<1>1. call = [d \in Clients |-> call[d]]
  BY DEF TypeInv, CallsGood
<1>2. call'[c] = Idle
  BY <1>1 DEF Returns
<1>3. QED
  BY <1>1, <1>2, IdleTrue DEF Returns

\* The calls, but for the ones that stop an output or end.
LEMMA ServeOrderly ==
  ASSUME SInv, NEW c \in Clients, TypeInv',
         \/ Saved(c) \/ StartsNow(c) \/ Removes(c) \/ Updates(c)
         \/ TakesNext(c) \/ StartsAgain(c)
  PROVE  SInv'
<1> USE Consts DEF SInv
<1>0. /\ obj = [o \in Objs |-> obj[o]] /\ outputs \in [Ids -> ObjOrNone]
      /\ \A o \in Objs : ObjGood(obj[o])
      /\ call[c] \in CallRecs
      /\ call[c].at \notin {"idle", "next"} => call[c].obj \in Objs
  BY DEF TypeInv, ObjsGood, RestGood, CallsGood, CallGood
<1>o. PICK o : o = call[c].obj
  OBVIOUS
<1>1. CASE Saved(c)
  <2>1. /\ UNCHANGED <<outputs, obj, closed, loop, raced>>
        /\ call[c].at = "saving" /\ o \in Objs
        /\ \/ Goes(c, "start") /\ call[c].op = "start"
           \/ Goes(c, "check") /\ call[c].op = "stop"
           \/ Returns(c)
    BY <1>o, <1>0, <1>1 DEF Saved, procs
  <2>2. StopsDistinct' /\ MapTrue'
    BY <2>1 DEF StopsDistinct, MapTrue
  <2>3. \A x \in Objs : TargetTrue(x) => TargetTrue(x)'
    BY <2>1, TargetKept
  <2>4. ASSUME CallTrue(c) PROVE CallTrue(c)'
    <3>1. CASE Returns(c)
      BY <3>1, CallReturned
    <3>2. CASE \/ Goes(c, "start") /\ call[c].op = "start"
               \/ Goes(c, "check") /\ call[c].op = "stop"
      <4>1. /\ call'[c].at \in {"start", "check"} /\ call'[c].op = call[c].op
            /\ call[c].op # "remove"
            /\ call'[c].obj = call[c].obj /\ call'[c].todo = call[c].todo
        BY <3>2, CallWent
      <4>2. QED
        BY <2>1, <2>4, <4>1 DEF CallTrue, Reads
    <3>3. QED
      BY <2>1, <3>1, <3>2
  <2>5. \A d \in Clients : d # c => call'[d] = call[d]
    BY <2>1, CallWent, CallReturned
  <2>6. QED
    BY <2>1, <2>2, <2>3, <2>4, <2>5, ServeAlone
<1>2. CASE StartsNow(c)
  <2>1. /\ call[c].at = "start" /\ o \in Objs
        /\ StartObj(obj, o) /\ Overtaking(o) /\ Returns(c) /\ outputs' = outputs
    BY <1>o, <1>0, <1>2 DEF StartsNow
  <2>2. /\ StopsDistinct'
        /\ \A x \in Objs : x # o /\ TargetTrue(x) => TargetTrue(x)'
        /\ TargetTrue(o) /\ o = outputs[IdOf[o]] => TargetTrue(o)'
    BY <1>0, <2>1, StartTargets
  <2>3. MapTrue'
    BY <2>1 DEF MapTrue
  <2>4. CallTrue(c) => o = outputs[IdOf[o]]
    BY <1>o, <2>1 DEF CallTrue
  <2>5. "calls" \in raced => "calls" \in raced'
    BY <2>1 DEF Overtaking
  <2>6. CallTrue(c)' /\ \A d \in Clients : d # c => call'[d] = call[d]
    BY <2>1, CallReturned
  <2>7. (\A x \in Objs : TargetTrue(x)) /\ CallTrue(c) => \A x \in Objs : TargetTrue(x)'
    BY <2>2, <2>4
  <2>8. QED
    BY <2>1, <2>2, <2>3, <2>5, <2>6, <2>7, ServeAlone
<1>3. CASE Removes(c)
  <2>1. /\ call[c].at = "after" /\ call[c].op = "remove" /\ o \in Objs /\ IdOf[o] \in Ids
        /\ outputs' = [outputs EXCEPT ![IdOf[o]] = None]
        /\ Goes(c, "saving") /\ UNCHANGED <<obj, closed, loop, raced>>
    BY <1>o, <1>0, <1>3 DEF Removes, procs
  <2>2. /\ outputs'[IdOf[o]] = None
        /\ \A i \in Ids : i # IdOf[o] => outputs'[i] = outputs[i]
    BY <1>0, <2>1
  <2>3. StopsDistinct' /\ MapTrue'
    BY <2>1, <2>2 DEF StopsDistinct, MapTrue
  <2>4. /\ call'[c].at = "saving" /\ call'[c].op = "remove" /\ call'[c].todo = call[c].todo
        /\ \A d \in Clients : d # c => call'[d] = call[d]
    BY <2>1, CallWent
  <2>5. CallTrue(c) => CallTrue(c)'
    BY <2>1, <2>4 DEF CallTrue, Reads
  <2>6. ASSUME CallTrue(c), NEW x \in Objs, TargetTrue(x) PROVE TargetTrue(x)'
    <3>1. outputs[IdOf[o]] = o /\ ~obj[o].target
      BY <1>o, <2>1, <2>6 DEF CallTrue
    <3>2. CASE ~obj[x].target
      BY <2>1, <3>2 DEF TargetTrue
    <3>3. CASE obj[x].target
      <4>1. x = outputs[IdOf[x]] /\ x # o /\ IdOf[x] \in Ids
        BY <2>6, <3>1, <3>3 DEF TargetTrue
      <4>2. x = outputs'[IdOf[x]]
        BY <2>2, <3>1, <4>1
      <4>3. QED
        BY <2>1, <2>6, <4>2, TargetKept
    <3>4. QED
      BY <3>2, <3>3
  <2>7. QED
    BY <2>1, <2>3, <2>4, <2>5, <2>6, ServeAlone
<1>4. CASE Updates(c)
  <2>1. PICK n \in NewObj(IdOf[o]), run \in BOOLEAN, on \in BOOLEAN :
       /\ outputs' = [outputs EXCEPT ![IdOf[n]] = n]
       /\ StartObj([obj EXCEPT ![n] = FromBody(run, on)], n)
       /\ call' = [call EXCEPT ![c].at = "saving", ![c].obj = n]
       /\ raced' = IF Dying(IdOf[n]) THEN raced \cup {"dying"} ELSE raced
    BY <1>o, <1>4 DEF Updates
  <2>2. /\ n \in Objs /\ IdOf[n] = IdOf[o] /\ IdOf[n] \in Ids /\ FreeObj(n)
        /\ call[c].op = "update" /\ call[c].at = "after" /\ o \in Objs
    BY <1>o, <1>0, <1>4, FirstIn DEF NewObj, Updates
  <2> DEFINE objs == [obj EXCEPT ![n] = FromBody(run, on)]
  <2>3. /\ objs = [x \in Objs |-> objs[x]] /\ \A x \in Objs : ObjGood(objs[x])
        /\ \A x \in Objs : x # n => objs[x] = obj[x]
        /\ objs[n].target = FALSE /\ objs[n].stop = None
    BY <1>0, <2>2, FromBodyGood
  <2>4. StartObj(objs, n)
    BY <2>1
  <2> HIDE DEF objs
  <2>5. /\ outputs'[IdOf[n]] = n
        /\ \A i \in Ids : i # IdOf[n] => outputs'[i] = outputs[i]
    BY <1>0, <2>1, <2>2
  <2>6. /\ StopsDistinct'
        /\ \A x \in Objs : x # n /\ TargetTrue(x) /\ (x = outputs[IdOf[x]] => x = outputs'[IdOf[x]])
                             => TargetTrue(x)'
        /\ TargetTrue(n) => TargetTrue(n)'
        /\ \A x \in Objs : x # n => obj'[x].target = obj[x].target
    BY <2>2, <2>3, <2>4, <2>5, StartTargets
  <2>7. MapTrue'
    BY <2>5 DEF MapTrue
  <2>8. /\ call'[c].at = "saving" /\ call'[c].op = "update" /\ call'[c].obj = n
        /\ call'[c].todo = call[c].todo
        /\ \A d \in Clients : d # c => call'[d] = call[d]
    BY <1>0, <2>1, <2>2 DEF TypeInv, CallsGood, CallRecs
  <2>9. CallTrue(c) => CallTrue(c)'
    BY <2>2, <2>5, <2>8 DEF CallTrue, Reads
  <2>10. ASSUME CallTrue(c), NEW x \in Objs, TargetTrue(x) PROVE TargetTrue(x)'
    <3>1. outputs[IdOf[o]] = o /\ ~obj[o].target
      BY <1>o, <2>2, <2>10 DEF CallTrue
    <3>2. CASE x = n
      BY <2>6, <2>10, <3>2
    <3>3. CASE x # n /\ ~obj[x].target
      BY <2>6, <3>3 DEF TargetTrue
    <3>4. CASE x # n /\ obj[x].target
      <4>1. x = outputs[IdOf[x]] /\ x # o /\ IdOf[x] \in Ids
        BY <2>10, <3>1, <3>4 DEF TargetTrue
      <4>2. x = outputs'[IdOf[x]]
        BY <2>2, <2>5, <3>1, <4>1
      <4>3. QED
        BY <2>6, <2>10, <3>4, <4>2
    <3>5. QED
      BY <3>2, <3>3, <3>4
  <2>11. "calls" \in raced => "calls" \in raced'
    BY <2>1
  <2>12. QED
    BY <2>2, <2>6, <2>7, <2>8, <2>9, <2>10, <2>11, ServeAlone
<1>5. CASE TakesNext(c)
  <2>1. PICK x \in call[c].todo :
       call' = [call EXCEPT ![c].todo = @ \ {x}, ![c].obj = x,
                            ![c].at = IF obj[x].target THEN "check" ELSE "next"]
    BY <1>5 DEF TakesNext
  <2>2. /\ x \in Objs /\ call[c].at = "next" /\ UNCHANGED <<outputs, obj, closed, loop, raced>>
        /\ call'[c].op = call[c].op /\ call'[c].obj = x /\ call'[c].todo = call[c].todo \ {x}
        /\ call'[c].at \in {"check", "next"}
        /\ \A d \in Clients : d # c => call'[d] = call[d]
    BY <1>o, <1>0, <1>5, <2>1 DEF TakesNext, procs, TypeInv, CallsGood, CallRecs
  <2>3. StopsDistinct' /\ MapTrue'
    BY <2>2 DEF StopsDistinct, MapTrue
  <2>4. \A y \in Objs : TargetTrue(y) => TargetTrue(y)'
    BY <2>2, TargetKept
  <2>5. CallTrue(c) => CallTrue(c)'
    BY <2>1, <2>2 DEF CallTrue, Reads
  <2>6. QED
    BY <2>2, <2>3, <2>4, <2>5, ServeAlone
<1>6. CASE StartsAgain(c)
  <2>1. /\ call[c].at = "after" /\ o \in Objs /\ Goes(c, "next") /\ outputs' = outputs
        /\ \/ StartObj(obj, o) /\ Overtaking(o)
           \/ UNCHANGED <<obj, closed, loop, raced>>
    BY <1>o, <1>0, <1>6 DEF StartsAgain
  <2>2. /\ StopsDistinct'
        /\ \A x \in Objs : x # o /\ TargetTrue(x) => TargetTrue(x)'
        /\ TargetTrue(o) /\ o = outputs[IdOf[o]] => TargetTrue(o)'
    <3>1. CASE StartObj(obj, o)
      BY <1>0, <2>1, <3>1, StartTargets
    <3>2. CASE UNCHANGED <<obj, closed, loop>>
      <4>1. \A x \in Objs : TargetTrue(x) => TargetTrue(x)'
        BY <2>1, <3>2, TargetKept
      <4>2. QED
        BY <2>1, <3>2, <4>1 DEF StopsDistinct
    <3>3. QED
      BY <2>1, <3>1, <3>2
  <2>3. MapTrue'
    BY <2>1 DEF MapTrue
  <2>4. CallTrue(c) => o = outputs[IdOf[o]]
    BY <1>o, <2>1 DEF CallTrue
  <2>5. "calls" \in raced => "calls" \in raced'
    BY <2>1 DEF Overtaking
  <2>6. /\ call'[c].at = "next" /\ call'[c].op = call[c].op /\ call'[c].todo = call[c].todo
        /\ \A d \in Clients : d # c => call'[d] = call[d]
    BY <2>1, CallWent
  <2>7. CallTrue(c) => CallTrue(c)'
    BY <2>1, <2>6 DEF CallTrue, Reads
  <2>8. (\A x \in Objs : TargetTrue(x)) /\ CallTrue(c) => \A x \in Objs : TargetTrue(x)'
    BY <2>2, <2>4
  <2>9. QED
    BY <2>1, <2>2, <2>3, <2>5, <2>6, <2>7, <2>8, ServeAlone
<1>7. QED
  BY <1>1, <1>2, <1>3, <1>4, <1>5, <1>6

\* Stop, which a call does to the one object it works on.
LEMMA StopOrderly ==
  ASSUME SInv, NEW c \in Clients, TypeInv', StopChecks(c) \/ StopCloses(c) \/ StopEnds(c)
  PROVE  SInv'
<1> USE Consts DEF SInv
<1>0. /\ obj = [x \in Objs |-> obj[x]] /\ \A x \in Objs : ObjGood(obj[x])
      /\ call[c] \in CallRecs
      /\ call[c].at \notin {"idle", "next"} => call[c].obj \in Objs
  BY DEF TypeInv, ObjsGood, CallsGood, CallGood
<1>o. PICK o : o = call[c].obj
  OBVIOUS
<1>1. UNCHANGED <<outputs, loop, raced>> /\ o \in Objs /\ call[c].at \in {"check", "close", "sleep"}
  BY <1>o, <1>0 DEF StopChecks, StopCloses, StopEnds, procs
<1>2. /\ \A x \in Objs : obj'[x].stop = obj[x].stop /\ (obj'[x].target => obj[x].target)
      /\ StopChecks(c) => ~obj'[o].target
  BY <1>o, <1>0, <1>1 DEF StopChecks, StopCloses, StopEnds, ObjGood, ObjRecs
<1>3. StopsDistinct' /\ MapTrue'
  BY <1>1, <1>2 DEF StopsDistinct, MapTrue
<1>4. \/ Returns(c)
      \/ \E at \in {"close", "sleep", "after"} : Goes(c, at)
  BY DEF StopChecks, StopCloses, StopEnds
<1>5. \A d \in Clients : d # c => call'[d] = call[d]
  BY <1>4, CallWent, CallReturned
<1>6. ASSUME CallTrue(c) PROVE CallTrue(c)'
  <2>1. CASE Returns(c)
    BY <2>1, CallReturned
  <2>2. ASSUME NEW at \in {"close", "sleep", "after"}, Goes(c, at) PROVE CallTrue(c)'
    <3>1. /\ call'[c].at = at /\ call'[c].op = call[c].op
          /\ call'[c].obj = o /\ call'[c].todo = call[c].todo
      BY <1>o, <2>2, CallWent
    <3>2. outputs[IdOf[o]] = o /\ ~obj'[o].target
      BY <1>o, <1>1, <1>2, <1>6 DEF CallTrue, StopCloses, StopEnds
    <3>3. QED
      BY <1>1, <1>6, <2>2, <3>1, <3>2 DEF CallTrue, Reads
  <2>3. QED
    BY <1>4, <2>1, <2>2
<1>7. ASSUME CallTrue(c), NEW x \in Objs, TargetTrue(x) PROVE TargetTrue(x)'
  <2>1. CASE UNCHANGED closed
    BY <1>1, <1>2, <1>7, <2>1, TargetKept
  <2>2. CASE StopCloses(c)
    <3>1. /\ call[c].at = "close" /\ closed' = closed \cup {obj[o].stop}
          /\ obj[o].stop \in Loops /\ ~obj[o].target
      BY <1>o, <1>7, <2>2 DEF StopCloses, CallTrue, TypeInv, ClosesGood
    <3>2. CASE obj[x].target
      <4>1. obj[x].stop # obj[o].stop
        BY <1>1, <3>1, <3>2 DEF StopsDistinct
      <4>2. QED
        BY <1>1, <1>2, <1>7, <3>1, <4>1, TargetKept
    <3>3. CASE ~obj[x].target
      BY <1>2, <3>3 DEF TargetTrue
    <3>4. QED
      BY <3>2, <3>3
  <2>3. QED
    BY <2>1, <2>2 DEF StopChecks, StopEnds
<1>8. QED
  BY <1>1, <1>3, <1>5, <1>6, <1>7, ServeAlone

\* The program begins in order ...
LEMMA InitOrderly == Init => SInv
<1> SUFFICES ASSUME Init PROVE SInv
  OBVIOUS
<1>1. TypeInv
  BY InitTypes
<1>2. \A o \in Objs : obj[o].target = FALSE /\ obj[o].stop = None
  BY DEF Init, Loaded, NewOutput
<1>3. MapTrue
  BY DEF Init, Load, MapTrue
<1>4. \A c \in Clients : call[c] = Idle
  BY DEF Init
<1>5. \A c \in Clients : CallTrue(c)
  BY <1>4 DEF CallTrue, Idle
<1>6. QED
  BY <1>1, <1>2, <1>3, <1>4, <1>5 DEF SInv, StopsDistinct, Orderly, Alone, TargetTrue

\* ... and again.
LEMMA RestartOrderly == ASSUME Restarts, TypeInv' PROVE SInv'
<1>1. \A o \in Objs : obj'[o].target = FALSE /\ obj'[o].stop = None
  BY DEF Restarts, Loaded, NewOutput
<1>2. MapTrue'
  BY DEF Restarts, Load, MapTrue
<1>3. \A c \in Clients : call'[c] = Idle
  BY DEF Restarts
<1>4. \A c \in Clients : CallTrue(c)'
  BY <1>3, IdleTrue
<1>5. QED
  BY <1>1, <1>2, <1>3, <1>4 DEF SInv, StopsDistinct, Orderly, Alone, TargetTrue

\* The calls that go through the map begin with what is in it.
LEMMA ForAllOrderly ==
  ASSUME SInv, TypeInv', NEW c \in Clients, NEW op \in {"restart", "shutdown"}, ForAll(c, op)
  PROVE  SInv'
<1> USE Consts DEF SInv
<1> DEFINE todo == {outputs[i] : i \in Ids} \ {None}
<1>1. /\ Begins(c, op, "next", None, todo) /\ op \in Ops
      /\ UNCHANGED <<outputs, obj, closed, loop>>
  BY DEF ForAll, procs, Ops
<1>2. \A o \in todo : o \in Objs /\ outputs[IdOf[o]] = o
  BY DEF TypeInv, RestGood, ObjOrNone, MapTrue
<1>3. todo \in SUBSET Objs /\ None \in ObjOrNone
  BY <1>2 DEF ObjOrNone
<1> HIDE DEF todo
<1>4. StopsDistinct' /\ MapTrue'
  BY <1>1 DEF StopsDistinct, MapTrue
<1>5. SUFFICES ASSUME "calls" \notin raced'
               PROVE  Alone' /\ (\A d \in Clients : CallTrue(d)') /\ \A o \in Objs : TargetTrue(o)'
  BY <1>4 DEF Orderly
<1>6. PICK objs : objs = todo
  OBVIOUS
<1>7. /\ "calls" \notin raced
      /\ call'[c] = [op |-> op, at |-> "next", obj |-> None, todo |-> objs]
      /\ \A d \in Clients : d # c => call'[d] = Idle
      /\ Alone'
  BY <1>1, <1>3, <1>5, <1>6, BeginsAlone
<1>8. CallTrue(c)'
  BY <1>1, <1>2, <1>6, <1>7 DEF CallTrue, Reads
<1>9. \A d \in Clients : CallTrue(d)'
  BY <1>7, <1>8, IdleTrue
<1>10. \A o \in Objs : TargetTrue(o)'
  BY <1>1, <1>7, TargetKept DEF Orderly
<1>11. QED
  BY <1>7, <1>9, <1>10

\* Nothing of what is kept is changed.
LEMMA OrderlyKept ==
  ASSUME SInv, TypeInv', UNCHANGED <<outputs, obj, closed, loop, call, raced>>
  PROVE  SInv'
BY DEF SInv, StopsDistinct, MapTrue, Orderly, Alone, CallTrue, Reads, TargetTrue, Looked

\* Every step keeps the order.
LEMMA NextOrderly == SInv /\ [Next]_vars => SInv'
<1> SUFFICES ASSUME SInv, [Next]_vars PROVE SInv'
  OBVIOUS
<1>1. TypeInv /\ TypeInv'
  BY TypeStep DEF SInv
<1>2. CASE Restarts
  BY <1>1, <1>2, RestartOrderly
<1>3. ASSUME NEW c \in Clients, Request(c) PROVE SInv'
  BY <1>1, <1>3, RequestOrderly, ForAllOrderly DEF Request
<1>4. ASSUME NEW c \in Clients, Serve(c) PROVE SInv'
  <2>1. CASE ForAllEnds(c)
    <3>1. CASE Restarts
      BY <1>1, <3>1, RestartOrderly
    <3>2. CASE Returns(c) /\ UNCHANGED <<outputs, obj, closed, loop, raced>>
      <4>1. StopsDistinct' /\ MapTrue'
        BY <3>2 DEF SInv, StopsDistinct, MapTrue
      <4>2. \A o \in Objs : TargetTrue(o) => TargetTrue(o)'
        BY <3>2, TargetKept
      <4>3. CallTrue(c)' /\ \A d \in Clients : d # c => call'[d] = call[d]
        BY <1>1, <3>2, CallReturned
      <4>4. call[c].at # "idle"
        BY <2>1 DEF ForAllEnds
      <4>5. QED
        BY <1>1, <3>2, <4>1, <4>2, <4>3, <4>4, ServeAlone
    <3>3. QED
      BY <2>1, <3>1, <3>2 DEF ForAllEnds, procs
  <2>2. QED
    BY <1>1, <1>4, <2>1, ServeOrderly, StopOrderly DEF Serve
<1>5. ASSUME NEW c \in Clients, NEW i \in Ids, BootStarts(c, i) PROVE SInv'
  BY <1>1, <1>5, RequestOrderly, OrderlyKept DEF BootStarts, procs
<1>6. ASSUME NEW k \in Loops,
             Manage(k) \/ WriterReads(k) \/ WriterLeaves(k) \/ ProcExits(k) \/ ProcFails(k)
      PROVE  SInv'
  BY <1>6, LoopOrderly
<1>7. CASE UNCHANGED vars
  BY <1>1, <1>7, OrderlyKept DEF vars, procs
<1>8. QED
  BY <1>2, <1>3, <1>4, <1>5, <1>6, <1>7 DEF Next

\* As long as no call overtakes another, an output that is to run is in the
\* map, its stop channel is open and a loop that will not be told to end looks
\* after it, whatever loops, writers and FFmpegs do (Output.Start, Output.Stop).
THEOREM AlwaysSupervised == Spec => []Supervised
<1>1. SInv => Supervised
  <2> SUFFICES ASSUME SInv, "calls" \notin raced, NEW o \in Objs, obj[o].target
               PROVE  /\ o = outputs[IdOf[o]] /\ obj[o].stop \notin closed
                      /\ \E k \in Loops : loop[k].obj = o /\ loop[k].on \notin closed
    BY DEF Supervised
  <2>1. o = outputs[IdOf[o]] /\ obj[o].stop \notin closed /\ Looked(o)
    BY DEF SInv, Orderly, TargetTrue
  <2>2. None \notin closed
    BY Consts DEF SInv, TypeInv, RestGood
  <2>3. QED
    BY <2>1, <2>2 DEF Looked
<1>2. QED
  BY <1>1, InitOrderly, NextOrderly, PTL DEF Spec

-----------------------------------------------------------------------------
\* Whose Running is what it does, but for an output that boot has still to start
\* and one that a body has set against it, ...
Agrees(i) ==
  outputs[i] # None /\ i \notin boot /\ ~obj[outputs[i]].odd =>
    (obj[outputs[i]].run <=> obj[outputs[i]].target)
\* ... when no call is on the way from the one to the other.
Settling(o) ==
  \E c \in Clients :
    /\ call[c].obj = o
    /\ \/ call[c].op = "start" /\ call[c].at \in {"saving", "start"}
       \/ call[c].op = "stop" /\ call[c].at \in {"saving", "check"}
       \/ call[c].at \in {"close", "sleep", "after"}
\* What a call has set, or found, of the output it works on.
CallSets(c) ==
  LET o == call[c].obj IN
  /\ call[c].op = "start" /\ call[c].at \in {"saving", "start"} => obj[o].run
  /\ call[c].op = "stop" /\ call[c].at \in {"saving", "check", "close", "sleep"} => ~obj[o].run
  /\ call[c].op = "restart" /\ call[c].at = "check" => obj[o].target
  /\ call[c].op = "restart" /\ call[c].at \in {"close", "sleep", "after"} =>
       obj[o].run \/ obj[o].odd \/ IdOf[o] \in boot
\* So it is while no two calls overlap, up to the end of the program, which stops
\* everything and saves nothing.
RunTrue ==
  "calls" \notin raced /\ (\A c \in Clients : call[c].op # "shutdown") =>
    /\ \A c \in Clients : CallSets(c)
    /\ \A i \in Ids : Agrees(i) \/ Settling(outputs[i])
EndSavesNot == \A c \in Clients : call[c].op = "shutdown" => call[c].at # "saving"
RInv == SInv /\ EndSavesNot /\ RunTrue

\* Nothing that this is about is changed.
LEMMA AgreesKept ==
  ASSUME TypeInv, NEW i \in Ids, Agrees(i), outputs'[i] = outputs[i],
         i \in boot => outputs[i] = None \/ i \in boot',
         \A o \in Objs : outputs[i] = o =>
           obj'[o].run = obj[o].run /\ obj'[o].odd = obj[o].odd /\ obj'[o].target = obj[o].target
  PROVE  Agrees(i)'
BY Consts DEF Agrees, TypeInv, RestGood, ObjOrNone

\* Who is alone settles its own output only.
LEMMA OthersAgree ==
  ASSUME NEW c \in Clients, \A d \in Clients : d # c => call[d] = Idle,
         NEW i \in Ids, Agrees(i) \/ Settling(outputs[i]),
         \/ outputs[i] # call[c].obj
         \/ ~(call[c].op = "start" /\ call[c].at \in {"saving", "start"})
            /\ ~(call[c].op = "stop" /\ call[c].at \in {"saving", "check"})
            /\ call[c].at \notin {"close", "sleep", "after"}
  PROVE  Agrees(i)
BY DEF Settling, Idle

\* Who is idle sets nothing.
LEMMA IdleSets == ASSUME NEW c \in Clients, call'[c] = Idle PROVE CallSets(c)'
BY DEF CallSets, Idle

\* Goroutines, and steps that leave all this alone.
LEMMA RunKept ==
  ASSUME RInv, SInv', FieldsKept, UNCHANGED <<outputs, call, raced>>,
         \A i \in Ids : i \in boot => outputs[i] = None \/ i \in boot'
  PROVE  RInv'
<1> USE Consts DEF RInv
<1>1. EndSavesNot'
  BY DEF EndSavesNot
<1>2. SUFFICES ASSUME "calls" \notin raced', \A c \in Clients : call'[c].op # "shutdown"
               PROVE  (\A c \in Clients : CallSets(c)') /\ \A i \in Ids : (Agrees(i) \/ Settling(outputs[i]))'
  BY <1>1 DEF RunTrue
<1>3. /\ \A c \in Clients : CallSets(c) /\ CallTrue(c)
      /\ \A i \in Ids : Agrees(i) \/ Settling(outputs[i])
  BY <1>2 DEF RunTrue, SInv, Orderly
<1>4. TypeInv
  BY DEF SInv
<1>5. ASSUME NEW c \in Clients PROVE CallSets(c)'
  <2> DEFINE o == call[c].obj
  <2>1. CASE call[c].at \in {"idle", "next"}
    BY <2>1 DEF CallSets
  <2>2. CASE call[c].at \notin {"idle", "next"}
    <3>1. o \in Objs /\ IdOf[o] \in Ids
      BY <1>4, <2>2 DEF TypeInv, CallsGood, CallGood
    <3>2. call[c].at # "saving" => outputs[IdOf[o]] = o
      BY <1>3, <2>2 DEF CallTrue
    <3>3. call[c].at # "saving" /\ IdOf[o] \in boot => IdOf[o] \in boot'
      BY <3>1, <3>2
    <3>4. obj'[o].run = obj[o].run /\ obj'[o].odd = obj[o].odd /\ obj'[o].target = obj[o].target
      BY <3>1 DEF FieldsKept
    <3>5. QED
      BY <1>3, <3>3, <3>4 DEF CallSets
  <2>3. QED
    BY <2>1, <2>2
<1>6. ASSUME NEW i \in Ids PROVE (Agrees(i) \/ Settling(outputs[i]))'
  <2>1. CASE Agrees(i)
    BY <1>4, <2>1, AgreesKept DEF FieldsKept
  <2>2. CASE Settling(outputs[i])
    BY <2>2 DEF Settling
  <2>3. QED
    BY <1>3, <2>1, <2>2
<1>7. QED
  BY <1>5, <1>6

\* A call begins, alone; then all agreed.
LEMMA RequestRuns ==
  ASSUME RInv, SInv', NEW c \in Clients, NEW op \in Ops,
         NEW at \in {"saving", "check", "after", "next"},
         NEW o \in ObjOrNone, at # "next" => o \in Objs, NEW todo \in SUBSET Objs,
         Begins(c, op, at, o, todo), op = "shutdown" => at = "next",
         op = "restart" => at = "next",
         op = "start" => obj'[o].run,
         op = "stop" => ~obj'[o].run,
         \A i \in Ids : Agrees(i) =>
           \/ Agrees(i)'
           \/ outputs'[i] = o /\ op \in {"start", "stop"} /\ at = "saving"
  PROVE  RInv'
<1> USE DEF RInv
<1>1. TypeInv
  BY DEF SInv
<1>2. call[c] = Idle /\ call'[c].at = at /\ \A d \in Clients : d # c => call'[d] = call[d]
  BY <1>1, CallBegins
<1>3. EndSavesNot'
  <2>1. call'[c].op = op
    BY <1>1 DEF Begins, TypeInv, CallsGood
  <2>2. QED
    BY <1>2, <2>1 DEF EndSavesNot
<1>4. SUFFICES ASSUME "calls" \notin raced'
               PROVE  (\A d \in Clients : CallSets(d)') /\ \A i \in Ids : (Agrees(i) \/ Settling(outputs[i]))'
  BY <1>3 DEF RunTrue
<1>5. /\ "calls" \notin raced
      /\ call'[c] = [op |-> op, at |-> at, obj |-> o, todo |-> todo]
      /\ \A d \in Clients : d # c => call'[d] = Idle
  BY <1>1, <1>4, BeginsAlone
<1>6. \A d \in Clients : call[d] = Idle
  BY <1>2, <1>5
<1>7. \A i \in Ids : Agrees(i)
  BY <1>5, <1>6 DEF RunTrue, Settling, Idle
<1>8. CallSets(c)'
  BY <1>5 DEF CallSets
<1>9. \A d \in Clients : CallSets(d)'
  BY <1>5, <1>8, IdleSets
<1>10. ASSUME NEW i \in Ids PROVE (Agrees(i) \/ Settling(outputs[i]))'
  BY <1>5, <1>7 DEF Settling
<1>11. QED
  BY <1>9, <1>10

\* The requests.
LEMMA RequestsRun ==
  ASSUME RInv, SInv', NEW c \in Clients, NEW i \in Ids,
         boot' = boot \/ (boot' = boot \ {i} /\ StartOutput(c, i)),
         \/ StartOutput(c, i) \/ StopOutput(c, i) \/ AddOutput(c, i)
         \/ RemoveOutput(c, i) \/ UpdateOutput(c, i) \/ MoveOverlay(c, i)
  PROVE  RInv'
<1> USE Consts DEF RInv, SInv
<1>0. /\ obj = [o \in Objs |-> obj[o]] /\ outputs \in [Ids -> ObjOrNone]
      /\ \A o \in Objs : ObjGood(obj[o])
  BY DEF TypeInv, ObjsGood, RestGood
<1>o. outputs[i] # None => outputs[i] \in Objs /\ IdOf[outputs[i]] = i
  BY <1>0 DEF MapTrue, ObjOrNone
<1>n. ASSUME NEW o \in NewObj(i)
      PROVE  o \in Objs /\ IdOf[o] = i /\ \A j \in Ids : outputs[j] # o
  BY FirstIn DEF NewObj, FreeObj
<1>e. {} \in SUBSET Objs
  OBVIOUS
\* A call that leaves the map and the objects.
<1>1. ASSUME NEW op \in {"remove", "update", "move"}, NEW at \in {"saving", "check", "after"},
             outputs[i] # None, Begins(c, op, at, outputs[i], {}),
             UNCHANGED <<outputs, obj>>, boot' = boot
      PROVE  RInv'
  <2>1. outputs[i] \in Objs /\ outputs[i] \in ObjOrNone /\ op \in Ops
    BY <1>1, <1>o DEF ObjOrNone, Ops
  <2>2. \A j \in Ids : Agrees(j) => Agrees(j)'
    BY <1>1 DEF Agrees
  <2>3. QED
    BY <1>1, <1>e, <2>1, <2>2, RequestRuns
\* One that puts a new object in the map.
<1>2. ASSUME NEW op \in {"add", "update"}, NEW o \in NewObj(i), NEW run \in BOOLEAN, NEW on \in BOOLEAN,
             on = FALSE, Begins(c, op, "saving", o, {}),
             outputs' = [outputs EXCEPT ![i] = o],
             obj' = [obj EXCEPT ![o] = FromBody(run, on)], boot' = boot
      PROVE  RInv'
  <2>1. o \in Objs /\ o \in ObjOrNone /\ op \in Ops /\ \A j \in Ids : outputs[j] # o
    BY <1>n DEF ObjOrNone, Ops
  <2>2. /\ \A x \in Objs : x # o => obj'[x] = obj[x]
        /\ obj'[o].target = FALSE /\ obj'[o].run = run /\ obj'[o].odd = (run # on)
    BY <1>0, <1>2, <2>1, FromBodyGood
  <2>3. outputs'[i] = o /\ \A j \in Ids : j # i => outputs'[j] = outputs[j]
    BY <1>0, <1>2
  <2>4. ASSUME NEW j \in Ids, Agrees(j) PROVE Agrees(j)'
    <3>1. CASE j = i
      BY <1>2, <2>2, <2>3, <3>1 DEF Agrees
    <3>2. CASE j # i
      <4>1. outputs'[j] = outputs[j] /\ \A x \in Objs : outputs[j] = x => obj'[x] = obj[x]
        BY <2>1, <2>2, <2>3, <3>2
      <4>2. QED
        BY <1>2, <2>4, <4>1, AgreesKept
    <3>3. QED
      BY <3>1, <3>2
  <2>5. QED
    BY <1>2, <1>e, <2>1, <2>4, RequestRuns
\* StartOutput and StopOutput.
<1>3. ASSUME NEW op \in {"start", "stop"}, NEW run \in BOOLEAN, run <=> op = "start",
             outputs[i] # None, Begins(c, op, "saving", outputs[i], {}),
             obj' = [obj EXCEPT ![outputs[i]].run = run, ![outputs[i]].odd = FALSE],
             UNCHANGED outputs
      PROVE  RInv'
  <2>1. outputs[i] \in Objs /\ outputs[i] \in ObjOrNone /\ op \in Ops
    BY <1>3, <1>o DEF ObjOrNone, Ops
  <2>2. /\ \A x \in Objs : x # outputs[i] => obj'[x] = obj[x]
        /\ obj'[outputs[i]].run = run
    BY <1>0, <1>3, <2>1 DEF ObjGood, ObjRecs
  <2>3. ASSUME NEW j \in Ids, j # i, Agrees(j) PROVE Agrees(j)'
    <3>1. outputs[j] # None => outputs[j] # outputs[i]
      BY <1>o, <2>3 DEF MapTrue
    <3>2. \A x \in Objs : outputs[j] = x => obj'[x] = obj[x]
      BY <2>2, <3>1
    <3>3. QED
      BY <1>3, <2>3, <3>2, AgreesKept
  <2>4. op = "start" => obj'[outputs[i]].run
    BY <1>3, <2>2
  <2>5. op = "stop" => ~obj'[outputs[i]].run
    BY <1>3, <2>2
  <2>6. QED
    BY <1>3, <1>e, <2>1, <2>3, <2>4, <2>5, RequestRuns
<1>4. CASE StartOutput(c, i)
  <2>1. PICK op \in {"start", "stop"}, run \in BOOLEAN :
           /\ run <=> op = "start"
           /\ outputs[i] # None /\ Begins(c, op, "saving", outputs[i], {})
           /\ obj' = [obj EXCEPT ![outputs[i]].run = run, ![outputs[i]].odd = FALSE]
           /\ UNCHANGED outputs
    BY <1>4 DEF StartOutput
  <2>2. QED
    BY <1>3, <2>1
<1>5. CASE StopOutput(c, i)
  <2>1. PICK op \in {"start", "stop"}, run \in BOOLEAN :
           /\ run <=> op = "start"
           /\ outputs[i] # None /\ Begins(c, op, "saving", outputs[i], {})
           /\ obj' = [obj EXCEPT ![outputs[i]].run = run, ![outputs[i]].odd = FALSE]
           /\ UNCHANGED outputs
    BY <1>5 DEF StopOutput
  <2>2. QED
    BY <1>3, <2>1
<1>6. CASE ~StartOutput(c, i) /\ ~StopOutput(c, i)
  <2>0. boot' = boot
    BY <1>6
  <2>1. CASE AddOutput(c, i)
    <3>1. PICK o \in NewObj(i), run \in BOOLEAN, on \in BOOLEAN :
            /\ on = FALSE /\ Begins(c, "add", "saving", o, {})
            /\ outputs' = [outputs EXCEPT ![i] = o]
            /\ obj' = [obj EXCEPT ![o] = FromBody(run, on)]
      BY <2>1 DEF AddOutput
    <3>2. QED
      BY <1>2, <2>0, <3>1
  <2>2. CASE RemoveOutput(c, i)
    <3>1. PICK at \in {"check", "after"} : Begins(c, "remove", at, outputs[i], {})
      BY <2>2 DEF RemoveOutput
    <3>2. QED
      BY <1>1, <2>0, <2>2, <3>1 DEF RemoveOutput
  <2>3. CASE UpdateOutput(c, i) /\ obj[outputs[i]].target
    BY <1>1, <2>0, <2>3 DEF UpdateOutput
  <2>4. CASE UpdateOutput(c, i) /\ ~obj[outputs[i]].target
    <3>1. PICK o \in NewObj(i), run \in BOOLEAN, on \in BOOLEAN :
            /\ on = FALSE /\ Begins(c, "update", "saving", o, {})
            /\ outputs' = [outputs EXCEPT ![i] = o]
            /\ obj' = [obj EXCEPT ![o] = FromBody(run, on)]
      BY <2>4 DEF UpdateOutput
    <3>2. QED
      BY <1>2, <2>0, <3>1
  <2>5. CASE MoveOverlay(c, i)
    BY <1>1, <2>0, <2>5 DEF MoveOverlay
  <2>6. QED
    BY <1>6, <2>1, <2>2, <2>3, <2>4, <2>5
<1>7. QED
  BY <1>4, <1>5, <1>6

\* A step of the one call that is under way.
LEMMA ServeRuns ==
  ASSUME RInv, SInv', NEW c \in Clients, call[c].at # "idle",
         \A d \in Clients : d # c => call'[d] = call[d],
         "calls" \in raced => "calls" \in raced',
         call[c].op = "shutdown" => call'[c].op = "shutdown" /\ call'[c].at # "saving",
         call[c].op # "shutdown" => call'[c].op # "shutdown",
         \* what has to be shown of the step:
         /\ call[c].op # "shutdown" /\ CallTrue(c) /\ CallSets(c)
         /\ \A d \in Clients : d # c => call[d] = Idle
         /\ \A i \in Ids : Agrees(i) \/ Settling(outputs[i])
         => CallSets(c)' /\ \A i \in Ids : (Agrees(i) \/ Settling(outputs[i]))'
  PROVE  RInv'
<1> USE DEF RInv
<1>1. EndSavesNot'
  BY DEF EndSavesNot
<1>2. SUFFICES ASSUME "calls" \notin raced', \A d \in Clients : call'[d].op # "shutdown"
               PROVE  (\A d \in Clients : CallSets(d)') /\ \A i \in Ids : (Agrees(i) \/ Settling(outputs[i]))'
  BY <1>1 DEF RunTrue
<1>3. "calls" \notin raced /\ Alone /\ CallTrue(c)
  BY <1>2 DEF SInv, Orderly
<1>4. \A d \in Clients : call[d].op # "shutdown"
  BY <1>2
<1>5. CallSets(c) /\ \A i \in Ids : Agrees(i) \/ Settling(outputs[i])
  BY <1>3, <1>4 DEF RunTrue
<1>6. call[c] # Idle
  BY DEF Idle
<1>7. \A d \in Clients : d # c => call[d] = Idle /\ call'[d] = Idle
  BY <1>3, <1>6 DEF Alone
<1>8. CallSets(c)' /\ \A i \in Ids : (Agrees(i) \/ Settling(outputs[i]))'
  BY <1>3, <1>4, <1>5, <1>7
<1>9. QED
  BY <1>7, <1>8, IdleSets

\* The steps of a call but the end of the program: its own output is left as the
\* call is to leave it, and the others agree as before.
LEMMA ServesRun ==
  ASSUME RInv, SInv', NEW c \in Clients, Serve(c), ~Restarts
  PROVE  RInv'
<1> USE Consts DEF RInv, SInv
<1>0. /\ obj = [x \in Objs |-> obj[x]] /\ outputs \in [Ids -> ObjOrNone]
      /\ \A x \in Objs : ObjGood(obj[x])
      /\ call[c] \in CallRecs
      /\ call[c].at \notin {"idle", "next"} => call[c].obj \in Objs
  BY DEF TypeInv, ObjsGood, RestGood, CallsGood, CallGood
<1>o. PICK o : o = call[c].obj
  OBVIOUS
<1>m. \A i \in Ids, x \in Objs : outputs[i] = x => IdOf[x] = i
  BY DEF MapTrue
\* The objects but o, and the map, are left alone.
<1>1. ASSUME UNCHANGED <<outputs, boot>>,
             \A x \in Objs : x # o =>
               obj'[x].run = obj[x].run /\ obj'[x].odd = obj[x].odd /\ obj'[x].target = obj[x].target,
             NEW i \in Ids, Agrees(i) \/ Settling(outputs[i]), outputs[i] # o,
             \A d \in Clients : d # c => call[d] = Idle
      PROVE  Agrees(i)'
  <2>1. Agrees(i)
    BY <1>o, <1>1, OthersAgree
  <2>2. QED
    BY <1>1, <2>1, AgreesKept
<1>2. CASE Saved(c)
  <2>1. /\ UNCHANGED <<outputs, obj, boot, raced>> /\ call[c].at = "saving"
        /\ call[c].op # "shutdown"
        /\ \/ Goes(c, "start") /\ call[c].op = "start"
           \/ Goes(c, "check") /\ call[c].op = "stop"
           \/ Returns(c) /\ call[c].op \notin {"start", "stop"}
    BY <1>2 DEF Saved, EndSavesNot
  <2>2. /\ \A d \in Clients : d # c => call'[d] = call[d]
        /\ call'[c].op # "shutdown"
    BY <2>1, CallWent, CallReturned DEF Idle
  <2>3. ASSUME CallSets(c), \A d \in Clients : d # c => call[d] = Idle,
               \A i \in Ids : Agrees(i) \/ Settling(outputs[i])
        PROVE  CallSets(c)' /\ \A i \in Ids : (Agrees(i) \/ Settling(outputs[i]))'
    <3>1. CASE \/ Goes(c, "start") /\ call[c].op = "start"
               \/ Goes(c, "check") /\ call[c].op = "stop"
      <4>1. /\ call'[c].op = call[c].op /\ call'[c].obj = call[c].obj
            /\ \/ call'[c].op = "start" /\ call'[c].at = "start"
               \/ call'[c].op = "stop" /\ call'[c].at = "check"
        BY <3>1, CallWent
      <4>2. CallSets(c)'
        BY <2>1, <2>3, <4>1 DEF CallSets
      <4>3. ASSUME NEW i \in Ids PROVE (Agrees(i) \/ Settling(outputs[i]))'
        <5>1. CASE outputs[i] = o
          BY <1>o, <2>1, <4>1, <5>1 DEF Settling
        <5>2. CASE outputs[i] # o
          BY <1>1, <2>1, <2>3, <5>2
        <5>3. QED
          BY <5>1, <5>2
      <4>4. QED
        BY <4>2, <4>3
    <3>2. CASE Returns(c) /\ call[c].op \notin {"start", "stop"}
      <4>1. CallSets(c)'
        BY <3>2, CallReturned, IdleSets
      <4>2. ASSUME NEW i \in Ids PROVE Agrees(i)'
        <5>1. Agrees(i)
          BY <2>1, <2>3, <3>2, OthersAgree
        <5>2. QED
          BY <2>1, <5>1 DEF Agrees
      <4>3. QED
        BY <4>1, <4>2
    <3>3. QED
      BY <2>1, <3>1, <3>2
  <2>4. QED
    BY <2>1, <2>2, <2>3, ServeRuns
<1>3. CASE StartsNow(c)
  <2>1. /\ call[c].at = "start" /\ call[c].op = "start" /\ o \in Objs
        /\ StartObj(obj, o) /\ Overtaking(o) /\ Returns(c) /\ UNCHANGED <<outputs, boot>>
    BY <1>o, <1>0, <1>3 DEF StartsNow
  <2>2. /\ \A x \in Objs : x # o => obj'[x].target = obj[x].target
        /\ obj'[o].target
    BY <1>0, <2>1, StartTargets
  <2>3. \A x \in Objs : obj'[x].run = obj[x].run /\ obj'[x].odd = obj[x].odd
    BY <1>0, <2>1, StartObjGood DEF TypeInv, RestGood
  <2>4. /\ \A d \in Clients : d # c => call'[d] = call[d]
        /\ call'[c] = Idle /\ call'[c].op # "shutdown"
    BY <2>1, CallReturned DEF Idle
  <2>5. "calls" \in raced => "calls" \in raced'
    BY <2>1 DEF Overtaking
  <2>6. ASSUME CallSets(c), \A d \in Clients : d # c => call[d] = Idle,
               \A i \in Ids : Agrees(i) \/ Settling(outputs[i])
        PROVE  CallSets(c)' /\ \A i \in Ids : (Agrees(i) \/ Settling(outputs[i]))'
    <3>1. obj[o].run
      BY <1>o, <2>1, <2>6 DEF CallSets
    <3>2. ASSUME NEW i \in Ids PROVE Agrees(i)'
      <4>1. CASE outputs[i] = o
        BY <2>1, <2>2, <2>3, <3>1, <4>1 DEF Agrees
      <4>2. CASE outputs[i] # o
        BY <1>1, <2>1, <2>2, <2>3, <2>6, <4>2
      <4>3. QED
        BY <4>1, <4>2
    <3>3. QED
      BY <2>4, <3>2, IdleSets
  <2>7. QED
    BY <2>1, <2>4, <2>5, <2>6, ServeRuns
<1>4. CASE Removes(c)
  <2>1. /\ call[c].at = "after" /\ call[c].op = "remove" /\ o \in Objs /\ IdOf[o] \in Ids
        /\ outputs' = [outputs EXCEPT ![IdOf[o]] = None]
        /\ Goes(c, "saving") /\ UNCHANGED <<obj, boot, raced>>
    BY <1>o, <1>0, <1>4 DEF Removes
  <2>2. /\ call'[c].at = "saving" /\ call'[c].op = "remove"
        /\ \A d \in Clients : d # c => call'[d] = call[d]
    BY <2>1, CallWent
  <2>3. ASSUME \A d \in Clients : d # c => call[d] = Idle,
               \A i \in Ids : Agrees(i) \/ Settling(outputs[i])
        PROVE  CallSets(c)' /\ \A i \in Ids : (Agrees(i) \/ Settling(outputs[i]))'
    <3>1. CallSets(c)'
      BY <2>2 DEF CallSets
    <3>2. ASSUME NEW i \in Ids PROVE Agrees(i)'
      <4>1. CASE i = IdOf[o]
        BY <1>0, <2>1, <4>1 DEF Agrees
      <4>2. CASE i # IdOf[o]
        <5>1. outputs[i] # o /\ outputs'[i] = outputs[i]
          BY <1>0, <1>m, <2>1, <4>2
        <5>2. Agrees(i)
          BY <1>o, <2>3, <5>1, OthersAgree
        <5>3. QED
          BY <2>1, <5>1, <5>2 DEF Agrees
      <4>3. QED
        BY <4>1, <4>2
    <3>3. QED
      BY <3>1, <3>2
  <2>4. QED
    BY <2>1, <2>2, <2>3, ServeRuns
<1>5. CASE Updates(c)
  <2>1. PICK n \in NewObj(IdOf[o]), run \in BOOLEAN, on \in BOOLEAN :
       /\ on = TRUE
       /\ outputs' = [outputs EXCEPT ![IdOf[n]] = n]
       /\ StartObj([obj EXCEPT ![n] = FromBody(run, on)], n)
       /\ call' = [call EXCEPT ![c].at = "saving", ![c].obj = n]
       /\ raced' = IF Dying(IdOf[n]) THEN raced \cup {"dying"} ELSE raced
    BY <1>o, <1>5 DEF Updates
  <2>2. /\ n \in Objs /\ IdOf[n] = IdOf[o] /\ IdOf[n] \in Ids /\ \A i \in Ids : outputs[i] # n
        /\ call[c].op = "update" /\ call[c].at = "after" /\ o \in Objs /\ boot' = boot
    BY <1>o, <1>0, <1>5, FirstIn DEF NewObj, Updates, FreeObj
  <2> DEFINE objs == [obj EXCEPT ![n] = FromBody(run, on)]
  <2>3. /\ objs = [x \in Objs |-> objs[x]] /\ \A x \in Objs : ObjGood(objs[x])
        /\ \A x \in Objs : x # n => objs[x] = obj[x]
        /\ objs[n].target = FALSE /\ objs[n].stop = None
        /\ objs[n].run = run /\ objs[n].odd = (run # on)
    BY <1>0, <2>2, FromBodyGood
  <2>4. StartObj(objs, n)
    BY <2>1
  <2> HIDE DEF objs
  <2>5. /\ outputs'[IdOf[n]] = n
        /\ \A i \in Ids : i # IdOf[n] => outputs'[i] = outputs[i]
    BY <1>0, <2>1, <2>2
  <2>6. /\ \A x \in Objs : x # n => obj'[x].target = obj[x].target
        /\ obj'[n].target
    BY <2>2, <2>3, <2>4, StartTargets
  <2>7. \A x \in Objs : obj'[x].run = objs[x].run /\ obj'[x].odd = objs[x].odd
    BY <2>2, <2>3, <2>4, StartObjGood DEF TypeInv, RestGood
  <2>8. /\ call'[c].at = "saving" /\ call'[c].op = "update"
        /\ \A d \in Clients : d # c => call'[d] = call[d]
    BY <1>0, <2>1, <2>2 DEF TypeInv, CallsGood, CallRecs
  <2>9. ASSUME \A d \in Clients : d # c => call[d] = Idle,
               \A i \in Ids : Agrees(i) \/ Settling(outputs[i])
        PROVE  CallSets(c)' /\ \A i \in Ids : (Agrees(i) \/ Settling(outputs[i]))'
    <3>1. CallSets(c)'
      BY <2>8 DEF CallSets
    <3>2. ASSUME NEW i \in Ids PROVE Agrees(i)'
      <4>1. CASE i = IdOf[n]
        BY <2>1, <2>2, <2>3, <2>5, <2>6, <2>7, <4>1 DEF Agrees
      <4>2. CASE i # IdOf[n]
        <5>1. outputs[i] # o /\ outputs'[i] = outputs[i]
          BY <1>m, <2>2, <2>5, <4>2
        <5>2. Agrees(i)
          BY <1>o, <2>9, <5>1, OthersAgree
        <5>3. \A x \in Objs : outputs[i] = x =>
                obj'[x].run = obj[x].run /\ obj'[x].odd = obj[x].odd /\ obj'[x].target = obj[x].target
          BY <2>2, <2>3, <2>6, <2>7
        <5>4. QED
          BY <2>2, <5>1, <5>2, <5>3, AgreesKept
      <4>3. QED
        BY <4>1, <4>2
    <3>3. QED
      BY <3>1, <3>2
  <2>10. "calls" \in raced => "calls" \in raced'
    BY <2>1
  <2>11. QED
    BY <2>2, <2>8, <2>9, <2>10, ServeRuns
<1>6. CASE TakesNext(c)
  <2>1. PICK x \in call[c].todo :
       call' = [call EXCEPT ![c].todo = @ \ {x}, ![c].obj = x,
                            ![c].at = IF obj[x].target THEN "check" ELSE "next"]
    BY <1>6 DEF TakesNext
  <2>2. /\ call[c].at = "next" /\ UNCHANGED <<outputs, obj, boot, raced>>
        /\ call'[c].op = call[c].op /\ call'[c].obj = x
        /\ call'[c].at = IF obj[x].target THEN "check" ELSE "next"
        /\ \A d \in Clients : d # c => call'[d] = call[d]
    BY <1>o, <1>0, <1>6, <2>1 DEF TakesNext, TypeInv, CallsGood, CallRecs
  <2>3. ASSUME CallTrue(c), \A d \in Clients : d # c => call[d] = Idle,
               \A i \in Ids : Agrees(i) \/ Settling(outputs[i])
        PROVE  CallSets(c)' /\ \A i \in Ids : (Agrees(i) \/ Settling(outputs[i]))'
    <3>1. call[c].op \in {"restart", "shutdown"}
      BY <2>1, <2>3 DEF CallTrue, Reads
    <3>2. CallSets(c)'
      BY <2>2, <3>1 DEF CallSets
    <3>3. ASSUME NEW i \in Ids PROVE Agrees(i)'
      <4>1. Agrees(i)
        BY <2>2, <2>3, OthersAgree
      <4>2. QED
        BY <2>2, <4>1 DEF Agrees
    <3>4. QED
      BY <3>2, <3>3
  <2>4. QED
    BY <2>2, <2>3, ServeRuns
<1>7. CASE StartsAgain(c)
  <2>1. /\ call[c].at = "after" /\ o \in Objs /\ Goes(c, "next") /\ UNCHANGED <<outputs, boot>>
        /\ call[c].op \in {"restart", "shutdown"}
        /\ call[c].op = "restart" => StartObj(obj, o) /\ Overtaking(o)
        /\ call[c].op # "restart" => UNCHANGED raced
    BY <1>o, <1>0, <1>7 DEF StartsAgain, Reads
  <2>2. /\ call'[c].at = "next" /\ call'[c].op = call[c].op
        /\ \A d \in Clients : d # c => call'[d] = call[d]
    BY <2>1, CallWent
  <2>3. "calls" \in raced => "calls" \in raced'
    BY <2>1 DEF Overtaking
  <2>4. ASSUME call[c].op # "shutdown", CallTrue(c), CallSets(c),
               \A d \in Clients : d # c => call[d] = Idle,
               \A i \in Ids : Agrees(i) \/ Settling(outputs[i])
        PROVE  CallSets(c)' /\ \A i \in Ids : (Agrees(i) \/ Settling(outputs[i]))'
    <3>0. call[c].op = "restart" /\ StartObj(obj, o)
      BY <2>1, <2>4
    <3>1. /\ \A x \in Objs : x # o => obj'[x].target = obj[x].target
          /\ obj'[o].target
      BY <1>0, <2>1, <3>0, StartTargets
    <3>2. \A x \in Objs : obj'[x].run = obj[x].run /\ obj'[x].odd = obj[x].odd
      BY <1>0, <2>1, <3>0, StartObjGood DEF TypeInv, RestGood
    <3>3. obj[o].run \/ obj[o].odd \/ IdOf[o] \in boot
      BY <1>o, <2>1, <2>4, <3>0 DEF CallSets
    <3>4. CallSets(c)'
      BY <2>2 DEF CallSets
    <3>5. ASSUME NEW i \in Ids PROVE Agrees(i)'
      <4>1. CASE outputs[i] = o
        <5>1. IdOf[o] = i
          BY <1>m, <2>1, <4>1
        <5>2. QED
          BY <2>1, <3>1, <3>2, <3>3, <4>1, <5>1 DEF Agrees
      <4>2. CASE outputs[i] # o
        BY <1>1, <2>1, <2>4, <3>1, <3>2, <4>2
      <4>3. QED
        BY <4>1, <4>2
    <3>6. QED
      BY <3>4, <3>5
  <2>5. QED
    BY <2>1, <2>2, <2>3, <2>4, ServeRuns
<1>8. CASE ForAllEnds(c)
  <2>1. /\ call[c].at = "next" /\ call[c].op # "shutdown" /\ Returns(c)
        /\ UNCHANGED <<outputs, obj, boot, raced>>
    BY <1>8 DEF ForAllEnds
  <2>2. /\ \A d \in Clients : d # c => call'[d] = call[d]
        /\ call'[c] = Idle /\ call'[c].op # "shutdown"
    BY <2>1, CallReturned DEF Idle
  <2>3. ASSUME \A d \in Clients : d # c => call[d] = Idle,
               \A i \in Ids : Agrees(i) \/ Settling(outputs[i])
        PROVE  CallSets(c)' /\ \A i \in Ids : (Agrees(i) \/ Settling(outputs[i]))'
    <3>1. ASSUME NEW i \in Ids PROVE Agrees(i)'
      <4>1. Agrees(i)
        BY <2>1, <2>3, OthersAgree
      <4>2. QED
        BY <2>1, <4>1 DEF Agrees
    <3>2. QED
      BY <2>2, <3>1, IdleSets
  <2>4. QED
    BY <2>1, <2>2, <2>3, ServeRuns
<1>9. CASE StopChecks(c) \/ StopCloses(c) \/ StopEnds(c)
  <2>1. /\ call[c].at \in {"check", "close", "sleep"} /\ o \in Objs
        /\ UNCHANGED <<outputs, boot, raced>>
    BY <1>o, <1>0, <1>9 DEF StopChecks, StopCloses, StopEnds
  <2>2. /\ \A x \in Objs : obj'[x].run = obj[x].run /\ obj'[x].odd = obj[x].odd
        /\ \A x \in Objs : x # o => obj'[x].target = obj[x].target
        /\ call[c].at = "check" => ~obj'[o].target
        /\ call[c].at # "check" => obj'[o].target = obj[o].target
    BY <1>o, <1>0, <1>9, <2>1 DEF StopChecks, StopCloses, StopEnds, ObjGood, ObjRecs
  <2>3. \/ Returns(c) /\ call[c].op = "stop" /\ call[c].at \in {"check", "sleep"}
        \/ \E at \in {"close", "sleep", "after"} :
             Goes(c, at) /\ (call[c].op = "restart" /\ call[c].at = "check" => at = "close" \/ ~obj[o].target)
             /\ (call[c].op = "stop" => at \in {"close", "sleep"})
    BY <1>o, <1>9 DEF StopChecks, StopCloses, StopEnds
  <2>4. /\ \A d \in Clients : d # c => call'[d] = call[d]
        /\ call[c].op = "shutdown" => call'[c].op = "shutdown" /\ call'[c].at # "saving"
        /\ call[c].op # "shutdown" => call'[c].op # "shutdown"
    BY <2>3, CallWent, CallReturned DEF Idle
  <2>5. ASSUME CallTrue(c), CallSets(c), \A d \in Clients : d # c => call[d] = Idle,
               \A i \in Ids : Agrees(i) \/ Settling(outputs[i])
        PROVE  CallSets(c)' /\ \A i \in Ids : (Agrees(i) \/ Settling(outputs[i]))'
    <3>1. ASSUME NEW i \in Ids, outputs[i] # o PROVE Agrees(i)'
      BY <1>1, <2>1, <2>2, <2>5, <3>1
    <3>2. CASE Returns(c) /\ call[c].op = "stop" /\ call[c].at \in {"check", "sleep"}
      <4>1. CallSets(c)'
        BY <3>2, CallReturned, IdleSets
      <4>2. ~obj[o].run
        BY <1>o, <2>5, <3>2 DEF CallSets
      <4>3. ~obj'[o].target
        BY <1>o, <2>2, <2>5, <3>2 DEF CallTrue
      <4>4. ASSUME NEW i \in Ids, outputs[i] = o PROVE Agrees(i)'
        BY <2>1, <2>2, <4>2, <4>3, <4>4 DEF Agrees
      <4>5. QED
        BY <3>1, <4>1, <4>4
    <3>3. ASSUME NEW at \in {"close", "sleep", "after"}, Goes(c, at),
                 call[c].op = "restart" /\ call[c].at = "check" => at = "close" \/ ~obj[o].target,
                 call[c].op = "stop" => at \in {"close", "sleep"}
          PROVE  CallSets(c)' /\ \A i \in Ids : (Agrees(i) \/ Settling(outputs[i]))'
      <4>1. call'[c].at = at /\ call'[c].op = call[c].op /\ call'[c].obj = o
        BY <1>o, <3>3, CallWent
      <4>2. ASSUME NEW i \in Ids, outputs[i] = o PROVE Settling(outputs[i])'
        BY <2>1, <4>1, <4>2 DEF Settling
      <4>3. call[c].op = "restart" => obj[o].run \/ obj[o].odd \/ IdOf[o] \in boot
        <5>1. CASE call[c].op = "restart" /\ call[c].at = "check"
          <6>1. obj[o].target /\ outputs[IdOf[o]] = o /\ IdOf[o] \in Ids
            BY <1>o, <2>1, <2>5, <5>1 DEF CallSets, CallTrue
          <6>2. Agrees(IdOf[o])
            BY <2>5, <5>1, <6>1, OthersAgree
          <6>3. QED
            BY <2>1, <6>1, <6>2 DEF Agrees
        <5>2. CASE call[c].op = "restart" /\ call[c].at # "check"
          BY <1>o, <2>1, <2>5, <5>2 DEF CallSets
        <5>3. QED
          BY <5>1, <5>2
      <4>4. call[c].op = "stop" => ~obj[o].run
        BY <1>o, <2>1, <2>5 DEF CallSets
      <4>5. CallSets(c)'
        BY <2>1, <2>2, <3>3, <4>1, <4>3, <4>4 DEF CallSets
      <4>6. QED
        BY <3>1, <4>2, <4>5
    <3>4. QED
      BY <2>3, <3>2, <3>3
  <2>6. QED
    BY <2>1, <2>4, <2>5, ServeRuns
<1>10. QED
  BY <1>2, <1>3, <1>4, <1>5, <1>6, <1>7, <1>8, <1>9 DEF Serve

\* The program begins with everything at rest, ...
LEMMA InitRuns == Init => RInv
<1> SUFFICES ASSUME Init PROVE RInv
  OBVIOUS
<1>1. SInv
  BY InitOrderly
<1>2. \A c \in Clients : call[c] = Idle
  BY DEF Init
<1>3. EndSavesNot /\ \A c \in Clients : CallSets(c)
  BY <1>2 DEF EndSavesNot, CallSets, Idle
<1>4. ASSUME NEW i \in Ids PROVE Agrees(i)
  <2>1. CASE outputs[i] = None
    BY <2>1 DEF Agrees
  <2>2. CASE outputs[i] # None
    <3>1. outputs[i] \in Objs /\ IdOf[outputs[i]] = i
      BY <1>1, <2>2, Consts DEF SInv, TypeInv, RestGood, MapTrue, ObjOrNone
    <3>2. obj[outputs[i]].run = (Says(file, i) = "running") /\ obj[outputs[i]].target = FALSE
      BY <3>1 DEF Init, Loaded, NewOutput
    <3>3. i \notin boot => Says(file, i) # "running"
      BY OutputsAssumption DEF OutputsAssumption, Init, Says, Images
    <3>4. QED
      BY <3>2, <3>3 DEF Agrees
  <2>3. QED
    BY <2>1, <2>2
<1>5. QED
  BY <1>1, <1>3, <1>4 DEF RInv, RunTrue

\* ... and begins so again.
LEMMA RestartRuns == ASSUME RInv, Restarts, SInv' PROVE RInv'
<1>2. \A c \in Clients : call'[c] = Idle
  BY DEF Restarts
<1>3. EndSavesNot' /\ \A c \in Clients : CallSets(c)'
  BY <1>2, IdleSets DEF EndSavesNot, Idle
<1>4. ASSUME NEW i \in Ids PROVE Agrees(i)'
  <2>1. CASE outputs'[i] = None
    BY <2>1 DEF Agrees
  <2>2. CASE outputs'[i] # None
    <3>1. outputs'[i] \in Objs /\ IdOf[outputs'[i]] = i
      BY <2>2, Consts DEF SInv, TypeInv, RestGood, MapTrue, ObjOrNone
    <3>2. obj'[outputs'[i]].run = (Says(file, i) = "running") /\ obj'[outputs'[i]].target = FALSE
      BY <3>1 DEF Restarts, Loaded, NewOutput
    <3>3. i \notin boot' => Says(file, i) # "running"
      BY DEF Restarts
    <3>4. QED
      BY <3>2, <3>3 DEF Agrees
  <2>3. QED
    BY <2>1, <2>2
<1>5. QED
  BY <1>3, <1>4 DEF RInv, RunTrue

\* Every step keeps it.
LEMMA NextRuns == RInv /\ [Next]_vars => RInv'
<1> SUFFICES ASSUME RInv, [Next]_vars PROVE RInv'
  OBVIOUS
<1>1. SInv /\ SInv' /\ TypeInv
  BY NextOrderly DEF RInv, SInv
<1>2. CASE Restarts
  BY <1>1, <1>2, RestartRuns
<1>3. ASSUME NEW c \in Clients, Request(c) PROVE RInv'
  <2>1. ASSUME NEW op \in {"restart", "shutdown"}, ForAll(c, op), boot' = boot PROVE RInv'
    <3>1. PICK todo : todo = {outputs[i] : i \in Ids} \ {None}
      OBVIOUS
    <3>2. todo \in SUBSET Objs /\ None \in ObjOrNone /\ op \in Ops
      BY <1>1, <3>1 DEF TypeInv, RestGood, ObjOrNone, Ops
    <3>3. Begins(c, op, "next", None, todo) /\ UNCHANGED <<outputs, obj>>
      BY <2>1, <3>1 DEF ForAll
    <3>4. \A i \in Ids : Agrees(i) => Agrees(i)'
      BY <2>1, <3>3 DEF Agrees
    <3>5. QED
      BY <1>1, <3>2, <3>3, <3>4, RequestRuns
  <2>2. QED
    BY <1>1, <1>3, <2>1, RequestsRun DEF Request
<1>4. ASSUME NEW c \in Clients, Serve(c) PROVE RInv'
  BY <1>1, <1>2, <1>4, ServesRun
<1>5. ASSUME NEW c \in Clients, NEW i \in Ids, BootStarts(c, i) PROVE RInv'
  <2>1. CASE StartOutput(c, i)
    BY <1>1, <1>5, <2>1, RequestsRun DEF BootStarts
  <2>2. CASE outputs[i] = None /\ UNCHANGED <<outputs, obj, call, raced>>
    <3>1. \A j \in Ids : j \in boot => outputs[j] = None \/ j \in boot'
      BY <1>5, <2>2 DEF BootStarts
    <3>2. FieldsKept
      BY <2>2 DEF FieldsKept
    <3>3. QED
      BY <1>1, <2>2, <3>1, <3>2, RunKept
  <2>3. QED
    BY <1>5, <2>1, <2>2 DEF BootStarts
<1>6. ASSUME NEW k \in Loops,
             Manage(k) \/ WriterReads(k) \/ WriterLeaves(k) \/ ProcExits(k) \/ ProcFails(k)
      PROVE  RInv'
  <2>1. FieldsKept
    BY <1>1, <1>6, LoopStep, ProcStep
  <2>2. UNCHANGED <<outputs, call, boot, raced>>
    BY <1>6 DEF Manage, LoopChecks, LoopSpawns, LoopFails, LoopReaps, LoopResumes, LoopStopped,
                WriterReads, WriterLeaves, ProcExits, ProcFails
  <2>3. QED
    BY <1>1, <2>1, <2>2, RunKept
<1>7. CASE UNCHANGED vars
  BY <1>1, <1>7, RunKept DEF vars, FieldsKept
<1>8. QED
  BY <1>2, <1>3, <1>4, <1>5, <1>6, <1>7 DEF Next

\* Between calls that have not overlapped, a boot starts again what is to run and
\* nothing else, whatever FFmpeg does and wherever the program ended before, but
\* for an output that a body has set against what it does (saveConfig,
\* loadConfig, main's autostart; StartOutput, StopOutput, RestartAll).
THEOREM BootsRestore == Spec => []BootRestores
<1>1. Init => IInv
  BY InitTypes, InitSaved DEF IInv
<1>2. IInv /\ RInv => BootRestores
  <2> SUFFICES ASSUME IInv, RInv, Quiet, NEW i \in Ids
               PROVE  /\ Says(file, i) = "absent" <=> outputs[i] = None
                      /\ outputs[i] # None /\ i \notin boot /\ ~obj[outputs[i]].odd =>
                           (Says(file, i) = "running" <=> obj[outputs[i]].target)
    BY DEF BootRestores
  <2>1. \A c \in Clients : call[c].op = "none" /\ call[c].at = "idle"
    BY DEF Quiet, Idle
  <2>2. Agrees(i)
    BY <2>1 DEF RInv, RunTrue, Settling, Quiet
  <2>3. CASE file = Configs
    <3>1. file # Torn
      <4>1. Configs \in Images
        BY DEF Configs, Images
      <4>2. QED
        BY <2>3, <4>1, OutputsAssumption DEF OutputsAssumption, Images
    <3>2. Says(file, i) = Configs[i]
      BY <2>3, <3>1 DEF Says
    <3>3. QED
      BY <2>2, <3>2 DEF Configs, Agrees
  <2>4. CASE file = Torn /\ outputs[i] = None
    BY <2>4 DEF Says
  <2>5. QED
    BY <2>1, <2>3, <2>4 DEF IInv, FileTrue
<1>3. QED
  BY <1>1, <1>2, NextInv, InitRuns, NextRuns, PTL DEF Spec

-----------------------------------------------------------------------------
\* A process runs while its loop waits for it, ...
WaitedFor == \A k \in alive : loop[k].at = "wait"
\* ... and an id has one loop, until a call overtakes another or a loop.
OneLoop ==
  raced = {} =>
    \A j, k \in Loops :
      loop[j].obj \in Objs /\ loop[k].obj \in Objs /\ IdOf[loop[j].obj] = IdOf[loop[k].obj] => j = k
LInv == WaitedFor /\ OneLoop

\* Calls that start no loop keep it, ...
LEMMA LoopsKept ==
  ASSUME LInv, UNCHANGED loop, alive' \subseteq alive, raced \subseteq raced'
  PROVE  LInv'
BY DEF LInv, WaitedFor, OneLoop

\* ... a loop keeps its object or leaves it, ...
Moved(k) ==
  /\ loop'[k].obj \in {loop[k].obj, None} /\ (k \in alive' => loop'[k].at = "wait")
  /\ \A j \in Loops : j # k => loop'[j] = loop[j]
  /\ alive' \subseteq alive \cup {k} /\ UNCHANGED raced

LEMMA LoopMoved ==
  ASSUME LInv, TypeInv, NEW k \in Loops, Moved(k)
  PROVE  LInv'
<1>1. /\ loop'[k].obj \in {loop[k].obj, None} /\ (k \in alive' => loop'[k].at = "wait")
      /\ \A j \in Loops : j # k => loop'[j] = loop[j]
      /\ alive' \subseteq alive \cup {k} /\ UNCHANGED raced
  BY DEF Moved
<1>2. WaitedFor'
  BY <1>1 DEF LInv, WaitedFor, TypeInv, RestGood
<1>3. OneLoop'
  <2> SUFFICES ASSUME raced = {}, NEW i \in Loops, NEW j \in Loops,
                      loop'[i].obj \in Objs, loop'[j].obj \in Objs,
                      IdOf[loop'[i].obj] = IdOf[loop'[j].obj]
               PROVE  i = j
    BY <1>1 DEF OneLoop
  <2>1. ASSUME NEW m \in Loops, loop'[m].obj \in Objs PROVE loop'[m].obj = loop[m].obj
    BY <1>1, <2>1, Consts
  <2>2. QED
    BY <2>1 DEF LInv, OneLoop
<1>4. QED
  BY <1>2, <1>3 DEF LInv

\* ... and one that is started is the only one of its id, or counts as overtaking.
LEMMA LoopStarted ==
  ASSUME LInv, TypeInv, NEW o \in Objs, NEW objs, StartObj(objs, o),
         raced \subseteq raced', raced' = {} => objs[o].target \/ ~Dying(IdOf[o]),
         UNCHANGED alive
  PROVE  LInv'
<1>1. CASE objs[o].target
  BY <1>1, LoopsKept DEF StartObj
<1>2. CASE ~objs[o].target
  <2>1. PICK k \in First({j \in Loops : FreeLoop(j)}) :
          loop' = [loop EXCEPT ![k] = [at |-> "check", obj |-> o, on |-> None]]
    BY <1>2 DEF StartObj
  <2>2. k \in Loops /\ loop[k] = Off
    BY <2>1, FirstIn DEF FreeLoop
  <2>3. loop'[k].obj = o /\ \A j \in Loops : j # k => loop'[j] = loop[j]
    BY <2>1, <2>2 DEF TypeInv, LoopsGood
  <2>4. k \notin alive
    BY <2>2 DEF LInv, WaitedFor, Off
  <2>5. WaitedFor'
    BY <2>3, <2>4 DEF LInv, WaitedFor, TypeInv, RestGood
  <2>6. OneLoop'
    <3> SUFFICES ASSUME raced' = {}, NEW i \in Loops, NEW j \in Loops,
                        loop'[i].obj \in Objs, loop'[j].obj \in Objs,
                        IdOf[loop'[i].obj] = IdOf[loop'[j].obj]
                 PROVE  i = j
      BY DEF OneLoop
    <3>1. raced = {} /\ \A m \in Loops : ~(loop[m].obj \in Objs /\ IdOf[loop[m].obj] = IdOf[o])
      BY <1>2 DEF Dying
    <3>2. QED
      BY <2>3, <3>1 DEF LInv, OneLoop
  <2>7. QED
    BY <2>5, <2>6 DEF LInv
<1>3. QED
  BY <1>1, <1>2

\* The goroutines of an output.
LEMMA LoopsOneEach ==
  ASSUME LInv, TypeInv, NEW k \in Loops,
         Manage(k) \/ WriterReads(k) \/ WriterLeaves(k) \/ ProcExits(k) \/ ProcFails(k)
  PROVE  LInv'
<1>1. loop[k].at # "wait" => k \notin alive
  BY DEF LInv, WaitedFor
<1>2. CASE LoopChecks(k)
  <2> DEFINE r == IF obj[loop[k].obj].target
                   THEN [at |-> "spawn", obj |-> loop[k].obj, on |-> None] ELSE Off
  <2>1. r.obj \in {loop[k].obj, None}
    BY DEF Off
  <2>2. loop' = [loop EXCEPT ![k] = r] /\ UNCHANGED <<alive, raced>> /\ k \notin alive
    BY <1>1, <1>2 DEF LoopChecks
  <2> HIDE DEF r
  <2>3. /\ loop'[k] = r /\ (\A j \in Loops : j # k => loop'[j] = loop[j])
        /\ alive' \subseteq alive \cup {k} /\ UNCHANGED raced /\ (k \in alive' => r.at = "wait")
    BY <2>1, <2>2 DEF TypeInv, LoopsGood
  <2>4. QED
    BY <2>1, <2>3, LoopMoved DEF Moved
<1>3. CASE LoopSpawns(k)
  <2> DEFINE r == [loop[k] EXCEPT !.at = "wait"]
  <2>1. r.obj \in {loop[k].obj, None} /\ r.at = "wait"
    BY DEF TypeInv, LoopsGood, LoopGood, LoopRecs
  <2>2. loop' = [loop EXCEPT ![k] = r] /\ alive' = alive \cup {k} /\ UNCHANGED raced
    BY <1>3 DEF LoopSpawns
  <2> HIDE DEF r
  <2>3. /\ loop'[k] = r /\ (\A j \in Loops : j # k => loop'[j] = loop[j])
        /\ alive' \subseteq alive \cup {k} /\ UNCHANGED raced /\ (k \in alive' => r.at = "wait")
    BY <2>1, <2>2 DEF TypeInv, LoopsGood
  <2>4. QED
    BY <2>1, <2>3, LoopMoved DEF Moved
<1>4. ASSUME GoesOn(k), k \notin alive, UNCHANGED <<alive, raced>> PROVE LInv'
  <2> DEFINE r == IF obj[loop[k].obj].target
                   THEN [at |-> "pause", obj |-> loop[k].obj, on |-> obj[loop[k].obj].stop] ELSE Off
  <2>1. r.obj \in {loop[k].obj, None}
    BY DEF Off
  <2>2. loop' = [loop EXCEPT ![k] = r]
    BY <1>4 DEF GoesOn
  <2> HIDE DEF r
  <2>3. /\ loop'[k] = r /\ (\A j \in Loops : j # k => loop'[j] = loop[j])
        /\ alive' \subseteq alive \cup {k} /\ UNCHANGED raced /\ (k \in alive' => r.at = "wait")
    BY <1>4, <2>2 DEF TypeInv, LoopsGood
  <2>4. QED
    BY <2>1, <2>3, LoopMoved DEF Moved
<1>5. CASE LoopFails(k) \/ LoopReaps(k)
  BY <1>1, <1>4, <1>5 DEF LoopFails, LoopReaps
<1>6. CASE LoopResumes(k)
  <2> DEFINE r == [loop[k] EXCEPT !.at = "check", !.on = None]
  <2>1. r.obj \in {loop[k].obj, None}
    BY DEF TypeInv, LoopsGood, LoopGood, LoopRecs
  <2>2. loop' = [loop EXCEPT ![k] = r] /\ UNCHANGED <<alive, raced>> /\ k \notin alive
    BY <1>1, <1>6 DEF LoopResumes
  <2> HIDE DEF r
  <2>3. /\ loop'[k] = r /\ (\A j \in Loops : j # k => loop'[j] = loop[j])
        /\ alive' \subseteq alive \cup {k} /\ UNCHANGED raced /\ (k \in alive' => r.at = "wait")
    BY <2>1, <2>2 DEF TypeInv, LoopsGood
  <2>4. QED
    BY <2>1, <2>3, LoopMoved DEF Moved
<1>7. CASE LoopStopped(k)
  <2>1. loop' = [loop EXCEPT ![k] = Off] /\ UNCHANGED <<alive, raced>> /\ k \notin alive
    BY <1>1, <1>7 DEF LoopStopped
  <2>2. Off.obj \in {loop[k].obj, None}
    BY DEF Off
  <2>3. /\ loop'[k] = Off /\ (\A j \in Loops : j # k => loop'[j] = loop[j])
        /\ alive' \subseteq alive \cup {k} /\ UNCHANGED raced /\ (k \in alive' => Off.at = "wait")
    BY <2>1 DEF TypeInv, LoopsGood
  <2>4. QED
    BY <2>2, <2>3, LoopMoved DEF Moved
<1>8. CASE WriterReads(k) \/ WriterLeaves(k) \/ ProcExits(k) \/ ProcFails(k)
  BY <1>8, LoopsKept DEF WriterReads, WriterLeaves, ProcExits, ProcFails
<1>9. QED
  BY <1>2, <1>3, <1>5, <1>6, <1>7, <1>8 DEF Manage

\* A call that begins starts no loop.
LEMMA RequestsOneEach ==
  ASSUME LInv, NEW c \in Clients,
         Request(c) \/ \E i \in Ids : BootStarts(c, i)
  PROVE  LInv'
<1>1. ASSUME NEW op, NEW at, NEW o, NEW todo, Begins(c, op, at, o, todo)
      PROVE  raced \subseteq raced'
  BY <1>1 DEF Begins
<1>2. UNCHANGED <<loop, alive>> /\ raced \subseteq raced'
  <2>1. ASSUME NEW i \in Ids, StartOutput(c, i) \/ StopOutput(c, i) \/ AddOutput(c, i)
      PROVE UNCHANGED <<loop, alive>> /\ raced \subseteq raced'
    BY <1>1, <2>1 DEF StartOutput, StopOutput, AddOutput, procs
  <2>2. ASSUME NEW i \in Ids, RemoveOutput(c, i) \/ UpdateOutput(c, i) \/ MoveOverlay(c, i)
      PROVE UNCHANGED <<loop, alive>> /\ raced \subseteq raced'
    BY <1>1, <2>2 DEF RemoveOutput, UpdateOutput, MoveOverlay, procs
  <2>3. ASSUME NEW op, ForAll(c, op)
      PROVE UNCHANGED <<loop, alive>> /\ raced \subseteq raced'
    BY <1>1, <2>3 DEF ForAll, procs
  <2>4. QED
    BY <2>1, <2>2, <2>3 DEF Request, BootStarts, procs
<1>3. QED
  BY <1>2, LoopsKept

\* A program that starts again has no loop.
LEMMA NoLoops ==
  ASSUME Restarts PROVE LInv'
<1>1. loop' = [k \in Loops |-> Off] /\ alive' = {}
  BY DEF Restarts
<1>2. \A k \in Loops : loop'[k].obj = None
  BY <1>1 DEF Off
<1>3. QED
  BY <1>1, <1>2, Consts DEF LInv, WaitedFor, OneLoop

\* Starts are the only steps of a call that make one.
LEMMA CallsOneEach ==
  ASSUME LInv, TypeInv, TypeInv', NEW c \in Clients, Serve(c)
  PROVE  LInv'
<1>1. call[c].at \notin {"idle", "next"} => call[c].obj \in Objs
  BY DEF TypeInv, CallsGood, CallGood
<1>2. CASE StartsNow(c)
  <2>1. call[c].obj \in Objs
    BY <1>1, <1>2 DEF StartsNow
  <2>2. /\ StartObj(obj, call[c].obj) /\ UNCHANGED alive /\ raced \subseteq raced'
        /\ raced' = {} => obj[call[c].obj].target \/ ~Dying(IdOf[call[c].obj])
    BY <1>2 DEF StartsNow, Overtaking
  <2>3. QED
    BY <2>1, <2>2, LoopStarted
<1>3. CASE StartsAgain(c)
  <2>1. call[c].obj \in Objs
    BY <1>1, <1>3 DEF StartsAgain
  <2>2. CASE call[c].op = "restart"
    <3>1. /\ StartObj(obj, call[c].obj) /\ UNCHANGED alive /\ raced \subseteq raced'
          /\ raced' = {} => obj[call[c].obj].target \/ ~Dying(IdOf[call[c].obj])
      BY <1>3, <2>2 DEF StartsAgain, Overtaking
    <3>2. QED
      BY <2>1, <3>1, LoopStarted
  <2>3. CASE call[c].op # "restart"
    BY <1>3, <2>3, LoopsKept DEF StartsAgain
  <2>4. QED
    BY <2>2, <2>3
<1>4. CASE Updates(c)
  <2>1. call[c].obj \in Objs
    BY <1>1, <1>4 DEF Updates
  <2>2. PICK o \in NewObj(IdOf[call[c].obj]), r \in BOOLEAN, on \in BOOLEAN :
          /\ StartObj([obj EXCEPT ![o] = FromBody(r, on)], o)
          /\ raced' = IF Dying(IdOf[o]) THEN raced \cup {"dying"} ELSE raced
    BY <1>4 DEF Updates
  <2>3. o \in Objs
    BY <2>2, FirstIn DEF NewObj
  <2> DEFINE objs == [obj EXCEPT ![o] = FromBody(r, on)]
  <2>4. raced \subseteq raced' /\ (raced' = {} => objs[o].target \/ ~Dying(IdOf[o]))
    BY <2>2
  <2> HIDE DEF objs
  <2>5. StartObj(objs, o) /\ UNCHANGED alive
    BY <1>4, <2>2 DEF objs, Updates
  <2>6. QED
    BY <2>3, <2>4, <2>5, LoopStarted
<1>5. CASE ForAllEnds(c)
  <2>1. CASE Restarts
    BY <2>1, NoLoops
  <2>2. CASE ~Restarts
    BY <1>5, <2>2, LoopsKept DEF ForAllEnds, procs
  <2>3. QED
    BY <2>1, <2>2
<1>6. CASE Saved(c) \/ Removes(c) \/ TakesNext(c) \/ StopChecks(c) \/ StopCloses(c) \/ StopEnds(c)
  BY <1>6, LoopsKept DEF Saved, Removes, TakesNext, StopChecks, StopCloses, StopEnds, procs
<1>7. QED
  BY <1>2, <1>3, <1>4, <1>5, <1>6 DEF Serve

\* Every step keeps to one loop for an id.
LEMMA NextOneLoop == TypeInv /\ LInv /\ [Next]_vars => LInv'
<1> SUFFICES ASSUME TypeInv, LInv, [Next]_vars PROVE LInv'
  OBVIOUS
<1>1. TypeInv'
  BY TypeStep
<1>2. CASE UNCHANGED vars
  BY <1>2, LoopsKept DEF vars, procs
<1>3. QED
  BY <1>1, <1>2, NoLoops, RequestsOneEach, CallsOneEach, LoopsOneEach DEF Next

\* One loop for an id is one process at most.
LEMMA OneLoopOneProcess == TypeInv /\ LInv => OneProcess
<1> SUFFICES ASSUME TypeInv, LInv, raced = {}, NEW i \in Ids
             PROVE  Cardinality(Processes(i)) <= 1
  BY DEF OneProcess
<1>1. ASSUME NEW j \in Processes(i), NEW k \in Processes(i) PROVE j = k
  <2>1. j \in Loops /\ k \in Loops /\ loop[j].at = "wait" /\ loop[k].at = "wait"
    BY DEF Processes, TypeInv, RestGood, LInv, WaitedFor
  <2>2. loop[j].obj \in Objs /\ loop[k].obj \in Objs
    BY <2>1 DEF TypeInv, LoopsGood, LoopGood
  <2>3. QED
    BY <2>1, <2>2 DEF Processes, LInv, OneLoop
<1>2. Processes(i) = {} \/ \E k : Processes(i) = {k}
  BY <1>1
<1>3. QED
  BY <1>2, FS_EmptySet, FS_Singleton

\* As long as no call overtakes another or a loop that is still dying, an id has
\* one FFmpeg at most, whatever fails and however the program ends and starts
\* again (managerLoop, runProcess, Output.Stop).
THEOREM ProcessesOneEach == Spec => []OneProcess
<1>1. Init => LInv
  <2> SUFFICES ASSUME Init PROVE LInv
    OBVIOUS
  <2>1. alive = {} /\ \A k \in Loops : loop[k].obj = None
    BY DEF Init, Off
  <2>2. QED
    BY <2>1, Consts DEF LInv, WaitedFor, OneLoop
<1>2. QED
  BY <1>1, InitTypes, TypeStep, NextOneLoop, OneLoopOneProcess, PTL DEF Spec
=============================================================================
