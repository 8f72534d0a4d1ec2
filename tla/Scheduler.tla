----------------------------- MODULE Scheduler -----------------------------
(***************************************************************************)
(* scheduler.go.  Once a second check copies the list of schedules and the *)
(* time, fires the ones that are due, and marks each as fired under the    *)
(* lock, where the list has the same id at the same place; the requests of *)
(* the API edit the list between any two of these steps.                   *)
(*                                                                         *)
(* Time is in seconds, with short minutes and days: a schedule is due in   *)
(* the first Window seconds of its minute, every Day seconds, or of its    *)
(* date; it is not fired within a Minute of the last time.  A schedule for *)
(* one day of the week is one with a longer Day.                           *)
(*                                                                         *)
(* runs and raced are history variables: when each schedule fired last as  *)
(* it is now, whether that spent it and whether it was once too often; and *)
(* which schedules were on a list edited during a pass, were cut off from  *)
(* their mark by the end of the program, or shared their id.               *)
(***************************************************************************)
EXTENDS Events, Integers, Sequences, SequencesExt

CONSTANTS
  ScheduleIds,
  Window,      \* 2 s
  Minute,      \* 60 s
  Day,         \* 24 h
  Starts,      \* the minutes of the day schedules are given, by their first second
  Dates,       \* the dates schedules are given, none a start of a minute
  LastFired,   \* the values of last_fired that clients make up
  MaxTime      \* bound on the clock
ASSUME SchedulerAssumption ==
  /\ {Window, Minute, Day, MaxTime} \subseteq Nat \ {0}
  /\ Window < Minute /\ Minute < Day
  /\ ScheduleIds # {}
  /\ Starts \subseteq {t \in 0..Day - 1 : t % Minute = 0}
  /\ Dates \subseteq {t \in 0..MaxTime : t % Minute # 0}
  /\ LastFired \subseteq 0..MaxTime

VARIABLES
  now,         \* the time
  schedules,   \* s.schedules
  pass,        \* check: where it is, its copy, the entry it is at
  runs,
  raced

schedulerVars == <<schedules, pass, runs, raced>>

Never == -1
Times == 0..MaxTime
Schedules == [id: ScheduleIds, at: Starts \cup Dates, dated: BOOLEAN, once: BOOLEAN,
              enabled: BOOLEAN, last: Times \cup {Never}]
Runs == [last: Times \cup {Never}, spent: BOOLEAN, again: BOOLEAN]
Idle == [at |-> "idle", copy |-> <<>>, i |-> 0]

SchedulerTypeOK ==
  /\ now \in Times
  /\ schedules \in Seq(Schedules)
  /\ \A i, j \in DOMAIN schedules :
       schedules[i].id = schedules[j].id => i = j \/ schedules[i].id \in raced
  /\ pass.at \in {"idle", "looks", "marks"}
  /\ pass.i \in 0..Len(pass.copy)
  /\ runs \in [ScheduleIds -> Runs]
  /\ raced \subseteq ScheduleIds

\* The schedules of an id that fired last at one of these times.
Bodies(id, lasts) ==
  {[id |-> id, at |-> t, dated |-> t \in Dates, once |-> o, enabled |-> TRUE, last |-> l] :
     t \in Starts \cup Dates, o \in BOOLEAN, l \in lasts}
\* The body of a request says as well when its schedule fired last: never, at a
\* time that a client made up, or at one that it has read of the list.
NewSchedules(id) ==
  Bodies(id, {Never} \cup LastFired \cup {schedules[i].last : i \in DOMAIN schedules})

\* What loadConfig finds: no file, or a schedule.  Ids are alike: any will do.
SavedSchedules ==
  {<<>>} \cup {<<s>> : s \in Bodies(CHOOSE id \in ScheduleIds : TRUE, {Never})}

\* Not fired yet, as it is now.
NoRun == [last |-> Never, spent |-> FALSE, again |-> FALSE]

SchedulerInit ==
  /\ now = 0
  /\ schedules \in SavedSchedules
  /\ pass = Idle
  /\ runs = [id \in ScheduleIds |-> NoRun]
  /\ raced = {}

-----------------------------------------------------------------------------
\* shouldFire: the second of its date or of its day that a time is in ...
Since(s, t) == IF s.dated THEN t - s.at ELSE (t - s.at) % Day
DueAt(s, t) == Since(s, t) \in 0..Window - 1
\* ... and firedRecently.
FiredRecently_Day(s, t) == s.last # Never /\ t - s.last <= Day
FiredRecently(s, t) == s.last # Never /\ t - s.last < Minute
ShouldFire(s, t) == s.enabled /\ DueAt(s, t) /\ ~FiredRecently(s, t)

\* When the occurrence began that t is in.
Began(s, t) == t - Since(s, t)

\* fire starts the switch in a goroutine, which changes nothing here.
Fired(s, t) ==
  runs' = [runs EXCEPT ![s.id] =
    [last |-> t, spent |-> s.once,
     again |-> @.again \/ @.spent \/ (@.last # Never /\ @.last >= Began(s, t))]]

\* check: the copy, ...
CheckBegins ==
  /\ pass.at = "idle"
  /\ pass' = [at |-> "looks", copy |-> schedules, i |-> 0]
  /\ UNCHANGED <<now, schedules, runs, raced, events>>
\* ... an entry that is due, ...
CheckFires ==
  /\ pass.at = "looks"
  /\ \E i \in pass.i + 1..Len(pass.copy) :
       /\ ShouldFire(pass.copy[i], now)
       /\ \A j \in pass.i + 1..i - 1 : ~ShouldFire(pass.copy[j], now)
       /\ Fired(pass.copy[i], now)
       /\ pass' = [pass EXCEPT !.at = "marks", !.i = i]
  /\ UNCHANGED <<now, schedules, raced, events>>
\* ... its mark, ...
CheckMarks_Lost ==
  /\ pass.at = "marks"
  /\ LET s == pass.copy[pass.i] IN
       schedules' = [i \in DOMAIN schedules |->
         IF i = pass.i /\ schedules[i].id = s.id
           THEN [schedules[i] EXCEPT !.last = IF s.once THEN now ELSE @,
                                     !.enabled = @ /\ ~s.once]
           ELSE schedules[i]]
  /\ pass' = [pass EXCEPT !.at = "looks"]
  /\ UNCHANGED <<now, runs, raced, events>>
CheckMarks ==
  /\ pass.at = "marks"
  /\ LET s == pass.copy[pass.i] IN
       schedules' = [i \in DOMAIN schedules |->
         IF i = pass.i /\ schedules[i].id = s.id
           THEN [schedules[i] EXCEPT !.last = now, !.enabled = @ /\ ~s.once]
           ELSE schedules[i]]
  /\ pass' = [pass EXCEPT !.at = "looks"]
  /\ UNCHANGED <<now, runs, raced, events>>
\* ... and the end of the list.
CheckEnds ==
  /\ pass.at = "looks"
  /\ \A j \in pass.i + 1..Len(pass.copy) : ~ShouldFire(pass.copy[j], now)
  /\ pass' = Idle
  /\ UNCHANGED <<now, schedules, runs, raced, events>>

-----------------------------------------------------------------------------
Has(id) == \E i \in DOMAIN schedules : schedules[i].id = id
\* The requests act on the first schedule of an id.
First(i, id) == schedules[i].id = id /\ \A j \in 1..i - 1 : schedules[j].id # id
\* An edit makes another schedule of the one it touches; one of the list while
\* a pass goes through it races with its marks.
Anew(ids) == runs' = [id \in ScheduleIds |-> IF id \in ids THEN NoRun ELSE runs[id]]
Crosses(more) ==
  raced' = raced \cup more \cup
           (IF pass.at = "idle" THEN {} ELSE {pass.copy[i].id : i \in DOMAIN pass.copy})

\* AddSchedule, which does not look for the id, ...
AddSchedule(s) ==
  /\ Event
  /\ schedules' = Append(schedules, s)
  /\ Anew({s.id}) /\ Crosses(IF Has(s.id) THEN {s.id} ELSE {})
  /\ UNCHANGED <<now, pass>>
\* ... UpdateSchedule, RemoveSchedule and ToggleSchedule.
UpdateSchedule(s) ==
  /\ Event
  /\ \E i \in DOMAIN schedules : First(i, s.id) /\ schedules' = [schedules EXCEPT ![i] = s]
  /\ Anew({s.id}) /\ Crosses({})
  /\ UNCHANGED <<now, pass>>
RemoveSchedule(id) ==
  /\ Event
  /\ \E i \in DOMAIN schedules : First(i, id) /\ schedules' = RemoveAt(schedules, i)
  /\ Anew({id}) /\ Crosses({})
  /\ UNCHANGED <<now, pass>>
ToggleSchedule(id, on) ==
  /\ Event
  /\ \E i \in DOMAIN schedules :
       First(i, id) /\ schedules' = [schedules EXCEPT ![i].enabled = on]
  /\ Crosses({})
  /\ runs' = [runs EXCEPT ![id].spent = FALSE]
  /\ UNCHANGED <<now, pass>>

\* The program ends and is started again with the list it saved last: a firing
\* it has not marked is forgotten.
SchedulerRestart ==
  /\ Event
  /\ pass' = Idle
  /\ raced' = IF pass.at = "marks" THEN raced \cup {pass.copy[pass.i].id} ELSE raced
  /\ UNCHANGED <<now, schedules, runs>>

Check == CheckBegins \/ CheckFires \/ CheckMarks \/ CheckEnds
ScheduleRequests ==
  \/ \E id \in ScheduleIds :
       \/ \E s \in NewSchedules(id) : AddSchedule(s) \/ UpdateSchedule(s)
       \/ RemoveSchedule(id)
       \/ \E on \in BOOLEAN : ToggleSchedule(id, on)

\* A pass looks at the clock when it begins: the time a slow one takes can as
\* well pass when it has ended.
SchedulerTick ==
  /\ pass.at = "idle" /\ now < MaxTime /\ now' = now + 1
  /\ UNCHANGED <<schedulerVars, events>>

SchedulerNext == Check \/ ScheduleRequests \/ SchedulerRestart \/ SchedulerTick

-----------------------------------------------------------------------------
\* A schedule that shares its id with no other fires once in each of its
\* minutes, or once at all when it is "once": the copy a pass works on, its mark
\* and the second check of the window agree, unless the list is edited during
\* the pass (scheduler.go:94) or the program ends before the mark is saved.
FiresOnce == \A id \in ScheduleIds \ raced : ~runs[id].again

\* firedRecently holds a schedule back for a firing that is not its own as it is
\* now: the last_fired its body brought.
HeldBack(s) == runs[s.id].last = Never /\ s.last # Never /\ now - s.last < Minute

\* An enabled schedule is not passed over by the last check of its window: what
\* firedRecently holds back has fired in the same minute.  This is not so when a
\* request stored a last_fired less than a minute old, as an edit does that moves
\* a schedule which has just fired: that one is missed.
NotMissed ==
  [][CheckEnds =>
       \A i \in DOMAIN pass.copy :
         LET s == pass.copy[i] IN
           s.enabled /\ Since(s, now) = Window - 1 /\ s.id \notin raced =>
             runs[s.id].last >= Began(s, now) \/ HeldBack(s)]_schedulerVars
=============================================================================
