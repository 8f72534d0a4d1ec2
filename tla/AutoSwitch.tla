----------------------------- MODULE AutoSwitch -----------------------------
(***************************************************************************)
(* autoswitch.go.  Once a second evaluate copies the rules and, for each   *)
(* that is enabled, follows with a tracker how long its condition has      *)
(* held; a rule whose condition held for its duration fires, and its       *)
(* tracker starts again.  The API edits the rules between any two of these *)
(* steps, and the trackers are kept by id, whatever becomes of the rule.   *)
(*                                                                         *)
(* Time is relative: a tracker has an age in seconds, counted up to        *)
(* MaxDuration.  held, touched and shared are history variables: for how   *)
(* long the evaluations of a rule as it is now have all found its          *)
(* condition, since it fired last; which rules may have a tracker that an  *)
(* earlier form of the rule, or its time before a toggle, left; and which  *)
(* ids two rules have had, and with it one tracker for both.               *)
(***************************************************************************)
EXTENDS Events, Integers, Sequences, SequencesExt

CONSTANTS
  RuleIds,
  Triggers,     \* of "srt_timeout", "srt_return", "bitrate_drop", "silence"
  Durations,    \* the values of duration_s
  MaxDuration   \* bound on the ages
ASSUME AutoSwitchAssumption ==
  /\ RuleIds # {}
  /\ MaxDuration \in Nat \ {0} /\ Durations \subseteq 0..MaxDuration
  /\ Triggers \subseteq {"srt_timeout", "srt_return", "bitrate_drop", "silence"}

VARIABLES
  rules,      \* ase.rules
  trackers,   \* ase.trackers: [met, age] by id
  world,      \* the triggers whose condition the providers report
  eval,       \* evaluate: where it is, its copy, the rule it is at
  held,
  touched,
  shared

autoVars == <<rules, trackers, world, eval, held, touched, shared>>

NotHeld == -1
Rules == [id: RuleIds, trigger: Triggers, dur: Durations, enabled: BOOLEAN]
NewRules(id) == [id: {id}, trigger: Triggers, dur: Durations, enabled: {TRUE}]
\* The SRT input is active or it is not.
Worlds == {w \in SUBSET Triggers : {"srt_timeout", "srt_return"} \subseteq Triggers =>
                                     ("srt_timeout" \in w) # ("srt_return" \in w)}
NotMet == [met |-> FALSE, age |-> 0]
NoTrackers == [id \in {} |-> NotMet]
Rests == [at |-> "rests", copy |-> <<>>, i |-> 0]

AutoTypeOK ==
  /\ rules \in Seq(Rules)
  /\ \A i, j \in DOMAIN rules : rules[i].id = rules[j].id => i = j \/ rules[i].id \in shared
  /\ DOMAIN trackers \subseteq RuleIds
  /\ \A id \in DOMAIN trackers : trackers[id] \in [met: BOOLEAN, age: 0..MaxDuration]
  /\ world \in Worlds
  /\ eval.at \in {"rests", "looks", "fires"} /\ eval.i \in 0..Len(eval.copy)
  /\ eval.at = "fires" => eval.i > 0 /\ eval.copy[eval.i].enabled
  /\ held \in [RuleIds -> NotHeld..MaxDuration] /\ touched \subseteq RuleIds
  /\ shared \subseteq RuleIds

\* loadConfig finds no file, or a rule.  Ids are alike: any will do.
AutoInit ==
  /\ rules \in {<<>>} \cup {<<r>> : r \in NewRules(CHOOSE id \in RuleIds : TRUE)}
  /\ trackers = NoTrackers
  /\ world \in Worlds
  /\ eval = Rests
  /\ held = [id \in RuleIds |-> NotHeld]
  /\ touched = {} /\ shared = {}

-----------------------------------------------------------------------------
\* evaluate: the copy, ...
EvalBegins ==
  /\ eval.at = "rests"
  /\ eval' = [at |-> "looks", copy |-> rules, i |-> 0]
  /\ UNCHANGED <<rules, trackers, world, held, touched, shared, events>>

\* ... for the next enabled rule ...
NextRule_Any(i) ==
  eval.at = "looks" /\ i = eval.i + 1 /\ i <= Len(eval.copy)
NextRule(i) ==
  /\ eval.at = "looks" /\ i \in eval.i + 1..Len(eval.copy)
  /\ eval.copy[i].enabled
  /\ \A j \in eval.i + 1..i - 1 : ~eval.copy[j].enabled

Required(r) == IF r.dur = 0 THEN 1 ELSE r.dur
Tracker(id) == IF id \in DOMAIN trackers THEN trackers[id] ELSE NotMet
SetTracker(id, tr) ==
  trackers' = [x \in DOMAIN trackers \cup {id} |-> IF x = id THEN tr ELSE trackers[x]]
IsCurrent(r) == \E i \in DOMAIN rules : rules[i] = r

\* ... checkTrigger, with the condition met ...
TriggerMet_Restarts(i) ==
  /\ NextRule(i)
  /\ LET r == eval.copy[i] IN
       /\ r.trigger \in world
       /\ SetTracker(r.id, [met |-> TRUE, age |-> 0])
       /\ eval' = [eval EXCEPT !.i = i, !.at = "looks"]
       /\ held' = [held EXCEPT ![r.id] = IF IsCurrent(r) /\ @ = NotHeld THEN 0 ELSE @]
  /\ UNCHANGED <<rules, world, touched, shared, events>>
TriggerMet(i) ==
  /\ NextRule(i)
  /\ LET r == eval.copy[i]
         tr == IF Tracker(r.id).met THEN Tracker(r.id) ELSE [met |-> TRUE, age |-> 0] IN
       /\ r.trigger \in world
       /\ SetTracker(r.id, tr)
       /\ eval' = [eval EXCEPT !.i = i, !.at = IF tr.age >= Required(r) THEN "fires" ELSE "looks"]
       /\ held' = [held EXCEPT ![r.id] = IF IsCurrent(r) /\ @ = NotHeld THEN 0 ELSE @]
  /\ UNCHANGED <<rules, world, touched, shared, events>>
\* ... or not ...
TriggerNotMet_Kept(i) ==
  /\ NextRule(i)
  /\ LET r == eval.copy[i] IN
       /\ r.trigger \notin world
       /\ SetTracker(r.id, Tracker(r.id))
       /\ held' = [held EXCEPT ![r.id] = NotHeld]
       /\ touched' = IF IsCurrent(r) THEN touched \ {r.id} ELSE touched
  /\ eval' = [eval EXCEPT !.i = i]
  /\ UNCHANGED <<rules, world, shared, events>>
TriggerNotMet(i) ==
  /\ NextRule(i)
  /\ LET r == eval.copy[i] IN
       /\ r.trigger \notin world
       /\ SetTracker(r.id, NotMet)
       /\ held' = [held EXCEPT ![r.id] = NotHeld]
       /\ touched' = IF IsCurrent(r) THEN touched \ {r.id} ELSE touched
  /\ eval' = [eval EXCEPT !.i = i]
  /\ UNCHANGED <<rules, world, shared, events>>

\* ... and fireRule, whose switch is a goroutine that changes nothing here.
FireRule ==
  /\ eval.at = "fires"
  /\ LET r == eval.copy[eval.i] IN
       /\ trackers' = [x \in DOMAIN trackers |-> IF x = r.id THEN NotMet ELSE trackers[x]]
       /\ held' = [held EXCEPT ![r.id] = NotHeld]
       /\ touched' = IF IsCurrent(r) THEN touched \ {r.id} ELSE touched
  /\ eval' = [eval EXCEPT !.at = "looks"]
  /\ UNCHANGED <<rules, world, shared, events>>

EvalEnds ==
  /\ eval.at = "looks"
  /\ \A j \in eval.i + 1..Len(eval.copy) : ~eval.copy[j].enabled
  /\ eval' = Rests
  /\ UNCHANGED <<rules, trackers, world, held, touched, shared, events>>

Evaluate ==
  \/ EvalBegins \/ FireRule \/ EvalEnds
  \/ \E i \in DOMAIN eval.copy : TriggerMet(i) \/ TriggerNotMet(i)

-----------------------------------------------------------------------------
HasRule(id) == \E i \in DOMAIN rules : rules[i].id = id
\* The requests act on the first rule of an id.
FirstRule(i, id) == rules[i].id = id /\ \A j \in 1..i - 1 : rules[j].id # id
\* The pass has the rule on its copy and has not left it behind.
InPass(id) == \E i \in DOMAIN eval.copy :
  eval.copy[i].id = id /\ (i > eval.i \/ (i = eval.i /\ eval.at = "fires"))

\* AddRule, which does not look for the id, ...
AddRule(r) ==
  /\ Event
  /\ rules' = Append(rules, r)
  /\ shared' = IF HasRule(r.id) THEN shared \cup {r.id} ELSE shared
  /\ UNCHANGED <<trackers, world, eval, held, touched>>
\* ... UpdateRule and ToggleRule, which keep the tracker, ...
UpdateRule(r) ==
  /\ Event
  /\ \E i \in DOMAIN rules : FirstRule(i, r.id) /\ rules' = [rules EXCEPT ![i] = r]
  /\ held' = [held EXCEPT ![r.id] = NotHeld]
  /\ touched' = touched \cup {r.id}
  /\ UNCHANGED <<trackers, world, eval, shared>>
ToggleRule(id, on) ==
  /\ Event
  /\ \E i \in DOMAIN rules : FirstRule(i, id) /\ rules' = [rules EXCEPT ![i].enabled = on]
  /\ held' = [held EXCEPT ![id] = NotHeld]
  /\ touched' = touched \cup {id}
  /\ UNCHANGED <<trackers, world, eval, shared>>
RuleRemoved(id) ==
  \E i \in DOMAIN rules : FirstRule(i, id) /\ rules' = RemoveAt(rules, i)
\* ... and RemoveRule, which deletes it: a pass can put it back.
RemoveRule(id) ==
  /\ Event
  /\ RuleRemoved(id)
  /\ trackers' = [x \in DOMAIN trackers \ {id} |-> trackers[x]]
  /\ held' = [held EXCEPT ![id] = NotHeld]
  /\ touched' = IF InPass(id) THEN touched \cup {id} ELSE touched \ {id}
  /\ UNCHANGED <<world, eval, shared>>

\* The program ends and is started again with the rules, which are saved.
Forgotten ==
  /\ trackers' = NoTrackers
  /\ eval' = Rests
  /\ held' = [id \in RuleIds |-> NotHeld]
  /\ touched' = {}
  /\ UNCHANGED shared
AutoRestart == Event /\ Forgotten /\ UNCHANGED <<rules, world>>
\* evaluate reads and writes the map of trackers without the lock: Go ends the
\* program when it meets RemoveRule's delete.
RemoveFaults(id) ==
  /\ Event
  /\ RuleRemoved(id) /\ eval.at # "rests"
  /\ Forgotten
  /\ UNCHANGED world

RuleRequests ==
  \/ \E id \in RuleIds :
       \/ \E r \in NewRules(id) : AddRule(r) \/ UpdateRule(r)
       \/ RemoveRule(id) \/ RemoveFaults(id)
       \/ \E on \in BOOLEAN : ToggleRule(id, on)

\* What the providers report changes, and time passes.
WorldChanges ==
  /\ \E w \in Worlds \ {world} : world' = w
  /\ UNCHANGED <<rules, trackers, eval, held, touched, shared, events>>
Older(age) == IF age < MaxDuration THEN age + 1 ELSE age
AutoTick ==
  /\ trackers' = [id \in DOMAIN trackers |->
       IF trackers[id].met THEN [trackers[id] EXCEPT !.age = Older(@)] ELSE trackers[id]]
  /\ held' = [id \in RuleIds |-> IF held[id] = NotHeld THEN NotHeld ELSE Older(held[id])]
  /\ UNCHANGED <<rules, world, eval, touched, shared, events>>

AutoNext == Evaluate \/ RuleRequests \/ AutoRestart \/ WorldChanges \/ AutoTick

-----------------------------------------------------------------------------
\* "Seconds condition must persist before triggering" (autoswitch.go:17): a rule
\* that never shared its id is about to fire only when every evaluation of it has
\* found its condition for its duration, since it fired last or was added - even
\* when an earlier rule had its id - but for a rule that was edited or toggled and
\* not found unmet since: it keeps its tracker, and the comment does not hold.
HeldLongEnough ==
  eval.at = "fires" =>
    LET r == eval.copy[eval.i] IN
      r.id \in touched \cup shared \/ held[r.id] >= Required(r)

\* A rule that stays enabled, with a condition that holds and an id of its own,
\* fires: again and again, whatever was done to its tracker before.
RuleFires ==
  \A id \in RuleIds :
    <>[](\E i \in DOMAIN rules : /\ rules[i].id = id /\ rules[i].enabled
                                 /\ rules[i].trigger \in world
                                 /\ \A j \in DOMAIN rules : rules[j].id = id => j = i) =>
      []<>(eval.at = "fires" /\ eval.copy[eval.i].id = id)
=============================================================================
