-------------------------- MODULE AutomationProofs --------------------------
(***************************************************************************)
(* What the auto-switch engine, the scheduler and the preview manager keep *)
(* for any rules and durations, any ids, window, minute, day and dates,    *)
(* any settings and any number of requests, deaths and restarts, however   *)
(* edits, passes and checks interleave; checked by TLAPS.                  *)
(***************************************************************************)
EXTENDS MCAutomation, ListLemmas

\* The auto-switch engine.

\* A rule of the pass that is still to come is the rule as it is now, unless it
\* is touched or has shared its id, ...
CopyCurrent ==
  \A i \in DOMAIN eval.copy :
    /\ i > eval.i \/ (i = eval.i /\ eval.at = "fires")
    /\ eval.copy[i].id \notin touched \cup shared
    => IsCurrent(eval.copy[i])
\* ... and a tracker is no older than the condition of its rule has held.
TrackersTrue ==
  \A id \in RuleIds \ (touched \cup shared) : Tracker(id).met => held[id] >= Tracker(id).age

AutoInv ==
  /\ AutoTypeOK
  /\ eval \in [at: {"rests", "looks", "fires"}, copy: Seq(Rules), i: Nat]
  /\ UniqueBut(eval.copy, shared)
  /\ CopyCurrent /\ TrackersTrue /\ HeldLongEnough

\* The rules of the list, as AutoTypeOK has them.
LEMMA RulesFacts ==
  ASSUME AutoInv
  PROVE  /\ rules \in Seq(Rules) /\ UniqueBut(rules, shared)
         /\ \A r : IsCurrent(r) <=> Holds(rules, r)
BY DEF AutoInv, AutoTypeOK, UniqueBut, IsCurrent, Holds

\* The trackers' ages and what the history has of the conditions.
LEMMA Ages ==
  ASSUME AutoInv
  PROVE  /\ MaxDuration \in Nat
         /\ held \in [RuleIds -> NotHeld..MaxDuration]
         /\ \A id \in RuleIds : Tracker(id) \in [met: BOOLEAN, age: 0..MaxDuration]
<1>1. MaxDuration \in Nat
  BY AutoSwitchAssumption DEF AutoSwitchAssumption
<1>2. held \in [RuleIds -> NotHeld..MaxDuration]
  BY DEF AutoInv, AutoTypeOK
<1>3. ASSUME NEW id \in RuleIds PROVE Tracker(id) \in [met: BOOLEAN, age: 0..MaxDuration]
  <2>1. CASE id \in DOMAIN trackers
    BY <2>1 DEF AutoInv, AutoTypeOK, Tracker
  <2>2. CASE id \notin DOMAIN trackers
    BY <1>1, <2>2 DEF Tracker, NotMet
  <2>3. QED
    BY <2>1, <2>2
<1>4. QED
  BY <1>1, <1>2, <1>3

\* No rule has been looked at.
LEMMA AutoInitInv == AutoInit => AutoInv
<1> SUFFICES ASSUME AutoInit PROVE AutoInv
  OBVIOUS
<1>1. rules \in Seq(Rules) /\ UniqueBut(rules, shared)
  <2>1. CASE rules = <<>>
    BY <2>1 DEF UniqueBut
  <2>2. CASE rules # <<>>
    <3> DEFINE id == CHOOSE id \in RuleIds : TRUE
    <3>1. id \in RuleIds
      BY AutoSwitchAssumption DEF AutoSwitchAssumption
    <3>2. PICK r \in NewRules(id) : rules = <<r>>
      BY <2>2 DEF AutoInit
    <3> HIDE DEF id
    <3>3. r \in Rules
      BY <3>1, <3>2 DEF NewRules, Rules
    <3>4. QED
      BY <3>2, <3>3 DEF UniqueBut
  <2>3. QED
    BY <2>1, <2>2
<1>2. MaxDuration \in Nat
  BY AutoSwitchAssumption DEF AutoSwitchAssumption
<1>3. AutoTypeOK
  BY <1>1, <1>2 DEF AutoInit, AutoTypeOK, UniqueBut, NoTrackers, Rests, NotHeld
<1>4. eval = [at |-> "rests", copy |-> <<>>, i |-> 0]
  BY DEF AutoInit, Rests
<1>5. TrackersTrue
  BY DEF AutoInit, TrackersTrue, Tracker, NoTrackers, NotMet
<1>6. QED
  BY <1>3, <1>4, <1>5 DEF AutoInv, UniqueBut, CopyCurrent, HeldLongEnough

\* The pass takes a copy, ...
LEMMA EvalBeginsStep ==
  ASSUME AutoInv, EvalBegins PROVE AutoInv'
<1>1. rules \in Seq(Rules) /\ UniqueBut(rules, shared)
  BY RulesFacts
<1>2. /\ eval' = [at |-> "looks", copy |-> rules, i |-> 0]
      /\ UNCHANGED <<rules, trackers, world, held, touched, shared>>
  BY DEF EvalBegins
<1>3. AutoTypeOK'
  BY <1>1, <1>2 DEF AutoInv, AutoTypeOK
<1>4. CopyCurrent' /\ TrackersTrue' /\ HeldLongEnough'
  BY <1>2 DEF AutoInv, CopyCurrent, TrackersTrue, HeldLongEnough, IsCurrent, Tracker
<1>5. QED
  BY <1>1, <1>2, <1>3, <1>4 DEF AutoInv

\* ... ends, ...
LEMMA EvalEndsStep ==
  ASSUME AutoInv, EvalEnds PROVE AutoInv'
<1>1. /\ eval' = [at |-> "rests", copy |-> <<>>, i |-> 0]
      /\ UNCHANGED <<rules, trackers, world, held, touched, shared>>
  BY DEF EvalEnds, Rests
<1>2. AutoTypeOK'
  BY <1>1 DEF AutoInv, AutoTypeOK
<1>3. CopyCurrent' /\ TrackersTrue' /\ HeldLongEnough' /\ UniqueBut(eval.copy, shared)'
  BY <1>1 DEF AutoInv, CopyCurrent, TrackersTrue, HeldLongEnough, Tracker, UniqueBut
<1>4. QED
  BY <1>1, <1>2, <1>3 DEF AutoInv

\* ... and gives one rule a tracker.
LEMMA SetTrackerFacts ==
  ASSUME AutoInv, NEW id \in RuleIds, NEW tr \in [met: BOOLEAN, age: 0..MaxDuration],
         SetTracker(id, tr)
  PROVE  /\ DOMAIN trackers' \subseteq RuleIds
         /\ \A x \in DOMAIN trackers' : trackers'[x] \in [met: BOOLEAN, age: 0..MaxDuration]
         /\ Tracker(id)' = tr
         /\ \A x \in RuleIds \ {id} : Tracker(x)' = Tracker(x)
BY DEF AutoInv, AutoTypeOK, SetTracker, Tracker

\* A duration is a number of seconds.
LEMMA RequiredInt == ASSUME NEW r \in Rules PROVE Required(r) \in Int
<1>1. r.dur \in Durations
  BY DEF Rules
<1>2. Durations \subseteq 0..MaxDuration /\ MaxDuration \in Nat
  BY AutoSwitchAssumption DEF AutoSwitchAssumption
<1>3. r.dur \in 0..MaxDuration
  BY <1>1, <1>2
<1>4. QED
  BY <1>2, <1>3 DEF Required

\* Where a pass is when it gets to a rule.
LEMMA PassFacts ==
  ASSUME AutoInv, NEW i \in DOMAIN eval.copy, NextRule(i)
  PROVE  /\ eval.copy[i] \in Rules /\ eval.copy[i].id \in RuleIds /\ eval.copy[i].enabled
         /\ eval.copy \in Seq(Rules)
         /\ i \in 1..Len(eval.copy) /\ i > eval.i /\ eval.i \in Nat
<1>1. eval.copy \in Seq(Rules) /\ eval.i \in Nat
  BY DEF AutoInv
<1>2. eval.copy[i] \in Rules /\ i \in 1..Len(eval.copy)
  BY <1>1
<1>3. i > eval.i /\ eval.copy[i].enabled
  BY <1>1, <1>2 DEF NextRule
<1>4. QED
  BY <1>1, <1>2, <1>3 DEF Rules

\* A condition that is met leaves a tracker that is no older than the history.
LEMMA TriggerMetStep ==
  ASSUME AutoInv, NEW i \in DOMAIN eval.copy, TriggerMet(i) PROVE AutoInv'
<1> DEFINE r == eval.copy[i]
           tr == IF Tracker(r.id).met THEN Tracker(r.id) ELSE [met |-> TRUE, age |-> 0]
<1>1. /\ NextRule(i) /\ SetTracker(r.id, tr)
      /\ eval' = [eval EXCEPT !.i = i, !.at = IF tr.age >= Required(r) THEN "fires" ELSE "looks"]
      /\ held' = [held EXCEPT ![r.id] = IF IsCurrent(r) /\ @ = NotHeld THEN 0 ELSE @]
      /\ UNCHANGED <<rules, world, touched, shared>>
  BY DEF TriggerMet
<1>2. /\ r \in Rules /\ r.id \in RuleIds /\ r.enabled /\ eval.copy \in Seq(Rules)
      /\ i \in 1..Len(eval.copy) /\ i > eval.i /\ eval.i \in Nat
  BY <1>1, PassFacts
<1>3. tr \in [met: BOOLEAN, age: 0..MaxDuration] /\ tr.met
  <2>1. Tracker(r.id) \in [met: BOOLEAN, age: 0..MaxDuration]
    BY <1>2, Ages
  <2>2. QED
    BY <2>1, Ages
<1>4. eval' \in [at: {"looks", "fires"}, copy: {eval.copy}, i: {i}]
      /\ (eval'.at = "fires" => tr.age >= Required(r))
  BY <1>1 DEF AutoInv
<1>5. \A x \in RuleIds : held'[x] \in NotHeld..MaxDuration /\ held'[x] >= held[x]
  BY <1>1, <1>2, Ages DEF NotHeld
<1> HIDE DEF tr
<1>6. AutoTypeOK'
  <2>1. held' \in [RuleIds -> NotHeld..MaxDuration]
    BY <1>1, <1>5, Ages
  <2>2. eval'.at = "fires" => eval'.i > 0 /\ eval'.copy[eval'.i].enabled
    BY <1>2, <1>4
  <2>3. eval'.at \in {"rests", "looks", "fires"} /\ eval'.i \in 0..Len(eval'.copy)
    BY <1>2, <1>4
  <2>4. QED
    BY <1>1, <1>2, <1>3, SetTrackerFacts, <2>1, <2>2, <2>3 DEF AutoInv, AutoTypeOK
<1>7. ASSUME r.id \notin touched \cup shared PROVE IsCurrent(r) /\ held'[r.id] >= tr.age
  <2>1. IsCurrent(r)
    BY <1>2, <1>7 DEF AutoInv, CopyCurrent
  <2>2. CASE Tracker(r.id).met
    <3>1. tr = Tracker(r.id)
      BY <2>2 DEF tr
    <3>2. held[r.id] >= tr.age
      BY <1>2, <1>7, <2>2, <3>1 DEF AutoInv, TrackersTrue
    <3>3. QED
      BY <1>2, <1>3, <1>5, <2>1, <3>2, Ages DEF NotHeld
  <2>3. CASE ~Tracker(r.id).met
    <3>1. tr.age = 0
      BY <2>3 DEF tr
    <3>2. held'[r.id] >= 0
      BY <1>1, <1>2, <2>1, Ages DEF NotHeld
    <3>3. QED
      BY <2>1, <3>1, <3>2
  <2>4. QED
    BY <2>2, <2>3
<1>8. TrackersTrue'
  <2> SUFFICES ASSUME NEW id \in RuleIds \ (touched \cup shared), Tracker(id)'.met
               PROVE  held'[id] >= Tracker(id)'.age
    BY <1>1 DEF TrackersTrue
  <2>1. CASE id = r.id
    BY <1>1, <1>2, <1>3, <1>7, <2>1, SetTrackerFacts
  <2>2. CASE id # r.id
    <3>1. Tracker(id)' = Tracker(id)
      BY <1>1, <1>2, <1>3, <2>2, SetTrackerFacts
    <3>2. held[id] >= Tracker(id).age
      BY <3>1 DEF AutoInv, TrackersTrue
    <3>3. QED
      BY <1>5, <3>1, <3>2, Ages DEF NotHeld
  <2>3. QED
    BY <2>1, <2>2
<1>9. HeldLongEnough'
  <2> SUFFICES ASSUME eval'.at = "fires", r.id \notin touched \cup shared
               PROVE  held'[r.id] >= Required(r)
    BY <1>1, <1>4 DEF HeldLongEnough
  <2>1. Required(r) \in Int
    BY <1>2, RequiredInt
  <2>2. QED
    BY <1>2, <1>3, <1>4, <1>5, <1>7, <2>1, Ages DEF NotHeld
<1>10. CopyCurrent'
  <2> SUFFICES ASSUME NEW j \in DOMAIN eval.copy, j >= i, eval.copy[j].id \notin touched \cup shared
               PROVE  IsCurrent(eval.copy[j])'
    BY <1>1, <1>2, <1>4 DEF CopyCurrent
  <2>1. IsCurrent(eval.copy[j])
    BY <1>2 DEF AutoInv, CopyCurrent
  <2>2. QED
    BY <1>1, <1>4, <2>1 DEF IsCurrent
<1>11. QED
  BY <1>1, <1>2, <1>4, <1>6, <1>8, <1>9, <1>10 DEF AutoInv, UniqueBut

\* What a step keeps that unmeets the tracker of a rule the pass leaves behind.
LEMMA Unmet ==
  ASSUME AutoInv, NEW i \in DOMAIN eval.copy, NEW r, r = eval.copy[i], r \in Rules,
         eval.copy \in Seq(Rules), i \in 1..Len(eval.copy),
         eval.i \in Nat, i >= eval.i, i = eval.i => eval.at = "fires",
         eval' = [at |-> "looks", copy |-> eval.copy, i |-> i],
         UNCHANGED <<rules, world, shared>>,
         DOMAIN trackers' \subseteq RuleIds,
         \A x \in DOMAIN trackers' : trackers'[x] \in [met: BOOLEAN, age: 0..MaxDuration],
         Tracker(r.id)' = NotMet,
         \A x \in RuleIds \ {r.id} : Tracker(x)' = Tracker(x),
         held' = [held EXCEPT ![r.id] = NotHeld],
         touched' = IF IsCurrent(r) THEN touched \ {r.id} ELSE touched
  PROVE  AutoInv'
<1>1. r.id \in RuleIds
  BY DEF Rules
<1>2. held' \in [RuleIds -> NotHeld..MaxDuration]
  BY <1>1, Ages DEF NotHeld
<1>3. AutoTypeOK'
  BY <1>2 DEF AutoInv, AutoTypeOK
<1>4. TrackersTrue'
  <2> SUFFICES ASSUME NEW id \in RuleIds \ (touched' \cup shared), Tracker(id)'.met
               PROVE  held'[id] >= Tracker(id)'.age
    BY DEF TrackersTrue
  <2>1. id # r.id
    BY DEF NotMet
  <2>2. id \notin touched \cup shared /\ Tracker(id)' = Tracker(id) /\ held'[id] = held[id]
    BY <1>1, <2>1, Ages
  <2>3. QED
    BY <2>2 DEF AutoInv, TrackersTrue
<1>5. CopyCurrent'
  <2> SUFFICES ASSUME NEW j \in DOMAIN eval.copy, j > i, eval.copy[j].id \notin touched' \cup shared
               PROVE  IsCurrent(eval.copy[j])
    BY DEF CopyCurrent, IsCurrent
  <2>1. eval.copy[j].id # r.id
    BY DEF AutoInv, UniqueBut
  <2>2. eval.copy[j].id \notin touched \cup shared /\ j > eval.i
    BY <2>1
  <2>3. QED
    BY <2>2 DEF AutoInv, CopyCurrent
<1>6. HeldLongEnough'
  BY DEF HeldLongEnough
<1>7. eval' \in [at: {"rests", "looks", "fires"}, copy: Seq(Rules), i: Nat] /\ UniqueBut(eval.copy, shared)'
  BY DEF AutoInv
<1>8. QED
  BY <1>3, <1>4, <1>5, <1>6, <1>7 DEF AutoInv

\* A condition that is not met, ...
LEMMA TriggerNotMetStep ==
  ASSUME AutoInv, NEW i \in DOMAIN eval.copy, TriggerNotMet(i) PROVE AutoInv'
<1>1. NextRule(i)
  BY DEF TriggerNotMet
<1>2. PICK r \in Rules : r = eval.copy[i]
  BY <1>1, PassFacts
<1>3. /\ SetTracker(r.id, NotMet)
      /\ held' = [held EXCEPT ![r.id] = NotHeld]
      /\ touched' = IF IsCurrent(r) THEN touched \ {r.id} ELSE touched
      /\ UNCHANGED <<rules, world, shared>>
  BY <1>2 DEF TriggerNotMet
<1>4. eval' = [at |-> "looks", copy |-> eval.copy, i |-> i]
  BY <1>1 DEF TriggerNotMet, NextRule, AutoInv
<1>5. /\ r.id \in RuleIds /\ eval.copy \in Seq(Rules)
      /\ i \in 1..Len(eval.copy) /\ i > eval.i /\ eval.i \in Nat
  BY <1>1, <1>2, PassFacts
<1>6. NotMet \in [met: BOOLEAN, age: 0..MaxDuration]
  BY Ages DEF NotMet
<1>7. /\ DOMAIN trackers' \subseteq RuleIds
      /\ \A x \in DOMAIN trackers' : trackers'[x] \in [met: BOOLEAN, age: 0..MaxDuration]
      /\ Tracker(r.id)' = NotMet
      /\ \A x \in RuleIds \ {r.id} : Tracker(x)' = Tracker(x)
  BY <1>3, <1>5, <1>6, SetTrackerFacts
<1>8. i >= eval.i /\ (i = eval.i => eval.at = "fires")
  BY <1>5
<1>9. QED
  BY <1>2, <1>3, <1>4, <1>5, <1>7, <1>8, Unmet

\* ... and a rule that fires, unmeet the tracker.
LEMMA FireRuleStep ==
  ASSUME AutoInv, FireRule PROVE AutoInv'
<1>1. PICK i \in DOMAIN eval.copy : i = eval.i /\ i \in 1..Len(eval.copy) /\ i \in Nat
  BY DEF FireRule, AutoInv, AutoTypeOK
<1>2. PICK r \in Rules : r = eval.copy[i]
  BY <1>1 DEF AutoInv
<1>3. /\ trackers' = [x \in DOMAIN trackers |-> IF x = r.id THEN NotMet ELSE trackers[x]]
      /\ held' = [held EXCEPT ![r.id] = NotHeld]
      /\ touched' = IF IsCurrent(r) THEN touched \ {r.id} ELSE touched
      /\ UNCHANGED <<rules, world, shared>>
  BY <1>1, <1>2 DEF FireRule
<1>4. eval.at = "fires" /\ eval' = [at |-> "looks", copy |-> eval.copy, i |-> i]
  BY <1>1 DEF FireRule, AutoInv
<1>5. NotMet \in [met: BOOLEAN, age: 0..MaxDuration]
  BY Ages DEF NotMet
<1>6. /\ DOMAIN trackers' \subseteq RuleIds
      /\ \A x \in DOMAIN trackers' : trackers'[x] \in [met: BOOLEAN, age: 0..MaxDuration]
  BY <1>3, <1>5 DEF AutoInv, AutoTypeOK
<1>7. /\ Tracker(r.id)' = NotMet
      /\ \A x \in RuleIds \ {r.id} : Tracker(x)' = Tracker(x)
  BY <1>3 DEF Tracker
<1>8. eval.copy \in Seq(Rules) /\ eval.i \in Nat /\ i >= eval.i
  BY <1>1 DEF AutoInv
<1>9. QED
  BY <1>1, <1>2, <1>3, <1>4, <1>6, <1>7, <1>8, Unmet

-----------------------------------------------------------------------------
\* What an edit of the list keeps that touches the rule it is about: trackers
\* may be dropped.
LEMMA Edited ==
  ASSUME AutoInv, NEW id \in RuleIds,
         rules' \in Seq(Rules), UniqueBut(rules, shared)',
         \A r \in Rules : r.id # id /\ IsCurrent(r) => IsCurrent(r)',
         UNCHANGED <<world, eval, shared>>,
         held' = [held EXCEPT ![id] = NotHeld],
         touched' = touched \cup {id}
           \/ (touched' = touched \ {id} /\ ~InPass(id) /\ Tracker(id)' = NotMet),
         trackers' = trackers \/ trackers' = [x \in DOMAIN trackers \ {id} |-> trackers[x]]
  PROVE  AutoInv'
<1>1. held' \in [RuleIds -> NotHeld..MaxDuration] /\ touched' \subseteq RuleIds
  BY Ages DEF NotHeld, AutoInv, AutoTypeOK
<1>2. /\ DOMAIN trackers' \subseteq RuleIds
      /\ \A x \in DOMAIN trackers' : trackers'[x] \in [met: BOOLEAN, age: 0..MaxDuration]
  BY DEF AutoInv, AutoTypeOK
<1>3. AutoTypeOK'
  BY <1>1, <1>2 DEF AutoInv, AutoTypeOK, UniqueBut
<1>4. \A x \in RuleIds \ {id} : Tracker(x)' = Tracker(x) /\ held'[x] = held[x]
  BY Ages DEF Tracker
<1>5. TrackersTrue'
  <2> SUFFICES ASSUME NEW x \in RuleIds \ (touched' \cup shared), Tracker(x)'.met
               PROVE  held'[x] >= Tracker(x)'.age
    BY DEF TrackersTrue
  <2>1. x # id
    BY DEF NotMet
  <2>2. QED
    BY <1>4, <2>1 DEF AutoInv, TrackersTrue
<1>6. ASSUME NEW j \in DOMAIN eval.copy,
             j > eval.i \/ (j = eval.i /\ eval.at = "fires"),
             eval.copy[j].id \notin touched' \cup shared
      PROVE  eval.copy[j].id # id /\ eval.copy[j].id \notin touched \cup shared /\ eval.copy[j] \in Rules
  <2>1. eval.copy[j] \in Rules
    BY DEF AutoInv
  <2>2. QED
    BY <1>6, <2>1 DEF InPass
<1>7. CopyCurrent'
  BY <1>6 DEF AutoInv, CopyCurrent
<1>8. HeldLongEnough'
  <2> SUFFICES ASSUME eval.at = "fires", eval.copy[eval.i].id \notin touched' \cup shared
               PROVE  held'[eval.copy[eval.i].id] >= Required(eval.copy[eval.i])
    BY DEF HeldLongEnough, Required
  <2>1. eval.i \in DOMAIN eval.copy
    BY DEF AutoInv, AutoTypeOK
  <2>2. eval.copy[eval.i].id \in RuleIds \ {id} /\ eval.copy[eval.i].id \notin touched \cup shared
    BY <1>6, <2>1 DEF Rules
  <2>3. QED
    BY <1>4, <2>2 DEF AutoInv, HeldLongEnough
<1>9. QED
  BY <1>3, <1>5, <1>7, <1>8 DEF AutoInv

\* A rule that is added leaves the others, and is new unless its id is shared, ...
LEMMA AddRuleStep ==
  ASSUME AutoInv, NEW id \in RuleIds, NEW r \in NewRules(id), AddRule(r) PROVE AutoInv'
<1>1. r \in Rules /\ r.id \in RuleIds
  BY DEF NewRules, Rules
<1>2. /\ rules' = Append(rules, r)
      /\ shared' = IF HasRule(r.id) THEN shared \cup {r.id} ELSE shared
      /\ UNCHANGED <<trackers, world, eval, held, touched>>
  BY DEF AddRule
<1>3. /\ shared \subseteq shared' /\ shared' \subseteq RuleIds
      /\ r.id \notin shared' => ~\E i \in DOMAIN rules : rules[i].id = r.id
  BY <1>1, <1>2 DEF HasRule, AutoInv, AutoTypeOK
<1>4. /\ rules' \in Seq(Rules) /\ UniqueBut(rules, shared)'
      /\ \A y : IsCurrent(y) => IsCurrent(y)'
  <2>1. /\ Append(rules, r) \in Seq(Rules) /\ UniqueBut(Append(rules, r), shared')
        /\ \A y : Holds(rules, y) => Holds(Append(rules, r), y)
    BY <1>1, <1>3, RulesFacts, AppendUniqueBut
  <2>2. QED
    BY <1>2, <2>1 DEF UniqueBut, Holds, IsCurrent
<1>5. AutoTypeOK'
  BY <1>2, <1>3, <1>4 DEF AutoInv, AutoTypeOK, UniqueBut
<1>6. CopyCurrent'
  BY <1>2, <1>3, <1>4 DEF AutoInv, CopyCurrent
<1>7. TrackersTrue' /\ HeldLongEnough' /\ UniqueBut(eval.copy, shared)'
  BY <1>2, <1>3 DEF AutoInv, TrackersTrue, HeldLongEnough, Tracker, Required, UniqueBut
<1>8. QED
  BY <1>2, <1>5, <1>6, <1>7 DEF AutoInv

\* ... one that is changed keeps its place, ...
LEMMA ChangeFacts ==
  ASSUME AutoInv, NEW id \in RuleIds, NEW i \in DOMAIN rules, rules[i].id = id,
         NEW r \in Rules, r.id = id, rules' = [rules EXCEPT ![i] = r], UNCHANGED shared
  PROVE  /\ rules' \in Seq(Rules) /\ UniqueBut(rules, shared)'
         /\ \A x \in Rules : x.id # id /\ IsCurrent(x) => IsCurrent(x)'
<1>1. rules \in Seq(Rules) /\ UniqueBut(rules, shared)
  BY RulesFacts
<1>2. DOMAIN rules' = DOMAIN rules /\ \A j \in DOMAIN rules : rules'[j].id = rules[j].id
  OBVIOUS
<1>3. rules' \in Seq(Rules)
  BY <1>1
<1>4. \A j \in DOMAIN rules : rules[j].id # id => rules'[j] = rules[j]
  OBVIOUS
<1>5. QED
  BY <1>1, <1>2, <1>3, <1>4 DEF UniqueBut, IsCurrent

LEMMA UpdateRuleStep ==
  ASSUME AutoInv, NEW id \in RuleIds, NEW r \in NewRules(id), UpdateRule(r) PROVE AutoInv'
<1>1. r \in Rules /\ r.id = id
  BY DEF NewRules, Rules
<1>2. PICK i \in DOMAIN rules : rules[i].id = id /\ rules' = [rules EXCEPT ![i] = r]
  BY <1>1 DEF UpdateRule, FirstRule
<1>3. UNCHANGED shared
  BY DEF UpdateRule
<1>4. /\ rules' \in Seq(Rules) /\ UniqueBut(rules, shared)'
      /\ \A x \in Rules : x.id # id /\ IsCurrent(x) => IsCurrent(x)'
  BY <1>1, <1>2, <1>3, ChangeFacts
<1>5. QED
  BY <1>1, <1>4, Edited DEF UpdateRule

LEMMA ToggleRuleStep ==
  ASSUME AutoInv, NEW id \in RuleIds, NEW on \in BOOLEAN, ToggleRule(id, on) PROVE AutoInv'
<1>1. PICK i \in DOMAIN rules : rules[i].id = id /\ rules' = [rules EXCEPT ![i].enabled = on]
  BY DEF ToggleRule, FirstRule
<1> DEFINE r == [rules[i] EXCEPT !.enabled = on]
<1>2. rules[i] \in Rules
  BY RulesFacts
<1>3. r \in Rules /\ r.id = id
  BY <1>1, <1>2 DEF Rules
<1>4. rules' = [rules EXCEPT ![i] = r]
  BY <1>1
<1> HIDE DEF r
<1>5. UNCHANGED shared
  BY DEF ToggleRule
<1>6. /\ rules' \in Seq(Rules) /\ UniqueBut(rules, shared)'
      /\ \A x \in Rules : x.id # id /\ IsCurrent(x) => IsCurrent(x)'
  BY <1>1, <1>3, <1>4, <1>5, ChangeFacts
<1>7. QED
  BY <1>6, Edited DEF ToggleRule

\* ... and one that is removed leaves the others.
LEMMA RemovedFacts ==
  ASSUME AutoInv, NEW id \in RuleIds, RuleRemoved(id), UNCHANGED shared
  PROVE  /\ rules' \in Seq(Rules) /\ UniqueBut(rules, shared)'
         /\ \A r \in Rules : r.id # id /\ IsCurrent(r) => IsCurrent(r)'
<1>1. PICK i \in DOMAIN rules : rules[i].id = id /\ rules' = RemoveAt(rules, i)
  BY DEF RuleRemoved, FirstRule
<1>2. rules \in Seq(Rules) /\ UniqueBut(rules, shared)
  BY RulesFacts
<1>3. rules' \in Seq(Rules)
  BY <1>1, <1>2, RemoveAtFacts
<1>4. /\ UniqueBut(RemoveAt(rules, i), shared)
      /\ \A x : Holds(rules, x) /\ x.id # rules[i].id => Holds(RemoveAt(rules, i), x)
  BY <1>2, RemoveAtUniqueBut
<1>5. UniqueBut(rules, shared)' /\ \A x : Holds(rules, x) /\ x.id # id => Holds(rules, x)'
  BY <1>1, <1>4 DEF UniqueBut, Holds
<1>6. QED
  BY <1>3, <1>5 DEF Holds, IsCurrent

LEMMA RemoveRuleStep ==
  ASSUME AutoInv, NEW id \in RuleIds, RemoveRule(id) PROVE AutoInv'
<1>1. /\ rules' \in Seq(Rules) /\ UniqueBut(rules, shared)'
      /\ \A r \in Rules : r.id # id /\ IsCurrent(r) => IsCurrent(r)'
  BY RemovedFacts DEF RemoveRule
<1>2. /\ trackers' = [x \in DOMAIN trackers \ {id} |-> trackers[x]]
      /\ Tracker(id)' = NotMet
  BY DEF RemoveRule, Tracker
<1>3. QED
  BY <1>1, <1>2, Edited DEF RemoveRule

\* A program that starts again has no trackers, and no pass under way.
LEMMA ForgottenStep ==
  ASSUME AutoInv, Forgotten, rules' \in Seq(Rules), UniqueBut(rules, shared)', UNCHANGED world
  PROVE  AutoInv'
<1>1. /\ trackers' = NoTrackers /\ eval' = [at |-> "rests", copy |-> <<>>, i |-> 0]
      /\ held' = [id \in RuleIds |-> NotHeld] /\ touched' = {} /\ UNCHANGED shared
  BY DEF Forgotten, Rests
<1>2. AutoTypeOK'
  BY <1>1, Ages DEF AutoInv, AutoTypeOK, UniqueBut, NoTrackers, NotHeld
<1>3. TrackersTrue'
  BY <1>1 DEF TrackersTrue, Tracker, NoTrackers, NotMet
<1>4. QED
  BY <1>1, <1>2, <1>3 DEF AutoInv, UniqueBut, CopyCurrent, HeldLongEnough

\* Time adds as much to the history as to the trackers.
LEMMA AutoTickStep ==
  ASSUME AutoInv, AutoTick PROVE AutoInv'
<1>1. /\ trackers' = [id \in DOMAIN trackers |->
           IF trackers[id].met THEN [trackers[id] EXCEPT !.age = Older(@)] ELSE trackers[id]]
      /\ held' = [id \in RuleIds |-> IF held[id] = NotHeld THEN NotHeld ELSE Older(held[id])]
      /\ UNCHANGED <<rules, world, eval, touched, shared>>
  BY DEF AutoTick
<1>2. ASSUME NEW x \in RuleIds
      PROVE  /\ held'[x] \in NotHeld..MaxDuration /\ held'[x] >= held[x]
             /\ held[x] # NotHeld => held'[x] = Older(held[x])
  BY <1>1, Ages DEF Older, NotHeld
<1>3. ASSUME NEW x \in RuleIds
      PROVE  /\ Tracker(x)' \in [met: BOOLEAN, age: 0..MaxDuration]
             /\ Tracker(x)'.met = Tracker(x).met
             /\ Tracker(x).met => Tracker(x)'.age = Older(Tracker(x).age)
  <2>1. Tracker(x)' = IF Tracker(x).met THEN [Tracker(x) EXCEPT !.age = Older(@)] ELSE Tracker(x)
    BY <1>1 DEF Tracker, NotMet
  <2>2. Tracker(x) \in [met: BOOLEAN, age: 0..MaxDuration]
    BY Ages
  <2>3. \A age \in 0..MaxDuration : Older(age) \in 0..MaxDuration
    BY Ages DEF Older
  <2>4. QED
    BY <2>1, <2>2, <2>3
<1>4. AutoTypeOK'
  <2>1. held' \in [RuleIds -> NotHeld..MaxDuration]
    BY <1>1, <1>2
  <2>2. \A x \in DOMAIN trackers' : trackers'[x] = Tracker(x)' /\ x \in RuleIds
    BY <1>1 DEF Tracker, AutoInv, AutoTypeOK
  <2>3. QED
    BY <1>1, <1>3, <2>1, <2>2 DEF AutoInv, AutoTypeOK
<1>5. TrackersTrue'
  <2> SUFFICES ASSUME NEW x \in RuleIds \ (touched \cup shared), Tracker(x)'.met
               PROVE  held'[x] >= Tracker(x)'.age
    BY <1>1 DEF TrackersTrue
  <2>1. Tracker(x).met /\ Tracker(x)'.age = Older(Tracker(x).age)
    BY <1>3
  <2>2. held[x] >= Tracker(x).age
    BY <2>1 DEF AutoInv, TrackersTrue
  <2>3. /\ Tracker(x).age \in 0..MaxDuration /\ held[x] \in NotHeld..MaxDuration
        /\ MaxDuration \in Nat
    BY Ages
  <2>4. held'[x] = Older(held[x])
    BY <1>2, <2>2, <2>3 DEF NotHeld
  <2>5. QED
    BY <2>1, <2>2, <2>3, <2>4 DEF Older, NotHeld
<1>6. HeldLongEnough'
  <2> SUFFICES ASSUME eval.at = "fires", eval.copy[eval.i].id \notin touched \cup shared
               PROVE  held'[eval.copy[eval.i].id] >= Required(eval.copy[eval.i])
    BY <1>1 DEF HeldLongEnough, Required
  <2> DEFINE r == eval.copy[eval.i]
  <2>1. r \in Rules
    BY DEF AutoInv, AutoTypeOK
  <2>2. held[r.id] >= Required(r)
    BY DEF AutoInv, HeldLongEnough
  <2>3. r.id \in RuleIds /\ Required(r) \in Int
    BY <2>1, RequiredInt DEF Rules
  <2> HIDE DEF r
  <2>4. held'[r.id] >= Required(r)
    BY <1>2, <2>2, <2>3, Ages DEF NotHeld
  <2>5. QED
    BY <2>4 DEF r
<1>7. QED
  BY <1>1, <1>4, <1>5, <1>6 DEF AutoInv, CopyCurrent, IsCurrent

\* Every step of the engine.
LEMMA AutoNextInv ==
  ASSUME AutoInv, AutoNext PROVE AutoInv'
<1>1. CASE Evaluate
  BY <1>1, EvalBeginsStep, EvalEndsStep, TriggerMetStep, TriggerNotMetStep, FireRuleStep
     DEF Evaluate
<1>2. CASE RuleRequests
  <2>1. ASSUME NEW id \in RuleIds, RemoveFaults(id) PROVE AutoInv'
    BY <2>1, RemovedFacts, ForgottenStep DEF RemoveFaults, Forgotten
  <2>2. QED
    BY <1>2, <2>1, AddRuleStep, UpdateRuleStep, ToggleRuleStep, RemoveRuleStep DEF RuleRequests
<1>3. CASE AutoRestart
  BY <1>3, RulesFacts, ForgottenStep DEF AutoRestart, Forgotten, UniqueBut
<1>4. CASE WorldChanges
  BY <1>4 DEF WorldChanges, AutoInv, AutoTypeOK, CopyCurrent, TrackersTrue, HeldLongEnough,
              IsCurrent, Tracker
<1>5. QED
  BY <1>1, <1>2, <1>3, <1>4, AutoTickStep DEF AutoNext

\* Whichever of the three is at work.
LEMMA AutoInvariant == Spec => []AutoInv
<1>1. Init => AutoInv
  BY AutoInitInv DEF Init
<1>2. AutoInv /\ [Next]_vars => AutoInv'
  <2> SUFFICES ASSUME AutoInv, [Next]_vars PROVE AutoInv'
    OBVIOUS
  <2>1. CASE RulesWork
    BY <2>1, AutoNextInv DEF RulesWork
  <2>2. CASE UNCHANGED autoVars
    BY <2>2 DEF autoVars, AutoInv, AutoTypeOK, CopyCurrent, TrackersTrue, HeldLongEnough,
                IsCurrent, Tracker
  <2>3. QED
    BY <2>1, <2>2 DEF Next, SchedulesWork, PreviewWorks, vars
<1>3. QED
  BY <1>1, <1>2, PTL DEF Spec

\* "Seconds condition must persist before triggering" (autoswitch.go:17), for any
\* rules, durations, edits and restarts: a rule that fires, that was not edited or
\* toggled while its tracker ran and never shared its id, has had its condition
\* found at every evaluation for its duration.
THEOREM RulesHeldLongEnough == Spec => []HeldLongEnough
<1>1. AutoInv => HeldLongEnough
  BY DEF AutoInv
<1>2. QED
  BY <1>1, AutoInvariant, PTL

-----------------------------------------------------------------------------
\* The scheduler.

\* While a check marks a schedule, the list does not know of the firing yet.
Marking(id) == pass.at = "marks" /\ pass.copy[pass.i].id = id

\* Otherwise the list knows when each schedule that has fired did, and has
\* switched off the ones that were for once, ...
MarksTrue ==
  \A i \in DOMAIN schedules :
    schedules[i].id \notin raced /\ ~Marking(schedules[i].id) =>
      /\ runs[schedules[i].id].last \in {Never, schedules[i].last}
      /\ runs[schedules[i].id].spent => ~schedules[i].enabled
\* ... the entries a check has still to come to are those of the list, and the
\* others have kept their places, unless the list was edited, ...
CopyTrue ==
  pass.at # "idle" =>
    \/ \A i \in DOMAIN pass.copy : pass.copy[i].id \in raced
    \/ /\ DOMAIN schedules = DOMAIN pass.copy
       /\ \A i \in DOMAIN schedules :
            /\ schedules[i].id = pass.copy[i].id
            /\ i > pass.i => schedules[i] = pass.copy[i]
\* ... and what a check marks is what has fired.
FiringTrue ==
  pass.at = "marks" /\ pass.copy[pass.i].id \notin raced =>
    /\ runs[pass.copy[pass.i].id].last = now
    /\ runs[pass.copy[pass.i].id].spent = pass.copy[pass.i].once

SchedInv ==
  /\ SchedulerTypeOK
  /\ pass \in [at: {"idle", "looks", "marks"}, copy: Seq(Schedules), i: Nat]
  /\ pass.at = "marks" => pass.i \in DOMAIN pass.copy
  /\ MarksTrue /\ CopyTrue /\ FiringTrue /\ FiresOnce

-----------------------------------------------------------------------------
\* The constants are numbers of seconds.
LEMMA SecondsNat ==
  /\ Window \in Nat \ {0} /\ Minute \in Nat /\ MaxTime \in Nat /\ Window < Minute
  /\ 0 \in Times /\ Times \subseteq Nat
BY SchedulerAssumption DEF SchedulerAssumption, Times

\* The list, as SchedulerTypeOK has it.
LEMMA ListFacts ==
  ASSUME SchedInv
  PROVE  /\ schedules \in Seq(Schedules) /\ UniqueBut(schedules, raced)
         /\ now \in Times /\ runs \in [ScheduleIds -> Runs] /\ raced \subseteq ScheduleIds
         /\ \A i \in DOMAIN schedules : schedules[i] \in Schedules
BY DEF SchedInv, SchedulerTypeOK, UniqueBut

\* A schedule with a last firing, as a request or the file has it.
LEMMA BodyFacts ==
  ASSUME NEW id \in ScheduleIds, NEW lasts, lasts \subseteq Times \cup {Never},
         NEW s \in Bodies(id, lasts)
  PROVE  s \in Schedules /\ s.id = id
<1>1. PICK t \in Starts \cup Dates, o \in BOOLEAN, l \in lasts :
        s = [id |-> id, at |-> t, dated |-> t \in Dates, once |-> o, enabled |-> TRUE, last |-> l]
  BY DEF Bodies
<1> DEFINE d == t \in Dates
<1>2. d \in BOOLEAN /\ l \in Times \cup {Never}
  OBVIOUS
<1> HIDE DEF d
<1>3. s = [id |-> id, at |-> t, dated |-> d, once |-> o, enabled |-> TRUE, last |-> l]
  BY <1>1 DEF d
<1>4. QED
  BY <1>2, <1>3 DEF Schedules

LEMMA NewScheduleFacts ==
  ASSUME SchedInv, NEW id \in ScheduleIds, NEW s \in NewSchedules(id)
  PROVE  s \in Schedules /\ s.id = id
<1> DEFINE lasts == {Never} \cup LastFired \cup {schedules[i].last : i \in DOMAIN schedules}
<1>1. LastFired \subseteq Times
  BY SchedulerAssumption DEF SchedulerAssumption, Times
<1>2. ASSUME NEW i \in DOMAIN schedules PROVE schedules[i].last \in Times \cup {Never}
  <2>1. schedules[i] \in Schedules
    BY ListFacts
  <2>2. QED
    BY <2>1 DEF Schedules
<1>3. lasts \subseteq Times \cup {Never}
  BY <1>1, <1>2
<1>4. s \in Bodies(id, lasts)
  BY DEF NewSchedules
<1> HIDE DEF lasts
<1>5. QED
  BY <1>3, <1>4, BodyFacts

\* A schedule has an id.
LEMMA HasId == ASSUME NEW s \in Schedules PROVE s.id \in ScheduleIds
BY DEF Schedules

\* Nothing has fired.
LEMMA SchedulerInitInv == SchedulerInit => SchedInv
<1> SUFFICES ASSUME SchedulerInit PROVE SchedInv
  OBVIOUS
<1>1. schedules \in Seq(Schedules) /\ UniqueBut(schedules, raced)
  <2> DEFINE id == CHOOSE id \in ScheduleIds : TRUE
  <2>1. id \in ScheduleIds
    BY SchedulerAssumption DEF SchedulerAssumption
  <2>2. schedules = <<>> \/ \E s \in Bodies(id, {Never}) : schedules = <<s>>
    BY DEF SchedulerInit, SavedSchedules
  <2> HIDE DEF id
  <2>3. CASE schedules = <<>>
    BY <2>3 DEF UniqueBut
  <2>4. CASE schedules # <<>>
    <3>1. PICK s \in Bodies(id, {Never}) : schedules = <<s>>
      BY <2>2, <2>4
    <3>2. s \in Schedules
      BY <2>1, BodyFacts
    <3>3. QED
      BY <3>1, <3>2 DEF UniqueBut
  <2>5. QED
    BY <2>3, <2>4
<1>2. /\ pass = [at |-> "idle", copy |-> <<>>, i |-> 0] /\ now = 0 /\ raced = {}
      /\ runs = [id \in ScheduleIds |-> NoRun]
  BY DEF SchedulerInit, Idle
<1>3. SchedulerTypeOK
  BY <1>1, <1>2, SecondsNat DEF SchedulerTypeOK, UniqueBut, NoRun, Runs
<1>4. MarksTrue /\ CopyTrue /\ FiringTrue /\ FiresOnce
  <2>1. ASSUME NEW i \in DOMAIN schedules PROVE schedules[i].id \in ScheduleIds
    <3>1. schedules[i] \in Schedules
      BY <1>1
    <3>2. QED
      BY <3>1, HasId
  <2>2. QED
    BY <1>1, <1>2, <2>1 DEF MarksTrue, CopyTrue, FiringTrue, FiresOnce, NoRun
<1>5. QED
  BY <1>2, <1>3, <1>4 DEF SchedInv

-----------------------------------------------------------------------------
\* A check takes a copy, ...
LEMMA CheckBeginsStep ==
  ASSUME SchedInv, CheckBegins PROVE SchedInv'
<1>1. /\ pass.at = "idle" /\ pass' = [at |-> "looks", copy |-> schedules, i |-> 0]
      /\ UNCHANGED <<now, schedules, runs, raced>>
  BY DEF CheckBegins
<1>2. SchedulerTypeOK'
  BY <1>1, ListFacts DEF SchedInv, SchedulerTypeOK
<1>3. MarksTrue'
  BY <1>1 DEF SchedInv, MarksTrue, Marking
<1>4. CopyTrue' /\ FiringTrue' /\ FiresOnce'
  BY <1>1 DEF SchedInv, CopyTrue, FiringTrue, FiresOnce
<1>5. QED
  BY <1>1, <1>2, <1>3, <1>4, ListFacts DEF SchedInv

\* ... and ends, as it does when the program is started again, which leaves a
\* firing without its mark.
LEMMA PassEnds ==
  ASSUME SchedInv, pass' = Idle, UNCHANGED <<now, schedules, runs>>,
         raced' = IF pass.at = "marks" THEN raced \cup {pass.copy[pass.i].id} ELSE raced
  PROVE  SchedInv'
<1>1. pass' = [at |-> "idle", copy |-> <<>>, i |-> 0]
  BY DEF Idle
<1>2. raced \subseteq raced' /\ raced' \subseteq ScheduleIds
      /\ \A id : id \notin raced' => id \notin raced /\ ~Marking(id)
  <2>1. pass.at = "marks" => pass.copy[pass.i].id \in ScheduleIds
    <3>1. pass.at = "marks" => pass.copy[pass.i] \in Schedules
      BY DEF SchedInv
    <3>2. QED
      BY <3>1, HasId
  <2>2. QED
    BY <2>1, ListFacts DEF Marking
<1>3. SchedulerTypeOK'
  BY <1>1, <1>2 DEF SchedInv, SchedulerTypeOK
<1>4. MarksTrue' /\ FiresOnce'
  BY <1>2 DEF SchedInv, MarksTrue, FiresOnce
<1>5. QED
  BY <1>1, <1>3, <1>4 DEF SchedInv, CopyTrue, FiringTrue

\* What is due now and has not fired within a minute has not fired in the
\* occurrence that is due.
LEMMA DueIsNew ==
  ASSUME NEW s \in Schedules, now \in Times, ShouldFire(s, now), s.last # Never
  PROVE  s.last < Began(s, now)
<1>1. Since(s, now) \in 0..Window - 1 /\ ~(now - s.last < Minute)
  BY DEF ShouldFire, DueAt, FiredRecently
<1>2. s.last \in Nat /\ now \in Nat
  BY SecondsNat DEF Schedules
<1>3. QED
  BY <1>1, <1>2, SecondsNat DEF Began

\* An entry that is due has not fired as it is now, ...
LEMMA CheckFiresStep ==
  ASSUME SchedInv, CheckFires PROVE SchedInv'
<1>1. PICK i \in pass.i + 1..Len(pass.copy) :
        ShouldFire(pass.copy[i], now) /\ Fired(pass.copy[i], now)
        /\ pass' = [pass EXCEPT !.at = "marks", !.i = i]
  BY DEF CheckFires
<1> DEFINE s == pass.copy[i]
<1>2. /\ pass.at = "looks" /\ UNCHANGED <<now, schedules, raced>>
      /\ pass.copy \in Seq(Schedules) /\ pass.i \in Nat
  BY DEF CheckFires, SchedInv
<1>3. i \in DOMAIN pass.copy /\ i \in Nat /\ i > pass.i /\ s \in Schedules /\ s.id \in ScheduleIds
  <2>1. i \in DOMAIN pass.copy /\ i \in Nat /\ i > pass.i
    BY <1>2
  <2>2. s \in Schedules
    BY <1>2, <2>1
  <2>3. QED
    BY <2>1, <2>2, HasId
<1>4. pass' = [at |-> "marks", copy |-> pass.copy, i |-> i]
  BY <1>1, <1>2 DEF SchedInv
<1> DEFINE again == runs[s.id].again \/ runs[s.id].spent
                      \/ (runs[s.id].last # Never /\ runs[s.id].last >= Began(s, now))
<1>5. runs' = [runs EXCEPT ![s.id] = [last |-> now, spent |-> s.once, again |-> again]]
  BY <1>1, <1>3, ListFacts DEF Fired
<1>6. s.id \notin raced => ~again
  <2> SUFFICES ASSUME s.id \notin raced PROVE ~again
    OBVIOUS
  <2>1. i \in DOMAIN schedules /\ schedules[i] = s
    BY <1>2, <1>3 DEF SchedInv, CopyTrue
  <2>2. runs[s.id].last \in {Never, s.last} /\ (runs[s.id].spent => ~s.enabled)
    BY <1>2, <2>1 DEF SchedInv, MarksTrue, Marking
  <2>3. s.enabled
    BY <1>1 DEF ShouldFire
  <2>4. ~runs[s.id].again
    BY <1>3 DEF SchedInv, FiresOnce
  <2>5. runs[s.id].last # Never => ~(runs[s.id].last >= Began(s, now))
    <3> SUFFICES ASSUME s.last # Never PROVE ~(s.last >= Began(s, now))
      BY <2>2
    <3>1. s.last < Began(s, now)
      BY <1>1, <1>3, DueIsNew, ListFacts
    <3>2. s.last \in Nat /\ Began(s, now) \in Int
      <4>1. Since(s, now) \in 0..Window - 1
        BY <1>1 DEF ShouldFire, DueAt
      <4>2. now \in Nat /\ s.last \in Nat
        BY <1>3, ListFacts, SecondsNat DEF Schedules
      <4>3. QED
        BY <4>1, <4>2, SecondsNat DEF Began
    <3>3. QED
      BY <3>1, <3>2
  <2>6. QED
    BY <2>2, <2>3, <2>4, <2>5
<1> HIDE DEF again
<1>7. \A id \in ScheduleIds : id # s.id => runs'[id] = runs[id]
  BY <1>5, ListFacts
<1>8. runs'[s.id] = [last |-> now, spent |-> s.once, again |-> again]
  BY <1>3, <1>5, ListFacts
<1>9. runs' \in [ScheduleIds -> Runs]
  <2>1. again \in BOOLEAN
    BY <1>3, ListFacts DEF again, Runs
  <2>2. [last |-> now, spent |-> s.once, again |-> again] \in Runs
    BY <1>3, <2>1, ListFacts DEF Runs, Schedules
  <2>3. QED
    BY <1>5, <2>2, ListFacts
<1>10. SchedulerTypeOK'
  BY <1>2, <1>3, <1>4, <1>9 DEF SchedInv, SchedulerTypeOK
<1>11. MarksTrue'
  <2> SUFFICES ASSUME NEW j \in DOMAIN schedules,
                      schedules[j].id \notin raced, schedules[j].id # s.id
               PROVE  /\ runs'[schedules[j].id].last \in {Never, schedules[j].last}
                      /\ runs'[schedules[j].id].spent => ~schedules[j].enabled
    BY <1>2, <1>4 DEF MarksTrue, Marking
  <2>1. schedules[j].id \in ScheduleIds
    BY ListFacts DEF Schedules
  <2>2. QED
    BY <1>2, <1>7, <2>1 DEF SchedInv, MarksTrue, Marking
<1>12. CopyTrue'
  BY <1>2, <1>3, <1>4, ListFacts DEF SchedInv, CopyTrue
<1>13. FiringTrue'
  BY <1>2, <1>4, <1>8 DEF FiringTrue
<1>14. FiresOnce'
  BY <1>2, <1>6, <1>7, <1>8 DEF SchedInv, FiresOnce
<1>15. QED
  BY <1>2, <1>3, <1>4, <1>10, <1>11, <1>12, <1>13, <1>14 DEF SchedInv

\* ... and its mark says so in the list.
LEMMA CheckMarksStep ==
  ASSUME SchedInv, CheckMarks PROVE SchedInv'
<1> DEFINE s == pass.copy[pass.i]
           marked(x) == [x EXCEPT !.last = now, !.enabled = @ /\ ~s.once]
           here(i) == i = pass.i /\ schedules[i].id = s.id
<1>1. /\ pass.at = "marks" /\ UNCHANGED <<now, runs, raced>>
      /\ pass' = [pass EXCEPT !.at = "looks"]
      /\ schedules' = [i \in DOMAIN schedules |->
                         IF here(i) THEN marked(schedules[i]) ELSE schedules[i]]
  BY DEF CheckMarks
<1>2. s \in Schedules /\ s.id \in ScheduleIds
  <2>1. pass.copy \in Seq(Schedules) /\ pass.i \in DOMAIN pass.copy
    BY <1>1 DEF SchedInv
  <2> HIDE DEF s
  <2>2. s \in Schedules
    BY <2>1 DEF s
  <2>3. QED
    BY <2>2, HasId
<1>3. pass' = [at |-> "looks", copy |-> pass.copy, i |-> pass.i]
  BY <1>1 DEF SchedInv
<1>4. ASSUME NEW x \in Schedules
      PROVE  /\ marked(x) \in Schedules /\ marked(x).id = x.id /\ marked(x).last = now
             /\ marked(x).enabled => ~s.once
  BY <1>2, ListFacts DEF Schedules
<1> HIDE DEF marked
<1>5. ASSUME NEW i \in DOMAIN schedules
      PROVE  schedules[i] \in Schedules /\ schedules'[i] \in Schedules
             /\ schedules'[i].id = schedules[i].id
  <2>1. schedules[i] \in Schedules
    BY ListFacts
  <2>2. schedules'[i] = IF here(i) THEN marked(schedules[i]) ELSE schedules[i]
    BY <1>1
  <2>3. QED
    BY <1>4, <2>1, <2>2
<1>6. schedules' \in Seq(Schedules) /\ DOMAIN schedules' = DOMAIN schedules /\ UniqueBut(schedules, raced)'
  <2>1. DOMAIN schedules' = DOMAIN schedules
    BY <1>1
  <2>2. schedules' \in Seq(Schedules)
    BY <1>1, <1>5, ListFacts
  <2>3. QED
    BY <1>1, <1>5, <2>1, <2>2, ListFacts DEF UniqueBut
<1>7. SchedulerTypeOK'
  BY <1>1, <1>3, <1>6 DEF SchedInv, SchedulerTypeOK, UniqueBut
<1>8. MarksTrue'
  <2> SUFFICES ASSUME NEW i \in DOMAIN schedules, schedules'[i].id \notin raced
               PROVE  /\ runs[schedules'[i].id].last \in {Never, schedules'[i].last}
                      /\ runs[schedules'[i].id].spent => ~schedules'[i].enabled
    BY <1>1, <1>6 DEF MarksTrue
  <2>1. schedules[i].id \notin raced /\ schedules'[i].id = schedules[i].id
    BY <1>5
  <2>2. CASE schedules[i].id = s.id
    <3>1. /\ s.id \notin raced /\ pass.i \in DOMAIN schedules /\ schedules[pass.i].id = s.id
      BY <1>1, <2>1, <2>2 DEF SchedInv, CopyTrue
    <3>2. i = pass.i
      BY <2>2, <3>1, ListFacts DEF UniqueBut
    <3>3. schedules'[i] = marked(schedules[i])
      BY <1>1, <2>2, <3>2
    <3>4. schedules'[i].last = now /\ (schedules'[i].enabled => ~s.once)
      BY <1>4, <1>5, <3>3
    <3>5. runs[s.id].last = now /\ runs[s.id].spent = s.once
      BY <1>1, <3>1 DEF SchedInv, FiringTrue
    <3>6. QED
      BY <2>1, <2>2, <3>4, <3>5
  <2>3. CASE schedules[i].id # s.id
    <3>1. schedules'[i] = schedules[i]
      BY <1>1, <2>3
    <3>2. QED
      BY <2>1, <2>3, <3>1 DEF SchedInv, MarksTrue, Marking
  <2>4. QED
    BY <2>2, <2>3
<1>9. CopyTrue'
  <2> SUFFICES ASSUME ~\A i \in DOMAIN pass.copy : pass.copy[i].id \in raced
               PROVE  /\ DOMAIN schedules = DOMAIN pass.copy
                      /\ \A i \in DOMAIN schedules :
                           /\ schedules'[i].id = pass.copy[i].id
                           /\ i > pass.i => schedules'[i] = pass.copy[i]
    BY <1>1, <1>3, <1>6 DEF CopyTrue
  <2>1. /\ DOMAIN schedules = DOMAIN pass.copy
        /\ \A i \in DOMAIN schedules :
             /\ schedules[i].id = pass.copy[i].id
             /\ i > pass.i => schedules[i] = pass.copy[i]
    BY <1>1 DEF SchedInv, CopyTrue
  <2>2. ASSUME NEW i \in DOMAIN schedules, i > pass.i PROVE schedules'[i] = schedules[i]
    <3>1. i # pass.i
      <4>1. i \in Nat /\ pass.i \in Nat
        BY ListFacts DEF SchedInv
      <4>2. QED
        BY <2>2, <4>1
    <3>2. QED
      BY <1>1, <3>1
  <2>3. QED
    BY <1>5, <2>1, <2>2
<1>10. FiringTrue' /\ FiresOnce'
  BY <1>1, <1>3 DEF SchedInv, FiringTrue, FiresOnce
<1>11. QED
  BY <1>1, <1>3, <1>6, <1>7, <1>8, <1>9, <1>10 DEF SchedInv

-----------------------------------------------------------------------------
\* What an edit of the list keeps: it makes the schedule of its id another one,
\* and races with the check that is under way, all of whose schedules it touches.
LEMMA ListEdited ==
  ASSUME SchedInv, NEW id \in ScheduleIds, NEW more, more \subseteq ScheduleIds, Crosses(more),
         schedules' \in Seq(Schedules), UniqueBut(schedules, raced)',
         \A i \in DOMAIN schedules' :
           IF schedules'[i].id = id
             THEN id \notin raced /\ ~Marking(id) =>
                    /\ runs'[id].last \in {Never, schedules'[i].last}
                    /\ runs'[id].spent => ~schedules'[i].enabled
             ELSE Holds(schedules, schedules'[i]),
         runs' \in [ScheduleIds -> Runs], runs'[id].again => runs[id].again,
         \A x \in ScheduleIds : x # id => runs'[x] = runs[x],
         UNCHANGED <<now, pass>>
  PROVE  SchedInv'
<1>1. /\ raced \subseteq raced'
      /\ pass.at # "idle" => \A i \in DOMAIN pass.copy : pass.copy[i].id \in raced'
  BY DEF Crosses
<1>2. raced' \subseteq ScheduleIds
  <2>1. ASSUME NEW i \in DOMAIN pass.copy PROVE pass.copy[i].id \in ScheduleIds
    <3>1. pass.copy[i] \in Schedules
      BY DEF SchedInv
    <3>2. QED
      BY <3>1, HasId
  <2>2. QED
    BY <2>1, ListFacts DEF Crosses
<1>3. \A x : x \notin raced' => x \notin raced /\ ~Marking(x)
  BY <1>1 DEF SchedInv, Marking
<1>4. SchedulerTypeOK'
  BY <1>2 DEF SchedInv, SchedulerTypeOK, UniqueBut
<1>5. MarksTrue'
  <2> SUFFICES ASSUME NEW i \in DOMAIN schedules', schedules'[i].id \notin raced'
               PROVE  /\ runs'[schedules'[i].id].last \in {Never, schedules'[i].last}
                      /\ runs'[schedules'[i].id].spent => ~schedules'[i].enabled
    BY DEF MarksTrue
  <2>1. CASE schedules'[i].id = id
    BY <1>3, <2>1
  <2>2. CASE schedules'[i].id # id
    <3>1. PICK j \in DOMAIN schedules : schedules[j] = schedules'[i]
      BY <2>2 DEF Holds
    <3>2. schedules[j] \in Schedules
      BY ListFacts
    <3>3. schedules[j].id \in ScheduleIds
      BY <3>2, HasId
    <3>4. runs'[schedules[j].id] = runs[schedules[j].id]
      BY <2>2, <3>1, <3>3
    <3>5. QED
      BY <1>3, <3>1, <3>4 DEF SchedInv, MarksTrue
  <2>3. QED
    BY <2>1, <2>2
<1>6. CopyTrue' /\ FiringTrue'
  BY <1>1 DEF SchedInv, CopyTrue, FiringTrue
<1>7. FiresOnce'
  BY <1>1, <1>2 DEF SchedInv, FiresOnce
<1>8. QED
  BY <1>4, <1>5, <1>6, <1>7 DEF SchedInv

\* A schedule made anew has not fired as it is now, whatever its body says.
LEMMA MadeAnew ==
  ASSUME SchedInv, NEW id \in ScheduleIds, NEW more, more \subseteq ScheduleIds, Crosses(more),
         schedules' \in Seq(Schedules), UniqueBut(schedules, raced)',
         \A i \in DOMAIN schedules' : schedules'[i].id = id \/ Holds(schedules, schedules'[i]),
         Anew({id}), UNCHANGED <<now, pass>>
  PROVE  SchedInv'
<1>1. NoRun \in Runs
  BY DEF NoRun, Runs
<1>2. runs' = [x \in ScheduleIds |-> IF x = id THEN NoRun ELSE runs[x]]
  BY DEF Anew
<1>3. /\ runs' \in [ScheduleIds -> Runs]
      /\ runs'[id].last = Never /\ ~runs'[id].spent /\ ~runs'[id].again
      /\ \A x \in ScheduleIds : x # id => runs'[x] = runs[x]
  BY <1>1, <1>2, ListFacts DEF NoRun
<1>4. QED
  BY <1>3, ListEdited

\* One is added, ...
LEMMA AddScheduleStep ==
  ASSUME SchedInv, NEW id \in ScheduleIds, NEW s \in NewSchedules(id), AddSchedule(s)
  PROVE  SchedInv'
<1> DEFINE more == IF Has(id) THEN {id} ELSE {}
<1>1. s \in Schedules /\ s.id = id
  BY NewScheduleFacts
<1>2. /\ schedules' = Append(schedules, s)
      /\ Anew({id}) /\ Crosses(more) /\ UNCHANGED <<now, pass>>
  BY <1>1 DEF AddSchedule
<1>3. more \subseteq ScheduleIds /\ (~Has(id) \/ id \in more)
  OBVIOUS
<1> HIDE DEF more
<1>4. raced \subseteq raced' /\ (s.id \notin raced' => ~\E i \in DOMAIN schedules : schedules[i].id = s.id)
  BY <1>1, <1>2, <1>3 DEF Crosses, Has
<1>5. /\ schedules' \in Seq(Schedules) /\ UniqueBut(schedules, raced)'
      /\ \A y : Holds(schedules, y)' => y = s \/ Holds(schedules, y)
  <2>1. /\ Append(schedules, s) \in Seq(Schedules) /\ UniqueBut(Append(schedules, s), raced')
        /\ \A y : Holds(Append(schedules, s), y) => y = s \/ Holds(schedules, y)
    BY <1>1, <1>4, ListFacts, AppendUniqueBut
  <2>2. QED
    BY <1>2, <2>1 DEF UniqueBut, Holds
<1>6. \A i \in DOMAIN schedules' : schedules'[i].id = id \/ Holds(schedules, schedules'[i])
  <2> SUFFICES ASSUME NEW i \in DOMAIN schedules'
               PROVE  schedules'[i].id = id \/ Holds(schedules, schedules'[i])
    OBVIOUS
  <2>1. PICK y : y = schedules'[i]
    OBVIOUS
  <2>2. Holds(schedules, y)'
    BY <2>1 DEF Holds
  <2>3. y = s \/ Holds(schedules, y)
    BY <1>5, <2>2
  <2>4. QED
    BY <1>1, <2>1, <2>3
<1>7. QED
  BY <1>2, <1>3, <1>5, <1>6, MadeAnew

\* ... changed, ...
LEMMA UpdateScheduleStep ==
  ASSUME SchedInv, NEW id \in ScheduleIds, NEW s \in NewSchedules(id), UpdateSchedule(s)
  PROVE  SchedInv'
<1>1. s \in Schedules /\ s.id = id
  BY NewScheduleFacts
<1>2. PICK k \in DOMAIN schedules :
        schedules[k].id = id /\ schedules' = [schedules EXCEPT ![k] = s]
  BY <1>1 DEF UpdateSchedule, First
<1>3. Anew({id}) /\ Crosses({}) /\ UNCHANGED <<now, pass>> /\ raced \subseteq raced'
  BY <1>1 DEF UpdateSchedule, Crosses
<1>4. schedules' \in Seq(Schedules) /\ DOMAIN schedules' = DOMAIN schedules
  BY <1>1, <1>2, ListFacts
<1>5. \A i \in DOMAIN schedules : schedules'[i].id = schedules[i].id
  BY <1>1, <1>2
<1>6. UniqueBut(schedules, raced)'
  BY <1>3, <1>4, <1>5, ListFacts DEF UniqueBut
<1>7. \A i \in DOMAIN schedules' : schedules'[i].id = id \/ Holds(schedules, schedules'[i])
  BY <1>1, <1>2, <1>4 DEF Holds
<1>8. QED
  BY <1>3, <1>4, <1>6, <1>7, MadeAnew

\* ... removed, ...
LEMMA RemoveScheduleStep ==
  ASSUME SchedInv, NEW id \in ScheduleIds, RemoveSchedule(id) PROVE SchedInv'
<1>1. PICK k \in DOMAIN schedules : schedules' = RemoveAt(schedules, k)
  BY DEF RemoveSchedule
<1>2. Anew({id}) /\ Crosses({}) /\ UNCHANGED <<now, pass>> /\ raced \subseteq raced'
  BY DEF RemoveSchedule, Crosses
<1>3. schedules' \in Seq(Schedules)
  BY <1>1, ListFacts, RemoveAtFacts
<1>4. /\ UniqueBut(RemoveAt(schedules, k), raced)
      /\ \A y : Holds(RemoveAt(schedules, k), y) => Holds(schedules, y)
  BY <1>1, ListFacts, RemoveAtUniqueBut
<1>5. UniqueBut(schedules, raced)'
  BY <1>1, <1>2, <1>4 DEF UniqueBut
<1>6. \A i \in DOMAIN schedules' : Holds(schedules, schedules'[i])
  BY <1>1, <1>4 DEF Holds
<1>7. QED
  BY <1>2, <1>3, <1>5, <1>6, MadeAnew

\* ... or switched on or off, which lets one for once fire again.
LEMMA ToggleScheduleStep ==
  ASSUME SchedInv, NEW id \in ScheduleIds, NEW on \in BOOLEAN, ToggleSchedule(id, on)
  PROVE  SchedInv'
<1>1. PICK k \in DOMAIN schedules :
        schedules[k].id = id /\ schedules' = [schedules EXCEPT ![k].enabled = on]
  BY DEF ToggleSchedule, First
<1> DEFINE s == [schedules[k] EXCEPT !.enabled = on]
<1>2. schedules[k] \in Schedules
  BY ListFacts
<1>3. s \in Schedules /\ s.id = id /\ s.last = schedules[k].last
  BY <1>1, <1>2 DEF Schedules
<1>4. schedules' = [schedules EXCEPT ![k] = s]
  BY <1>1
<1> HIDE DEF s
<1>5. /\ runs' = [runs EXCEPT ![id].spent = FALSE]
      /\ Crosses({}) /\ UNCHANGED <<now, pass>> /\ raced \subseteq raced'
  BY DEF ToggleSchedule, Crosses
<1>6. schedules' \in Seq(Schedules) /\ DOMAIN schedules' = DOMAIN schedules
  BY <1>3, <1>4, ListFacts
<1>7. \A i \in DOMAIN schedules : /\ schedules'[i].id = schedules[i].id
                                  /\ schedules'[i].last = schedules[i].last
                                  /\ schedules'[i].id # id => schedules'[i] = schedules[i]
  BY <1>1, <1>3, <1>4
<1>8. UniqueBut(schedules, raced)'
  BY <1>5, <1>6, <1>7, ListFacts DEF UniqueBut
<1>9. /\ runs' \in [ScheduleIds -> Runs]
      /\ ~runs'[id].spent /\ runs'[id].last = runs[id].last /\ runs'[id].again = runs[id].again
      /\ \A x \in ScheduleIds : x # id => runs'[x] = runs[x]
  BY <1>5, ListFacts DEF Runs
<1>10. ASSUME NEW i \in DOMAIN schedules', schedules'[i].id = id, id \notin raced, ~Marking(id)
       PROVE  runs'[id].last \in {Never, schedules'[i].last}
  <2>1. schedules[i].id = id /\ runs[id].last \in {Never, schedules[i].last}
    BY <1>6, <1>7, <1>10 DEF SchedInv, MarksTrue
  <2>2. QED
    BY <1>6, <1>7, <1>9, <2>1
<1>11. ASSUME NEW i \in DOMAIN schedules', schedules'[i].id # id
       PROVE  Holds(schedules, schedules'[i])
  BY <1>6, <1>7, <1>11 DEF Holds
<1>12. QED
  BY <1>5, <1>6, <1>8, <1>9, <1>10, <1>11, ListEdited

\* Every step of the scheduler.
LEMMA SchedulerNextInv ==
  ASSUME SchedInv, SchedulerNext PROVE SchedInv'
<1>1. CASE Check
  <2>1. ASSUME CheckEnds PROVE SchedInv'
    BY <2>1, PassEnds DEF CheckEnds
  <2>2. QED
    BY <1>1, <2>1, CheckBeginsStep, CheckFiresStep, CheckMarksStep DEF Check
<1>2. CASE ScheduleRequests
  BY <1>2, AddScheduleStep, UpdateScheduleStep, RemoveScheduleStep, ToggleScheduleStep
     DEF ScheduleRequests
<1>3. CASE SchedulerRestart
  BY <1>3, PassEnds DEF SchedulerRestart
<1>4. CASE SchedulerTick
  <2>1. /\ pass.at = "idle" /\ now' \in Times
        /\ UNCHANGED <<schedules, pass, runs, raced>>
    BY <1>4, ListFacts, SecondsNat DEF SchedulerTick, schedulerVars, Times
  <2>2. QED
    BY <2>1 DEF SchedInv, SchedulerTypeOK, MarksTrue, Marking, CopyTrue, FiringTrue, FiresOnce
<1>5. QED
  BY <1>1, <1>2, <1>3, <1>4 DEF SchedulerNext

\* Whichever of the three is at work.
LEMMA SchedulerInvariant == Spec => []SchedInv
<1>1. Init => SchedInv
  BY SchedulerInitInv DEF Init
<1>2. SchedInv /\ [Next]_vars => SchedInv'
  <2> SUFFICES ASSUME SchedInv, [Next]_vars PROVE SchedInv'
    OBVIOUS
  <2>1. CASE SchedulesWork
    BY <2>1, SchedulerNextInv DEF SchedulesWork
  <2>2. CASE UNCHANGED <<now, schedulerVars>>
    BY <2>2 DEF schedulerVars, SchedInv, SchedulerTypeOK, MarksTrue, Marking, CopyTrue,
                FiringTrue, FiresOnce
  <2>3. QED
    BY <2>1, <2>2 DEF Next, RulesWork, PreviewWorks, vars
<1>3. QED
  BY <1>1, <1>2, PTL DEF Spec

\* For any ids, times and dates, whatever last firing a request brings, and
\* however checks, edits and restarts interleave: a schedule with an id of its own
\* fires once in each of its minutes, or once at all when it is "once"
\* (scheduler.go:86-103, 145), unless the list was edited during a check or the
\* program ended before a mark was saved.
THEOREM SchedulesFireOnce == Spec => []FiresOnce
<1>1. SchedInv => FiresOnce
  BY DEF SchedInv
<1>2. QED
  BY <1>1, SchedulerInvariant, PTL

-----------------------------------------------------------------------------
\* A schedule fired last in one of its minutes, ...
LastDue ==
  \A i \in DOMAIN schedules :
    LET t == runs[schedules[i].id].last IN
      schedules[i].id \notin raced /\ t # Never => t <= now /\ DueAt(schedules[i], t)
\* ... and what a check has passed in the last second of its window has fired, or
\* is held back by what its body brought.
LastSecond(s) == s.id \notin raced /\ s.enabled /\ Since(s, now) = Window - 1
FiredOrHeld(s) == runs[s.id].last >= Began(s, now) \/ HeldBack(s)
PassedTrue ==
  pass.at # "idle" =>
    \A i \in DOMAIN pass.copy :
      i <= pass.i /\ LastSecond(pass.copy[i]) => FiredOrHeld(pass.copy[i])
MissedInv == LastDue /\ PassedTrue

\* Division with remainder.
LEMMA DivMod ==
  ASSUME NEW x \in Int, NEW d \in Int, d > 0
  PROVE  x \div d \in Int /\ x = d * (x \div d) + (x % d)
<1>1. x = d * (x \div d) + (x % d)
  BY SMTT(30)
<1>2. QED
  BY <1>1

\* Of two times less than a day apart the later has come as much farther in its
\* day, if it has come no less far.
LEMMA SameDay ==
  ASSUME NEW d \in Int, d > 0, NEW x \in Int, NEW y \in Int, y <= x, x - y < d,
         y % d <= x % d, y % d \in Nat, x % d \in Nat, x % d < d
  PROVE  x - y = (x % d) - (y % d)
<1> DEFINE p == y \div d
           q == x \div d
           r == y % d
           s == x % d
<1>1. p \in Int /\ q \in Int /\ y = d * p + r /\ x = d * q + s
  BY DivMod
<1>2. r \in Nat /\ s \in Nat /\ r <= s /\ s < d
  OBVIOUS
<1> HIDE DEF p, q, r, s
<1>3. ~(q >= p + 1)
  <2> SUFFICES ASSUME q >= p + 1 PROVE FALSE
    OBVIOUS
  <2>1. d * q >= d * p + d
    BY <1>1
  <2>2. d * p \in Int /\ d * q \in Int
    BY <1>1
  <2>3. QED
    BY <1>1, <1>2, <2>1, <2>2
<1>4. ~(q + 1 <= p)
  <2> SUFFICES ASSUME q + 1 <= p PROVE FALSE
    OBVIOUS
  <2>1. d * p >= d * q + d
    BY <1>1
  <2>2. d * p \in Int /\ d * q \in Int
    BY <1>1
  <2>3. QED
    BY <1>1, <1>2, <2>1, <2>2
<1>5. p = q
  BY <1>1, <1>3, <1>4
<1>6. d * p \in Int
  BY <1>1
<1>7. QED
  BY <1>1, <1>2, <1>5, <1>6 DEF r, s

\* The times of a schedule are numbers.
LEMMA TimesInt ==
  ASSUME NEW s \in Schedules
  PROVE  /\ s.at \in Int /\ s.last \in Int /\ (s.last # Never => s.last \in Nat)
         /\ Day \in Int /\ Day > Minute /\ Minute > Window /\ Window \in Nat \ {0} /\ Minute \in Nat
<1>1. Starts \cup Dates \subseteq Int
  <2>1. Day \in Nat /\ Dates \subseteq Times
    BY SchedulerAssumption DEF SchedulerAssumption, Times
  <2>2. Starts \subseteq 0..Day - 1
    BY SchedulerAssumption DEF SchedulerAssumption
  <2>3. QED
    BY <2>1, <2>2, SecondsNat
<1>2. s.at \in Starts \cup Dates /\ s.last \in Times \cup {Never}
  BY DEF Schedules
<1>3. Day \in Nat /\ Day > Minute /\ Minute > Window /\ Window \in Nat \ {0} /\ Minute \in Nat
  BY SchedulerAssumption DEF SchedulerAssumption
<1>4. s.last \in Int /\ (s.last # Never => s.last \in Nat)
  <2>1. Never \in Int
    BY DEF Never
  <2>2. s.last # Never => s.last \in Times
    BY <1>2
  <2>3. s.last # Never => s.last \in Nat
    BY <2>2, SecondsNat
  <2>4. QED
    BY <2>1, <2>3
<1>5. QED
  BY <1>1, <1>2, <1>3, <1>4

\* Which second of its window a time is in depends on when a schedule is.
LEMMA SameSince ==
  ASSUME NEW a, NEW b, NEW t, a.at = b.at, a.dated = b.dated
  PROVE  Since(a, t) = Since(b, t) /\ (DueAt(a, t) <=> DueAt(b, t))
BY DEF Since, DueAt

\* What firedRecently holds back in the last second of a window has fired in that
\* window: a minute is shorter than a day.
LEMMA RecentIsThis ==
  ASSUME NEW s \in Schedules, NEW t \in Nat, s.last # Never, s.last <= t, t - s.last < Minute,
         DueAt(s, s.last), Since(s, t) = Window - 1
  PROVE  s.last >= Began(s, t)
<1>1. /\ s.at \in Int /\ s.last \in Nat /\ Day \in Int /\ Day > Minute
      /\ Minute > Window /\ Window \in Nat \ {0} /\ Minute \in Nat
  BY TimesInt
<1>2. Since(s, s.last) \in 0..Window - 1
  BY DEF DueAt
<1>3. CASE s.dated
  BY <1>1, <1>2, <1>3 DEF Since, Began
<1>4. CASE ~s.dated
  <2> DEFINE x == t - s.at
             y == s.last - s.at
  <2>1. x \in Int /\ y \in Int /\ y <= x /\ x - y < Day /\ Day > 0
    BY <1>1
  <2>2. x % Day = Window - 1 /\ y % Day \in 0..Window - 1
    BY <1>2, <1>4 DEF Since
  <2>3. y % Day <= x % Day /\ y % Day \in Nat /\ x % Day \in Nat /\ x % Day < Day
    BY <1>1, <2>2
  <2> HIDE DEF x, y
  <2>4. x - y = (x % Day) - (y % Day)
    BY <1>1, <2>1, <2>3, SameDay
  <2>5. x - y <= Window - 1
    BY <1>1, <2>2, <2>4
  <2>6. t - s.last <= Window - 1
    BY <1>1, <2>5 DEF x, y
  <2>7. QED
    BY <1>1, <2>6 DEF Began
<1>5. QED
  BY <1>3, <1>4

\* An entry that is passed over in its last second has fired in its window, or is
\* held back.
LEMMA PassedOver ==
  ASSUME SchedInv, MissedInv, pass.at = "looks", NEW i \in DOMAIN pass.copy, i > pass.i,
         LastSecond(pass.copy[i]), ~ShouldFire(pass.copy[i], now)
  PROVE  FiredOrHeld(pass.copy[i])
<1> DEFINE s == pass.copy[i]
<1>1. s \in Schedules
  BY DEF SchedInv
<1>2. i \in DOMAIN schedules /\ schedules[i] = s
  BY DEF SchedInv, CopyTrue, LastSecond
<1>3. runs[s.id].last \in {Never, s.last}
  BY <1>2 DEF SchedInv, MarksTrue, Marking, LastSecond
<1>4. Since(s, now) = Window - 1 /\ s.enabled /\ s.id \notin raced
  BY DEF LastSecond
<1> HIDE DEF s
<1>5. DueAt(s, now)
  BY <1>1, <1>4, TimesInt DEF DueAt
<1>6. FiredRecently(s, now)
  BY <1>4, <1>5 DEF ShouldFire, s
<1>7. s.last # Never /\ now - s.last < Minute
  BY <1>6 DEF FiredRecently
<1>8. CASE runs[s.id].last = Never
  BY <1>7, <1>8 DEF FiredOrHeld, HeldBack, s
<1>9. CASE runs[s.id].last # Never
  <2>1. runs[s.id].last = s.last
    BY <1>3, <1>9
  <2>2. s.last <= now /\ DueAt(s, s.last)
    BY <1>2, <1>4, <1>9, <2>1 DEF MissedInv, LastDue
  <2>3. now \in Nat
    BY ListFacts, SecondsNat
  <2>4. s.last >= Began(s, now)
    BY <1>1, <1>4, <1>7, <2>2, <2>3, RecentIsThis
  <2>5. QED
    BY <2>1, <2>4 DEF FiredOrHeld, s
<1>10. QED
  BY <1>8, <1>9

\* Nothing has fired, and no check is under way.
LEMMA NothingMissed ==
  ASSUME SchedulerInit PROVE MissedInv
<1>1. pass.at = "idle" /\ runs = [id \in ScheduleIds |-> NoRun] /\ SchedInv
  BY SchedulerInitInv DEF SchedulerInit, Idle
<1>2. ASSUME NEW i \in DOMAIN schedules PROVE runs[schedules[i].id].last = Never
  <2>1. schedules[i] \in Schedules
    BY <1>1, ListFacts
  <2>2. schedules[i].id \in ScheduleIds
    BY <2>1, HasId
  <2>3. QED
    BY <1>1, <2>2 DEF NoRun
<1>3. QED
  BY <1>1, <1>2 DEF MissedInv, LastDue, PassedTrue

\* A check fires an entry of the list in its window, after those before it.
LEMMA FiresInTime ==
  ASSUME SchedInv, MissedInv, CheckFires PROVE MissedInv'
<1>1. PICK i \in pass.i + 1..Len(pass.copy) :
        /\ ShouldFire(pass.copy[i], now) /\ Fired(pass.copy[i], now)
        /\ \A j \in pass.i + 1..i - 1 : ~ShouldFire(pass.copy[j], now)
        /\ pass' = [pass EXCEPT !.at = "marks", !.i = i]
  BY DEF CheckFires
<1> DEFINE s == pass.copy[i]
<1>2. /\ pass.at = "looks" /\ UNCHANGED <<now, schedules, raced>>
      /\ pass.copy \in Seq(Schedules) /\ pass.i \in Nat
  BY DEF CheckFires, SchedInv
<1>3. i \in DOMAIN pass.copy /\ i \in Nat /\ i > pass.i
  BY <1>2
<1>4. s \in Schedules
  BY <1>2, <1>3
<1>5. s.id \in ScheduleIds
  BY <1>4, HasId
<1>6. pass' = [at |-> "marks", copy |-> pass.copy, i |-> i]
  BY <1>1, <1>2 DEF SchedInv
<1>7. /\ runs'[s.id].last = now
      /\ \A id \in ScheduleIds : id # s.id => runs'[id] = runs[id]
  BY <1>1, <1>5, ListFacts DEF Fired
<1>8. LastDue'
  <2> SUFFICES ASSUME NEW j \in DOMAIN schedules, schedules[j].id \notin raced,
                      runs'[schedules[j].id].last # Never
               PROVE  /\ runs'[schedules[j].id].last <= now
                      /\ DueAt(schedules[j], runs'[schedules[j].id].last)
    BY <1>2 DEF LastDue, DueAt, Since
  <2>1. schedules[j] \in Schedules
    BY ListFacts
  <2>2. schedules[j].id \in ScheduleIds
    BY <2>1, HasId
  <2>3. CASE schedules[j].id = s.id
    <3>1. i \in DOMAIN schedules /\ schedules[i] = s
      BY <1>2, <1>3, <2>3 DEF SchedInv, CopyTrue
    <3>2. j = i
      BY <2>3, <3>1, ListFacts DEF UniqueBut
    <3>3. DueAt(s, now) /\ now \in Nat
      BY <1>1, ListFacts, SecondsNat DEF ShouldFire
    <3>4. QED
      BY <1>7, <3>1, <3>2, <3>3
  <2>4. CASE schedules[j].id # s.id
    BY <1>7, <2>2, <2>4 DEF MissedInv, LastDue
  <2>5. QED
    BY <2>3, <2>4
<1>9. PassedTrue'
  <2> SUFFICES ASSUME NEW j \in DOMAIN pass.copy, j <= i, LastSecond(pass.copy[j])
               PROVE  \/ runs'[pass.copy[j].id].last >= Began(pass.copy[j], now)
                      \/ /\ runs'[pass.copy[j].id].last = Never /\ pass.copy[j].last # Never
                         /\ now - pass.copy[j].last < Minute
    BY <1>2, <1>6 DEF PassedTrue, LastSecond, FiredOrHeld, HeldBack, Since, Began
  <2> DEFINE e == pass.copy[j]
  <2>1. e \in Schedules /\ j \in Nat
    BY <1>2
  <2>2. e.id \in ScheduleIds /\ now \in Nat /\ Began(e, now) = now - (Window - 1)
    BY <2>1, HasId, ListFacts, SecondsNat DEF LastSecond, Began
  <2>3. CASE e.id = s.id
    BY <1>7, <2>2, <2>3, SecondsNat
  <2>4. CASE e.id # s.id
    <3>1. runs'[e.id] = runs[e.id] /\ j # i
      BY <1>7, <2>2, <2>4
    <3>2. FiredOrHeld(e)
      <4>1. CASE j <= pass.i
        BY <1>2, <4>1 DEF MissedInv, PassedTrue
      <4>2. CASE j > pass.i
        <5>1. j \in pass.i + 1..i - 1
          BY <1>2, <1>3, <2>1, <3>1, <4>2
        <5>2. QED
          BY <1>1, <1>2, <4>2, <5>1, PassedOver
      <4>3. QED
        BY <1>2, <2>1, <4>1, <4>2
    <3>3. QED
      BY <3>1, <3>2 DEF FiredOrHeld, HeldBack
  <2>5. QED
    BY <2>3, <2>4
<1>10. QED
  BY <1>8, <1>9 DEF MissedInv

\* A mark changes neither when a schedule is due nor when it fired.
LEMMA MarksInTime ==
  ASSUME SchedInv, MissedInv, CheckMarks PROVE MissedInv'
<1> DEFINE s == pass.copy[pass.i]
           marked(x) == [x EXCEPT !.last = now, !.enabled = @ /\ ~s.once]
           here(i) == i = pass.i /\ schedules[i].id = s.id
<1>1. /\ pass.at = "marks" /\ UNCHANGED <<now, runs, raced>>
      /\ pass' = [pass EXCEPT !.at = "looks"]
      /\ schedules' = [i \in DOMAIN schedules |->
                         IF here(i) THEN marked(schedules[i]) ELSE schedules[i]]
  BY DEF CheckMarks
<1>2. pass' = [at |-> "looks", copy |-> pass.copy, i |-> pass.i]
  BY <1>1 DEF SchedInv
<1>3. ASSUME NEW x \in Schedules
      PROVE  marked(x).id = x.id /\ marked(x).at = x.at /\ marked(x).dated = x.dated
  BY DEF Schedules
<1> HIDE DEF marked
<1>4. ASSUME NEW i \in DOMAIN schedules
      PROVE  /\ schedules'[i].id = schedules[i].id
             /\ schedules'[i].at = schedules[i].at /\ schedules'[i].dated = schedules[i].dated
  <2>1. schedules[i] \in Schedules
    BY ListFacts
  <2>2. schedules'[i] = IF here(i) THEN marked(schedules[i]) ELSE schedules[i]
    BY <1>1
  <2>3. QED
    BY <1>3, <2>1, <2>2
<1>5. LastDue'
  <2> SUFFICES ASSUME NEW i \in DOMAIN schedules, schedules'[i].id \notin raced,
                      runs[schedules'[i].id].last # Never
               PROVE  /\ runs[schedules'[i].id].last <= now
                      /\ DueAt(schedules'[i], runs[schedules'[i].id].last)
    BY <1>1 DEF LastDue, DueAt, Since
  <2>1. /\ runs[schedules[i].id].last <= now
        /\ DueAt(schedules[i], runs[schedules[i].id].last)
    BY <1>4 DEF MissedInv, LastDue
  <2>2. QED
    BY <1>4, <2>1, SameSince
<1>6. PassedTrue'
  BY <1>1, <1>2 DEF MissedInv, PassedTrue, LastSecond, FiredOrHeld, HeldBack, Since, Began
<1>7. QED
  BY <1>5, <1>6 DEF MissedInv

\* An edit keeps when the schedules it leaves were due and fired, and races with
\* all that a check has in its copy.
LEMMA EditedInTime ==
  ASSUME SchedInv, MissedInv, NEW more, Crosses(more), UNCHANGED <<now, pass>>,
         \A i \in DOMAIN schedules' :
           \/ runs'[schedules'[i].id].last = Never
           \/ \E j \in DOMAIN schedules :
                /\ schedules'[i].id = schedules[j].id
                /\ runs'[schedules[j].id].last = runs[schedules[j].id].last
                /\ schedules'[i].at = schedules[j].at
                /\ schedules'[i].dated = schedules[j].dated
  PROVE  MissedInv'
<1>1. /\ raced \subseteq raced'
      /\ pass.at # "idle" => \A i \in DOMAIN pass.copy : pass.copy[i].id \in raced'
  BY DEF Crosses
<1>2. LastDue'
  <2> SUFFICES ASSUME NEW i \in DOMAIN schedules', schedules'[i].id \notin raced',
                      runs'[schedules'[i].id].last # Never
               PROVE  /\ runs'[schedules'[i].id].last <= now
                      /\ DueAt(schedules'[i], runs'[schedules'[i].id].last)
    BY DEF LastDue, DueAt, Since
  <2>1. PICK j \in DOMAIN schedules :
          /\ schedules'[i].id = schedules[j].id
          /\ runs'[schedules[j].id].last = runs[schedules[j].id].last
          /\ schedules'[i].at = schedules[j].at /\ schedules'[i].dated = schedules[j].dated
    OBVIOUS
  <2>2. /\ runs[schedules[j].id].last <= now
        /\ DueAt(schedules[j], runs[schedules[j].id].last)
    BY <1>1, <2>1 DEF MissedInv, LastDue
  <2>3. QED
    BY <2>1, <2>2, SameSince
<1>3. PassedTrue'
  BY <1>1 DEF SchedInv, PassedTrue, LastSecond
<1>4. QED
  BY <1>2, <1>3 DEF MissedInv

\* A schedule made anew has not fired; the others are as they were.
LEMMA AnewInTime ==
  ASSUME SchedInv, MissedInv, NEW id \in ScheduleIds, NEW more, Crosses(more),
         UNCHANGED <<now, pass>>, Anew({id}),
         \A i \in DOMAIN schedules' :
           schedules'[i].id = id \/ \E j \in DOMAIN schedules : schedules'[i] = schedules[j]
  PROVE  MissedInv'
<1>1. runs' = [x \in ScheduleIds |-> IF x = id THEN NoRun ELSE runs[x]]
  BY DEF Anew
<1>2. ASSUME NEW j \in DOMAIN schedules
      PROVE  \/ runs'[schedules[j].id].last = Never
             \/ runs'[schedules[j].id].last = runs[schedules[j].id].last
  <2>1. schedules[j] \in Schedules
    BY ListFacts
  <2>2. schedules[j].id \in ScheduleIds
    BY <2>1, HasId
  <2>3. QED
    BY <1>1, <2>2 DEF NoRun
<1>3. runs'[id].last = Never
  BY <1>1 DEF NoRun
<1>4. QED
  BY <1>2, <1>3, EditedInTime

LEMMA EditsInTime ==
  ASSUME SchedInv, MissedInv, ScheduleRequests PROVE MissedInv'
<1>1. schedules \in Seq(Schedules)
  BY ListFacts
<1>2. ASSUME NEW id \in ScheduleIds, NEW s \in NewSchedules(id), AddSchedule(s)
      PROVE  MissedInv'
  <2>1. s.id = id
    BY <1>2, NewScheduleFacts
  <2>2. schedules' = Append(schedules, s) /\ Anew({id}) /\ UNCHANGED <<now, pass>>
    BY <1>2, <2>1 DEF AddSchedule
  <2>3. PICK more : Crosses(more)
    BY <1>2 DEF AddSchedule
  <2>4. ASSUME NEW i \in DOMAIN schedules'
        PROVE  schedules'[i] = s \/ \E j \in DOMAIN schedules : schedules'[i] = schedules[j]
    BY <1>1, <2>2, <2>4
  <2>5. QED
    BY <2>1, <2>2, <2>3, <2>4, AnewInTime
<1>3. ASSUME NEW id \in ScheduleIds, NEW s \in NewSchedules(id), UpdateSchedule(s)
      PROVE  MissedInv'
  <2>1. s.id = id
    BY <1>3, NewScheduleFacts
  <2>2. PICK k \in DOMAIN schedules : schedules' = [schedules EXCEPT ![k] = s]
    BY <1>3 DEF UpdateSchedule
  <2>3. Anew({id}) /\ Crosses({}) /\ UNCHANGED <<now, pass>>
    BY <1>3, <2>1 DEF UpdateSchedule
  <2>4. ASSUME NEW i \in DOMAIN schedules'
        PROVE  schedules'[i] = s \/ \E j \in DOMAIN schedules : schedules'[i] = schedules[j]
    BY <2>2, <2>4
  <2>5. QED
    BY <2>1, <2>3, <2>4, AnewInTime
<1>4. ASSUME NEW id \in ScheduleIds, RemoveSchedule(id) PROVE MissedInv'
  <2>1. PICK k \in DOMAIN schedules : schedules' = RemoveAt(schedules, k)
    BY <1>4 DEF RemoveSchedule
  <2>2. Anew({id}) /\ Crosses({}) /\ UNCHANGED <<now, pass>>
    BY <1>4 DEF RemoveSchedule
  <2>3. /\ DOMAIN schedules' = 1..Len(schedules) - 1
        /\ \A j \in 1..Len(schedules) - 1 :
             schedules'[j] = IF j < k THEN schedules[j] ELSE schedules[j + 1]
    BY <1>1, <2>1, RemoveAtFacts
  <2>4. ASSUME NEW i \in DOMAIN schedules'
        PROVE  \E j \in DOMAIN schedules : schedules'[i] = schedules[j]
    <3>1. i \in DOMAIN schedules /\ i + 1 \in DOMAIN schedules
      BY <1>1, <2>3
    <3>2. QED
      BY <2>3, <3>1
  <2>5. QED
    BY <2>2, <2>4, AnewInTime
<1>5. ASSUME NEW id \in ScheduleIds, NEW on \in BOOLEAN, ToggleSchedule(id, on)
      PROVE  MissedInv'
  <2>1. PICK k \in DOMAIN schedules : schedules' = [schedules EXCEPT ![k].enabled = on]
    BY <1>5 DEF ToggleSchedule
  <2>2. /\ runs' = [runs EXCEPT ![id].spent = FALSE]
        /\ Crosses({}) /\ UNCHANGED <<now, pass>>
    BY <1>5 DEF ToggleSchedule
  <2>3. ASSUME NEW i \in DOMAIN schedules'
        PROVE  /\ i \in DOMAIN schedules
               /\ schedules'[i].id = schedules[i].id
               /\ schedules'[i].at = schedules[i].at
               /\ schedules'[i].dated = schedules[i].dated
    <3>1. schedules[i] \in Schedules
      BY <2>1, ListFacts
    <3>2. QED
      BY <2>1, <3>1 DEF Schedules
  <2>4. \A x \in ScheduleIds : runs'[x].last = runs[x].last
    BY <1>5, <2>2, ListFacts DEF Runs
  <2>5. ASSUME NEW j \in DOMAIN schedules
        PROVE  runs'[schedules[j].id].last = runs[schedules[j].id].last
    <3>1. schedules[j] \in Schedules
      BY ListFacts
    <3>2. QED
      BY <2>4, <3>1, HasId
  <2>6. QED
    BY <2>2, <2>3, <2>5, EditedInTime
<1>6. QED
  BY <1>2, <1>3, <1>4, <1>5 DEF ScheduleRequests

\* Every step.
LEMMA NextInTime ==
  ASSUME SchedInv, MissedInv, SchedulerNext PROVE MissedInv'
<1>1. CASE CheckBegins
  <2>1. pass' = [at |-> "looks", copy |-> schedules, i |-> 0]
        /\ UNCHANGED <<now, schedules, runs, raced>>
    BY <1>1 DEF CheckBegins
  <2>2. \A i \in DOMAIN schedules : ~(i <= 0)
    BY ListFacts
  <2>3. QED
    BY <2>1, <2>2 DEF MissedInv, LastDue, PassedTrue, DueAt, Since
<1>2. CASE CheckEnds \/ SchedulerRestart
  <2>1. pass' = Idle /\ UNCHANGED <<now, schedules, runs>>
    BY <1>2 DEF CheckEnds, SchedulerRestart
  <2>2. raced \subseteq raced'
    BY <1>2 DEF CheckEnds, SchedulerRestart
  <2>3. pass'.at = "idle"
    BY <2>1 DEF Idle
  <2>4. QED
    BY <2>1, <2>2, <2>3 DEF MissedInv, LastDue, PassedTrue, DueAt, Since
<1>3. CASE SchedulerTick
  <2>1. pass.at = "idle" /\ now' = now + 1 /\ UNCHANGED <<schedules, pass, runs, raced>>
    BY <1>3 DEF SchedulerTick, schedulerVars
  <2>2. \A t \in Int : t <= now => t <= now'
    <3>1. now \in Nat
      BY ListFacts, SecondsNat
    <3>2. QED
      BY <2>1, <3>1
  <2>3. ASSUME NEW i \in DOMAIN schedules PROVE runs[schedules[i].id].last \in Int
    <3>1. schedules[i] \in Schedules
      BY ListFacts
    <3>2. runs[schedules[i].id].last \in Times \cup {Never}
      <4>1. runs[schedules[i].id] \in Runs
        BY <3>1, HasId, ListFacts
      <4>2. QED
        BY <4>1 DEF Runs
    <3>3. Times \cup {Never} \subseteq Int
      BY SecondsNat DEF Never
    <3>4. QED
      BY <3>2, <3>3
  <2>4. QED
    BY <2>1, <2>2, <2>3 DEF MissedInv, LastDue, PassedTrue, DueAt, Since
<1>4. QED
  BY <1>1, <1>2, <1>3, FiresInTime, MarksInTime, EditsInTime DEF SchedulerNext, Check

LEMMA MissedInvariant == Spec => []MissedInv
<1>1. Init => MissedInv
  BY NothingMissed DEF Init
<1>2. SchedInv /\ MissedInv /\ [Next]_vars => MissedInv'
  <2> SUFFICES ASSUME SchedInv, MissedInv, [Next]_vars PROVE MissedInv'
    OBVIOUS
  <2>1. CASE SchedulesWork
    BY <2>1, NextInTime DEF SchedulesWork
  <2>2. CASE UNCHANGED <<now, schedulerVars>>
    BY <2>2 DEF schedulerVars, MissedInv, LastDue, PassedTrue, LastSecond, FiredOrHeld,
                HeldBack, DueAt, Since, Began
  <2>3. QED
    BY <2>1, <2>2 DEF Next, RulesWork, PreviewWorks, vars
<1>3. QED
  BY <1>1, <1>2, SchedulerInvariant, PTL DEF Spec

\* A check that ends in the last second of a window leaves no enabled schedule
\* of that window behind that has not fired in it, unless the list was edited
\* during a check, a mark was lost, its id is shared, or a request stored a
\* last_fired with it that is less than a minute old: for any window, minute and
\* day, firedRecently (scheduler.go:145) never holds back the next occurrence for a
\* firing of the schedule itself.
THEOREM SchedulesNotMissed == Spec => NotMissed
<1>1. SchedInv /\ MissedInv =>
        [CheckEnds =>
           \A i \in DOMAIN pass.copy :
             LET s == pass.copy[i] IN
               s.enabled /\ Since(s, now) = Window - 1 /\ s.id \notin raced =>
                 runs[s.id].last >= Began(s, now) \/ HeldBack(s)]_schedulerVars
  <2> SUFFICES ASSUME SchedInv, MissedInv, CheckEnds, NEW i \in DOMAIN pass.copy,
                      LastSecond(pass.copy[i])
               PROVE  FiredOrHeld(pass.copy[i])
    BY DEF LastSecond, FiredOrHeld
  <2>1. pass.at = "looks" /\ i \in 1..Len(pass.copy) /\ pass.i \in Nat /\ Len(pass.copy) \in Nat
    BY DEF CheckEnds, SchedInv
  <2>2. CASE i <= pass.i
    BY <2>1, <2>2 DEF MissedInv, PassedTrue
  <2>3. CASE i > pass.i
    <3>1. i \in pass.i + 1..Len(pass.copy)
      BY <2>1, <2>3
    <3>2. ~ShouldFire(pass.copy[i], now)
      BY <3>1 DEF CheckEnds
    <3>3. QED
      BY <2>1, <2>3, <3>2, PassedOver
  <2>4. QED
    BY <2>1, <2>2, <2>3
<1>2. QED
  BY <1>1, SchedulerInvariant, MissedInvariant, PTL DEF NotMissed

-----------------------------------------------------------------------------
\* The preview manager.

LoopRecs == [n: Loops, at: {"reads", "opens", "tests", "spawns", "runs", "pauses"},
             set: Settings, on: LoopOrNobody, feed: LoopOrNobody]
CallRecs == [n: Loops, set: Settings, at: {"tests", "stops", "closes", "ends"}]

PreviewTypes ==
  /\ PreviewTypeOK
  /\ loops \subseteq LoopRecs /\ calls \subseteq CallRecs
  /\ events \in 0..MaxEvents
\* FFmpeg runs while its loop waits for it, ...
AliveRuns == \A n \in alive : \E l \in loops : l.n = n /\ l.at = "runs"
\* ... what is to be closed is a channel, ...
ChannelThere ==
  /\ running => stopCh # Nobody
  /\ \A c \in calls : c.at \in {"stops", "closes"} => stopCh # Nobody
\* ... and a request's number is its own, and that of the loop it starts.
NumbersTrue ==
  /\ \A l \in loops : l.n <= events
  /\ \A c \in calls : c.n <= events /\ \A l \in loops : c.n # l.n
  /\ \A c, d \in calls : c.n = d.n => c = d
PInv == PreviewTypes /\ AliveRuns /\ ChannelThere /\ NumbersTrue

\* The program runs no preview yet, or starts one.
LEMMA PreviewBorn ==
  ASSUME NEW n \in Loops, n <= events', events' \in 0..MaxEvents,
         settings' \in Settings, frame' = "off", running' = FALSE, stopCh' = Nobody,
         closed' = {}, cmd' = Nobody, loops' \in {{}, {Begun(n)}}, alive' = {}, sub' = Nobody,
         calls' = {}, overtaken' = FALSE
  PROVE  PInv'
<1>1. Begun(n) \in LoopRecs /\ Begun(n).n = n
  BY DEF Begun, LoopRecs, Settings, LoopOrNobody
<1>2. loops' \subseteq LoopRecs /\ (\A l \in loops' : l.n = n) /\ \A k, l \in loops' : k = l
  BY <1>1
<1>3. QED
  BY <1>2 DEF PInv, PreviewTypes, PreviewTypeOK, AliveRuns, ChannelThere, NumbersTrue,
              LoopRecs, Settings, LoopOrNobody

LEMMA PreviewInitInv == Init => PInv
<1> SUFFICES ASSUME Init PROVE PInv
  OBVIOUS
<1>1. MaxEvents \in Nat /\ 0 \in Loops /\ events = 0
  BY EventsAssumption DEF EventsAssumption, Loops, Init
<1>2. /\ settings \in Settings /\ frame = "off" /\ running = FALSE /\ stopCh = Nobody
      /\ closed = {} /\ cmd = Nobody /\ loops \in {{}, {Begun(0)}} /\ alive = {} /\ sub = Nobody
      /\ calls = {} /\ overtaken = FALSE
  BY PreviewAssumption
     DEF PreviewAssumption, Init, PreviewInit, PreviewIdle, PreviewBegins, Settings
<1>3. Begun(0) \in LoopRecs /\ Begun(0).n = 0
  BY <1>1 DEF Begun, LoopRecs, Settings, LoopOrNobody
<1>4. loops \subseteq LoopRecs /\ (\A l \in loops : l.n = 0) /\ \A k, l \in loops : k = l
  BY <1>2, <1>3
<1>5. QED
  <2>1. NumbersTrue
    BY <1>1, <1>2, <1>4 DEF NumbersTrue
  <2>2. AliveRuns /\ ChannelThere
    BY <1>2 DEF AliveRuns, ChannelThere
  <2>3. PreviewTypeOK
    BY <1>2, <1>4 DEF PreviewTypeOK, LoopRecs, Settings, LoopOrNobody
  <2>4. QED
    BY <1>1, <1>2, <1>4, <2>1, <2>2, <2>3 DEF PInv, PreviewTypes

\* Others may count events.
LEMMA EventFacts ==
  ASSUME PInv, UNCHANGED events \/ Event
  PROVE  /\ events \in Nat /\ events' \in Nat /\ events' \in 0..MaxEvents /\ events <= events'
         /\ Event => events' \in Loops /\ events < events'
BY EventsAssumption DEF EventsAssumption, PInv, PreviewTypes, Event, Loops

LEMMA OthersStep ==
  ASSUME PInv, UNCHANGED events \/ Event, UNCHANGED previewVars
  PROVE  PInv'
<1>1. events \in Nat /\ events' \in Nat /\ events' \in 0..MaxEvents /\ events <= events'
  BY EventFacts
<1>2. /\ UNCHANGED <<settings, running, stopCh, closed, cmd, loops, alive, sub, frame>>
      /\ UNCHANGED <<calls, overtaken>>
  BY DEF previewVars
<1>3. \A m \in Loops : m \in Nat
  BY EventsAssumption DEF EventsAssumption, Loops
<1>4. NumbersTrue'
  <2>1. (\A l \in loops : l.n \in Nat) /\ \A c \in calls : c.n \in Nat
    BY <1>3 DEF PInv, PreviewTypes, LoopRecs, CallRecs
  <2>2. QED
    BY <1>1, <1>2, <2>1 DEF PInv, NumbersTrue
<1>5. QED
  BY <1>1, <1>2, <1>4 DEF PInv, PreviewTypes, PreviewTypeOK, AliveRuns, ChannelThere

-----------------------------------------------------------------------------
\* A loop that goes on keeps its number, its process runs while it waits for it,
\* and a channel stays a channel.
LEMMA LoopStep ==
  ASSUME PInv, NEW l \in loops, NEW m \in LoopRecs, m.n = l.n,
         alive' \subseteq alive \cup {l.n},
         \/ Becomes(l, m) /\ (l.n \in alive' => m.at = "runs")
         \/ loops' = loops \ {l} /\ l.n \notin alive',
         UNCHANGED <<settings, closed, calls, overtaken>>, UNCHANGED events \/ Event,
         {stopCh', cmd', sub'} \subseteq LoopOrNobody, frame' \in Settings, running' \in BOOLEAN,
         running' => stopCh' # Nobody, stopCh # Nobody => stopCh' # Nobody
  PROVE  PInv'
<1>1. events \in Nat /\ events' \in Nat /\ events' \in 0..MaxEvents /\ events <= events'
  BY EventFacts
<1>2. \A k \in Loops : k \in Nat
  BY EventsAssumption DEF EventsAssumption, Loops
<1>3. (\A k \in loops : k.n \in Nat) /\ \A c \in calls : c.n \in Nat
  BY <1>2 DEF PInv, PreviewTypes, LoopRecs, CallRecs
<1>4. \A k \in loops : k.n = l.n => k = l
  BY DEF PInv, PreviewTypes, PreviewTypeOK
<1>5. loops' \subseteq (loops \ {l}) \cup {m} /\ loops \ {l} \subseteq loops'
  BY DEF Becomes
<1>6. loops' \subseteq LoopRecs /\ \A j, k \in loops' : j.n = k.n => j = k
  BY <1>4, <1>5 DEF PInv, PreviewTypes, PreviewTypeOK
<1>7. AliveRuns'
  <2> SUFFICES ASSUME NEW n \in alive' PROVE \E k \in loops' : k.n = n /\ k.at = "runs"
    BY DEF AliveRuns
  <2>1. CASE n = l.n
    BY <2>1 DEF Becomes
  <2>2. CASE n # l.n
    BY <1>5, <2>2 DEF PInv, AliveRuns
  <2>3. QED
    BY <2>1, <2>2
<1>8. alive' \subseteq {k.n : k \in loops'}
  BY <1>7 DEF AliveRuns
<1>9. NumbersTrue'
  BY <1>1, <1>3, <1>5 DEF PInv, NumbersTrue
<1>10. ChannelThere'
  BY DEF PInv, ChannelThere
<1>11. PreviewTypeOK'
  BY <1>6, <1>8 DEF PInv, PreviewTypes, PreviewTypeOK, LoopRecs
<1>12. QED
  BY <1>1, <1>6, <1>7, <1>9, <1>10, <1>11 DEF PInv, PreviewTypes

\* The types of a loop, and that one that waits for nothing has no process.
LEMMA LoopFacts ==
  ASSUME PInv, NEW l \in loops
  PROVE  /\ l \in LoopRecs /\ l.n \in Loops /\ l.n \in LoopOrNobody /\ l.n # Nobody
         /\ l.at # "runs" => l.n \notin alive
         /\ {stopCh, cmd, sub, Nobody} \subseteq LoopOrNobody /\ frame \in Settings
         /\ settings \in Settings /\ running \in BOOLEAN
         /\ running => stopCh # Nobody
<1>1. l \in LoopRecs /\ l.n \in Loops
  BY DEF PInv, PreviewTypes, LoopRecs
<1>2. l.n # Nobody
  BY <1>1, EventsAssumption DEF EventsAssumption, Loops, Nobody
<1>3. l.at # "runs" => l.n \notin alive
  BY DEF PInv, AliveRuns, PreviewTypes, PreviewTypeOK
<1>4. QED
  BY <1>1, <1>2, <1>3 DEF LoopOrNobody, PInv, PreviewTypes, PreviewTypeOK, ChannelThere

\* Each step of a loop, its process, and the goroutines around it.
LEMMA LoopsStep ==
  ASSUME PInv, NEW l \in loops,
         LoopGoesOn(l) \/ SpawnFails(l) \/ Feeds(l) \/ ProcessDies(l) \/ Publishes(l)
  PROVE  PInv'
<1> USE LoopFacts
<1>1. CASE ReadsSettings(l)
  <2> DEFINE m == [l EXCEPT !.at = "opens", !.set = settings]
  <2>1. m \in LoopRecs /\ m.n = l.n
    BY DEF LoopRecs
  <2> HIDE DEF m
  <2>2. Becomes(l, m)
    BY <1>1 DEF ReadsSettings, m
  <2>3. QED
    BY <1>1, <2>1, <2>2, LoopStep DEF ReadsSettings, fields
<1>2. CASE SetsRunning(l)
  <2> DEFINE m == [l EXCEPT !.at = "tests"]
  <2>1. m \in LoopRecs /\ m.n = l.n
    BY DEF LoopRecs
  <2> HIDE DEF m
  <2>2. Becomes(l, m)
    BY <1>2 DEF SetsRunning, LoopAt, m
  <2>3. QED
    BY <1>2, <2>1, <2>2, LoopStep DEF SetsRunning
<1>3. CASE LoopTests(l)
  <2> DEFINE m == [l EXCEPT !.at = "spawns"]
  <2>1. m \in LoopRecs /\ m.n = l.n
    BY DEF LoopRecs
  <2> HIDE DEF m
  <2>2. Becomes(l, m) \/ loops' = loops \ {l}
    BY <1>3 DEF LoopTests, LoopAt, m
  <2>3. QED
    BY <1>3, <2>1, <2>2, LoopStep DEF LoopTests, fields
<1>4. CASE RunsProcess(l)
  <2> DEFINE m == [l EXCEPT !.at = "runs", !.feed = stopCh]
  <2>1. m \in LoopRecs /\ m.n = l.n /\ m.at = "runs"
    BY DEF LoopRecs
  <2> HIDE DEF m
  <2>2. Becomes(l, m)
    BY <1>4 DEF RunsProcess, m
  <2>3. QED
    BY <1>4, <2>1, <2>2, LoopStep DEF RunsProcess
<1>5. ASSUME GoesOn(l), l.n \notin alive, UNCHANGED <<fields, alive, frame, calls, overtaken>>,
             UNCHANGED events \/ Event
      PROVE  PInv'
  <2> DEFINE m == [l EXCEPT !.at = "pauses", !.on = stopCh, !.feed = Nobody]
  <2>1. m \in LoopRecs /\ m.n = l.n
    BY DEF LoopRecs
  <2> HIDE DEF m
  <2>2. Becomes(l, m) \/ loops' = loops \ {l}
    BY <1>5 DEF GoesOn, m
  <2>3. QED
    BY <1>5, <2>1, <2>2, LoopStep DEF GoesOn, fields
<1>6. CASE SpawnFails(l)
  BY <1>5, <1>6 DEF SpawnFails
<1>7. CASE Reaps(l)
  BY <1>5, <1>7 DEF Reaps
<1>8. CASE PauseEnds(l)
  <2> DEFINE m == [l EXCEPT !.at = "tests", !.on = Nobody]
  <2>1. m \in LoopRecs /\ m.n = l.n
    BY DEF LoopRecs
  <2> HIDE DEF m
  <2>2. Becomes(l, m)
    BY <1>8 DEF PauseEnds, m
  <2>3. QED
    BY <1>8, <2>1, <2>2, LoopStep DEF PauseEnds, fields
<1>9. CASE PauseStops(l)
  BY <1>9, LoopStep DEF PauseStops, fields
<1>10. CASE Feeds(l)
  <2> DEFINE m == [l EXCEPT !.feed = stopCh]
  <2>1. m \in LoopRecs /\ m.n = l.n /\ m.at = l.at
    BY DEF LoopRecs
  <2> HIDE DEF m
  <2>2. Becomes(l, m)
    BY <1>10 DEF Feeds, m
  <2>3. QED
    BY <1>10, <2>1, <2>2, LoopStep DEF Feeds, fields
<1>11. CASE FeederLeaves(l)
  <2> DEFINE m == [l EXCEPT !.feed = Nobody]
  <2>1. m \in LoopRecs /\ m.n = l.n
    BY DEF LoopRecs
  <2> HIDE DEF m
  <2>2. Becomes(l, m)
    BY <1>11 DEF FeederLeaves, m
  <2>3. QED
    BY <1>11, <2>1, <2>2, LoopStep DEF FeederLeaves, fields
<1>12. CASE ProcessDies(l)
  <2>1. Becomes(l, l)
    BY <1>12 DEF ProcessDies, Becomes
  <2>2. QED
    BY <1>12, <2>1, LoopStep DEF ProcessDies, fields
<1>13. CASE Publishes(l)
  <2>1. Becomes(l, l)
    BY <1>13 DEF Publishes, Becomes
  <2>2. l.set \in Settings
    BY DEF LoopRecs
  <2>3. QED
    BY <1>13, <2>1, <2>2, LoopStep DEF Publishes, fields
<1>14. QED
  BY <1>1, <1>2, <1>3, <1>4, <1>6, <1>7, <1>8, <1>9, <1>10, <1>11, <1>12, <1>13 DEF LoopGoesOn

\* A call goes from one step to the next, ...
LEMMA CallStep ==
  ASSUME PInv, NEW c \in calls, NEW at \in {"stops", "closes", "ends"}, CallAt(c, at),
         at \in {"stops", "closes"} => stopCh # Nobody,
         UNCHANGED <<settings, stopCh, cmd, loops, sub, frame, overtaken, events>>,
         running' \in BOOLEAN, running' => running, closed' \subseteq Loops, alive' \subseteq alive
  PROVE  PInv'
<1> DEFINE d == [c EXCEPT !.at = at]
<1>1. c \in CallRecs /\ d \in CallRecs /\ d.n = c.n /\ d.at = at
  BY DEF PInv, PreviewTypes, CallRecs
<1> HIDE DEF d
<1>2. calls' = (calls \ {c}) \cup {d} /\ calls' \subseteq CallRecs
  BY <1>1 DEF CallAt, d, PInv, PreviewTypes
<1>3. NumbersTrue'
  BY <1>1, <1>2 DEF PInv, NumbersTrue
<1>4. ChannelThere' /\ AliveRuns'
  <2>1. ChannelThere'
    BY <1>1, <1>2 DEF PInv, ChannelThere
  <2>2. AliveRuns'
    BY DEF PInv, AliveRuns
  <2>3. QED
    BY <2>1, <2>2
<1>5. PreviewTypeOK'
  BY <1>2 DEF PInv, PreviewTypes, PreviewTypeOK, CallRecs
<1>6. QED
  BY <1>2, <1>3, <1>4, <1>5 DEF PInv, PreviewTypes

\* ... and ends with a loop of its number or with no picture.
LEMMA UpdateEndsStep ==
  ASSUME PInv, NEW c \in calls, UpdateEnds(c) PROVE PInv'
<1> DEFINE b == Begun(c.n)
<1>1. /\ calls' = calls \ {c} /\ loops' \in {loops, loops \cup {b}} /\ frame' \in {"off", frame}
      /\ overtaken' = (overtaken \/ loops # {})
      /\ UNCHANGED <<settings, running, stopCh, closed, cmd, alive, sub, events>>
  BY DEF UpdateEnds, fields
<1>2. c \in CallRecs /\ c.n \in Loops
  BY DEF PInv, PreviewTypes, CallRecs
<1>3. b \in LoopRecs /\ b.n = c.n
  BY <1>2 DEF Begun, LoopRecs, Settings, LoopOrNobody
<1> HIDE DEF b
<1>4. loops' \subseteq LoopRecs /\ \A k, l \in loops' : k.n = l.n => k = l
  BY <1>1, <1>3 DEF PInv, PreviewTypes, PreviewTypeOK, NumbersTrue
<1>5. NumbersTrue'
  BY <1>1, <1>3 DEF PInv, NumbersTrue
<1>6. ChannelThere' /\ AliveRuns'
  BY <1>1 DEF PInv, ChannelThere, AliveRuns
<1>7. PreviewTypeOK'
  <2>1. alive' \subseteq {l.n : l \in loops'}
    BY <1>6 DEF AliveRuns
  <2>2. overtaken' \in BOOLEAN
    BY <1>1 DEF PInv, PreviewTypes, PreviewTypeOK
  <2>3. frame' \in Settings
    BY <1>1 DEF PInv, PreviewTypes, PreviewTypeOK, Settings
  <2>4. QED
    BY <1>1, <1>4, <2>1, <2>2, <2>3 DEF PInv, PreviewTypes, PreviewTypeOK, LoopRecs
<1>8. QED
  BY <1>1, <1>4, <1>5, <1>6, <1>7 DEF PInv, PreviewTypes

LEMMA CallsStep ==
  ASSUME PInv, NEW c \in calls, CallGoesOn(c) PROVE PInv'
<1>1. /\ stopCh \in LoopOrNobody /\ closed \subseteq Loops /\ running \in BOOLEAN
      /\ running => stopCh # Nobody
      /\ c.at \in {"stops", "closes"} => stopCh # Nobody
  BY DEF PInv, PreviewTypes, PreviewTypeOK, ChannelThere
<1>2. CASE TestsRunning(c)
  BY <1>1, <1>2, CallStep DEF TestsRunning, fields
<1>3. CASE ClearsRunning(c)
  BY <1>1, <1>3, CallStep DEF ClearsRunning
<1>4. CASE ClosesStopCh(c)
  <2>1. stopCh \in Loops
    BY <1>1, <1>4 DEF ClosesStopCh, LoopOrNobody
  <2>2. QED
    BY <1>1, <1>4, <2>1, CallStep DEF ClosesStopCh
<1>5. QED
  BY <1>2, <1>3, <1>4, UpdateEndsStep DEF CallGoesOn

\* A call has a number that no other has, nor any loop.
LEMMA UpdateSettingsStep ==
  ASSUME PInv, NEW s \in Settings, UpdateSettings(s) PROVE PInv'
<1> DEFINE d == [n |-> events', set |-> s, at |-> "tests"]
<1>1. Event /\ calls' = calls \cup {d} /\ settings' = s
      /\ overtaken' = (overtaken \/ calls # {})
      /\ UNCHANGED <<running, stopCh, closed, cmd, loops, alive, sub, frame>>
  BY DEF UpdateSettings
<1>2. events \in Nat /\ events' \in Loops /\ events < events' /\ events' \in 0..MaxEvents
  BY <1>1, EventFacts
<1>3. d \in CallRecs /\ d.n = events' /\ d.at = "tests"
  BY <1>2 DEF CallRecs
<1> HIDE DEF d
<1>4. \A k \in Loops : k \in Nat
  BY EventsAssumption DEF EventsAssumption, Loops
<1>5. (\A l \in loops : l.n \in Nat) /\ \A c \in calls : c.n \in Nat
  BY <1>4 DEF PInv, PreviewTypes, LoopRecs, CallRecs
<1>6. events' \in Nat
  BY <1>2, <1>4
<1>7. NumbersTrue'
  BY <1>1, <1>2, <1>3, <1>5, <1>6 DEF PInv, NumbersTrue
<1>8. ChannelThere' /\ AliveRuns'
  BY <1>1, <1>3 DEF PInv, ChannelThere, AliveRuns
<1>9. PreviewTypeOK'
  <2>1. overtaken' \in BOOLEAN
    BY <1>1 DEF PInv, PreviewTypes, PreviewTypeOK
  <2>2. calls' \subseteq CallRecs
    BY <1>1, <1>3 DEF PInv, PreviewTypes
  <2>3. QED
    BY <1>1, <2>1, <2>2 DEF PInv, PreviewTypes, PreviewTypeOK, CallRecs
<1>10. QED
  BY <1>1, <1>2, <1>3, <1>7, <1>8, <1>9 DEF PInv, PreviewTypes

\* Every step of the preview.
LEMMA PreviewNextInv ==
  ASSUME PInv, PreviewNext PROVE PInv'
<1>1. CASE PreviewRestart
  <2>1. events' \in Loops /\ events' \in 0..MaxEvents /\ events' \in Nat
    BY <1>1, EventFacts DEF PreviewRestart
  <2>2. events' <= events'
    BY <2>1
  <2>3. AtBoot \in Settings
    BY PreviewAssumption DEF PreviewAssumption, Settings
  <2>4. QED
    BY <1>1, <2>1, <2>2, <2>3, PreviewBorn DEF PreviewRestart
<1>2. QED
  BY <1>1, UpdateSettingsStep, CallsStep, LoopsStep DEF PreviewNext

\* The other two count the same events.
LEMMA OthersCount ==
  ASSUME SchedulesWork \/ RulesWork PROVE (UNCHANGED events \/ Event) /\ UNCHANGED previewVars
<1>1. ASSUME SchedulerNext PROVE UNCHANGED events \/ Event
  BY <1>1 DEF SchedulerNext, Check, CheckBegins, CheckFires, CheckMarks, CheckEnds,
              ScheduleRequests, AddSchedule, UpdateSchedule, RemoveSchedule, ToggleSchedule,
              SchedulerRestart, SchedulerTick
<1>2. ASSUME AutoNext PROVE UNCHANGED events \/ Event
  BY <1>2 DEF AutoNext, Evaluate, EvalBegins, TriggerMet, TriggerNotMet, FireRule, EvalEnds,
              RuleRequests, AddRule, UpdateRule, ToggleRule, RemoveRule, RemoveFaults,
              AutoRestart, WorldChanges, AutoTick
<1>3. QED
  BY <1>1, <1>2 DEF SchedulesWork, RulesWork

LEMMA PreviewInvariant == Spec => []PInv
<1>1. PInv /\ [Next]_vars => PInv'
  <2> SUFFICES ASSUME PInv, [Next]_vars PROVE PInv'
    OBVIOUS
  <2>1. CASE PreviewWorks
    BY <2>1, PreviewNextInv DEF PreviewWorks
  <2>2. CASE SchedulesWork \/ RulesWork
    BY <2>2, OthersCount, OthersStep
  <2>3. CASE UNCHANGED vars
    BY <2>3, OthersStep DEF vars
  <2>4. QED
    BY <2>1, <2>2, <2>3 DEF Next
<1>2. QED
  BY <1>1, PreviewInitInv, PTL DEF Spec

\* For any constants, schedules, rules, settings, requests, deaths and restarts:
\* lists keep their ids unique, trackers belong to rules, and no FFmpeg of the
\* preview runs without a loop of its own that will reap it (preview.go:151-215).
THEOREM AutomationTypes == Spec => []AutomationTypeOK
<1>1. SchedInv /\ AutoInv /\ PInv => AutomationTypeOK
  BY DEF SchedInv, AutoInv, PInv, PreviewTypes, AutomationTypeOK
<1>2. QED
  BY <1>1, SchedulerInvariant, AutoInvariant, PreviewInvariant, PTL
=============================================================================
