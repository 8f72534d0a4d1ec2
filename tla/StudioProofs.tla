---------------------------- MODULE StudioProofs ----------------------------
(***************************************************************************)
(* What the control plane keeps for any number of requests, failures and   *)
(* restarts, checked by TLAPS.                                             *)
(***************************************************************************)
EXTENDS Studio, ListLemmas

\* The bound on requests, and with it on names.
LEMMA MaxNat == MaxEvents \in Nat
BY EventsAssumption DEF EventsAssumption

\* What RestartNotLost needs of a step that leaves the path and the manager: the
\* token stays, and so do the tasks that are about to send one.
LEMMA Kept ==
  ASSUME RestartNotLost, UNCHANGED <<path, mgr, air>>, token => token',
         source = "config" => source' = "config",
         \A u \in tasks : u.pc = "signals" => u \in tasks'
  PROVE  RestartNotLost'
BY DEF RestartNotLost

\* The goroutines: the path is written before the token is sent.
LEMMA TaskStep ==
  ASSUME RestartNotLost, NEW t \in tasks, TaskSteps(t) \/ RenderFails(t)
  PROVE  RestartNotLost'
<1>1. CASE ReadsActive(t) \/ Unlinks(t) \/ Rendered(t) \/ UpdatesScene(t) \/ ChecksActive(t) \/ RenderFails(t)
  <2>1. t.pc # "signals" /\ UNCHANGED <<path, mgr, air, token, source>> /\ tasks \ {t} \subseteq tasks'
    BY <1>1 DEF ReadsActive, Unlinks, Rendered, UpdatesScene, ChecksActive, RenderFails, list, manager,
                Moves, MovesWith, Ends
  <2>2. QED
    BY <2>1, Kept
<1>2. CASE WritesPath(t)
  <2>1. PICK u : u = Task(t.n, t.kind, "signals", t.id, t.path) /\ u \in tasks'
    BY <1>2 DEF WritesPath, Moves, MovesWith
  <2>2. u.pc = "signals"
    BY <2>1 DEF Task
  <2>3. QED
    BY <2>1, <2>2 DEF RestartNotLost
<1>3. CASE Signals(t)
  BY <1>3 DEF Signals, RestartFallback, RestartNotLost
<1>4. CASE Deletes(t)
  <2>1. t.pc = "removes" /\ UNCHANGED <<path, mgr, air, token, source>>
    BY <1>4 DEF Deletes, manager
  <2>2. \A u \in tasks : u.pc = "signals" => u \in tasks'
    BY <1>4, <2>1 DEF Deletes, RemoveScene, Ends
  <2>3. QED
    BY <2>1, <2>2, Kept
<1>5. QED
  BY <1>1, <1>2, <1>3, <1>4 DEF TaskSteps

\* The requests: only PUT changes the path.
LEMMA RequestStep ==
  ASSUME RestartNotLost, SceneRequests
  PROVE  RestartNotLost'
<1>1. ASSUME NEW p \in files, PutConfig(p) PROVE RestartNotLost'
  BY <1>1 DEF PutConfig, RestartNotLost
<1>2. ASSUME NEW id \in Ids, NEW kind \in {"video", "image"},
             \/ ActivateScene(id) \/ DeleteScene(id) \/ QuickRestart
             \/ UploadScene(kind) \/ UploadFallback(kind)
      PROVE  RestartNotLost'
  <2>1. /\ UNCHANGED <<path, mgr, air>> /\ (token => token') /\ tasks \subseteq tasks'
        /\ source = "config" => source' = "config"
    BY <1>2 DEF ActivateScene, DeleteScene, QuickRestart, RestartFallback, UploadScene, AddScene,
                UploadFallback, list, manager
  <2>2. QED
    BY <2>1, Kept
<1>3. "video" \in {"video", "image"} /\ 0 \in Ids
  BY MaxNat DEF Ids
<1>4. QED
  BY <1>1, <1>2, <1>3 DEF SceneRequests

\* The manager reads the path anew after it has taken a token.
LEMMA ManagerStep ==
  ASSUME RestartNotLost, Manager \/ ProcDies
  PROVE  RestartNotLost'
<1>1. tasks' = tasks /\ path' = path /\ source' = source
  BY DEF Manager, MgrStarts, MgrSpawns, MgrSeesDeath, MgrTakesToken, MgrPauseEnds, ProcDies, quiet
<1>2. QED
  BY <1>1 DEF RestartNotLost, Manager, MgrStarts, MgrSpawns, MgrSeesDeath, MgrTakesToken,
              MgrPauseEnds, ProcDies

\* No restart of the fallback is lost: whenever its process plays a file that is
\* not the one the configuration names, a token is in restartFallbackCh or a
\* goroutine is about to put one there (switcher.go:283-290, 886-888), unless it
\* was a PUT of the configuration that named it.
THEOREM NoRestartLost == Spec => []RestartNotLost
<1>1. Init => RestartNotLost
  BY DEF Init, ScenesInit, RestartNotLost
<1>2. ASSUME RestartNotLost, [Next]_vars PROVE RestartNotLost'
  <2>1. CASE ScenesNext
    BY <1>2, <2>1, RequestStep, TaskStep, ManagerStep DEF ScenesNext
  <2>2. CASE UNCHANGED scenesVars
    BY <1>2, <2>2 DEF scenesVars, RestartNotLost
  <2>3. CASE Restarts
    BY <2>3 DEF Restarts, ScenesRestart, RestartNotLost
  <2>4. QED
    BY <1>2, <2>1, <2>2, <2>3 DEF Next, vars
<1>3. QED
  BY <1>1, <1>2, PTL DEF Spec

-----------------------------------------------------------------------------
\* The scenes' list: its entries are as they are made, ...
SceneRecs == [id: Ids, path: Paths]
TaskRecs == [n: Ids, kind: {"change", "delete", "scene", "fallback"},
             pc: {"reads", "writes", "signals", "removes", "unlinks", "renders", "updates", "checks"},
             id: Ids, path: Paths \cup {NoPath}]
IdsOf(sc) == {s.id : s \in ToSet(sc)}
ListTypes == scenes \in Seq(SceneRecs) /\ Unique(scenes)
\* ... with the ids of requests that were made and files of their own, which are
\* there, and the active one among them; ...
ListGood ==
  /\ \A s \in ToSet(scenes) : s.id <= events /\ s.path[2] = s.id /\ s.path \in files
  /\ scenes # <<>> => active \in IdsOf(scenes)
\* ... a task has the file of its own request, which a scene that is still in the
\* list has on disk and one that is to be unlinked is not in the list for; ...
Good(t, count, fs, ids) ==
  /\ t.n <= count /\ t.id <= count
  /\ t.pc \in {"writes", "updates", "checks", "removes", "unlinks"} => t.path \in Paths
  /\ t.pc = "renders" => t.kind \in {"scene", "fallback"} /\ (t.kind = "fallback" => t.path \in Paths)
  /\ t.pc \in {"removes", "unlinks"} => t.path[2] = t.id
  /\ t.pc = "unlinks" => t.id \notin ids
  /\ t.pc = "updates" => t.path = <<"render", t.id>> /\ (t.path \in fs \/ t.id \notin ids)
TasksGood ==
  /\ tasks \subseteq TaskRecs
  /\ \A t \in tasks : Good(t, events, files, IdsOf(scenes))
  /\ \A t, u \in tasks : t.pc = "removes" /\ u.pc = "removes" /\ t.n = u.n => t = u
\* ... and the rest has its type.
RestTypes ==
  /\ events \in 0..MaxEvents
  /\ active \in Ids /\ path \in Paths /\ air \in Paths
  /\ token \in BOOLEAN /\ alive \in BOOLEAN
  /\ mgr \in {"starts", "spawns", "runs", "pauses"}
  /\ files \subseteq Paths
  /\ source \in {"scene", "stale", "other", "config"}
ScenesInv == ListTypes /\ ListGood /\ TasksGood /\ RestTypes

\* What PathOf and ActiveOf find, ...
LEMMA PathOfIs ==
  ASSUME NEW sc \in Seq(SceneRecs), Unique(sc), NEW s \in ToSet(sc)
  PROVE  PathOf(sc, s.id) = s.path /\ s \in SceneRecs /\ s.path # NoPath /\ ActiveOf(sc, s.id) = s.path
<1>1. PICK i \in DOMAIN sc : s = sc[i]
  BY DEF ToSet
<1>2. \E j \in DOMAIN sc : sc[j].id = s.id
  BY <1>1
<1> DEFINE j == CHOOSE j \in DOMAIN sc : sc[j].id = s.id
<1>3. j \in DOMAIN sc /\ sc[j].id = s.id
  BY <1>2
<1>4. PathOf(sc, s.id) = sc[j].path
  BY <1>2 DEF PathOf
<1> HIDE DEF j
<1>5. j = i
  BY <1>1, <1>3 DEF Unique
<1>6. s \in SceneRecs
  BY <1>1
<1>7. s.path # NoPath
  BY <1>6, ScenesAssumption DEF ScenesAssumption, SceneRecs
<1>8. QED
  BY <1>1, <1>4, <1>5, <1>6, <1>7 DEF ActiveOf
\* ... what they do not, ...
LEMMA PathOfFound ==
  ASSUME NEW sc \in Seq(SceneRecs), Unique(sc), NEW id, PathOf(sc, id) # NoPath
  PROVE  \E s \in ToSet(sc) : s.id = id
BY DEF PathOf, ToSet
\* ... and that a list with a scene has one to play.
LEMMA ActiveOfSome ==
  ASSUME NEW sc \in Seq(SceneRecs), Unique(sc), NEW id
  PROVE  IF sc = <<>> THEN ActiveOf(sc, id) = NoPath ELSE ActiveOf(sc, id) \in Paths
<1>1. CASE sc = <<>>
  <2>1. ToSet(sc) = {}
    BY <1>1 DEF ToSet
  <2>2. QED
    BY <1>1, <2>1, PathOfFound DEF ActiveOf
<1>2. CASE sc # <<>> /\ PathOf(sc, id) # NoPath
  <2>1. PICK s \in ToSet(sc) : s.id = id
    BY <1>2, PathOfFound
  <2>2. ActiveOf(sc, id) = s.path /\ s \in SceneRecs
    BY <2>1, PathOfIs
  <2>3. QED
    BY <1>2, <2>2 DEF SceneRecs
<1>3. CASE sc # <<>> /\ PathOf(sc, id) = NoPath
  <2>1. sc[1] \in SceneRecs
    BY <1>3
  <2>2. QED
    BY <1>3, <2>1 DEF ActiveOf, SceneRecs
<1>4. QED
  BY <1>1, <1>2, <1>3

\* The fields of a new task.
LEMMA TaskFields ==
  ASSUME NEW n, NEW kind, NEW pc, NEW id, NEW p, NEW t, t = Task(n, kind, pc, id, p)
  PROVE  /\ t.n = n /\ t.kind = kind /\ t.pc = pc /\ t.id = id /\ t.path = p
         /\ n \in Ids /\ kind \in {"change", "delete", "scene", "fallback"}
            /\ pc \in {"reads", "writes", "signals", "removes", "unlinks", "renders", "updates", "checks"}
            /\ id \in Ids /\ p \in Paths \cup {NoPath}
            => t \in TaskRecs
BY DEF Task, TaskRecs

\* Time goes on: a task stays good.
LEMMA StaysGood ==
  ASSUME NEW t \in TaskRecs, NEW a \in Nat, NEW b \in Nat, a <= b, NEW fs, NEW gs, fs \subseteq gs,
         NEW ids, NEW jds, \A j \in jds : j \in ids \/ (j \in Nat /\ j > a), Good(t, a, fs, ids)
  PROVE  Good(t, b, gs, jds)
<1>1. t.id \in Nat /\ t.n \in Nat
  BY MaxNat DEF TaskRecs, Ids
<1>2. t.id \in jds => t.id \in ids
  BY <1>1 DEF Good
<1>3. QED
  BY <1>1, <1>2 DEF Good

\* A step that adds or moves one task.
LEMMA OneTask ==
  ASSUME ScenesInv, RestTypes', events <= events',
         \A t \in tasks : t \in tasks' => Good(t, events', files', IdsOf(scenes'))
         , NEW u \in TaskRecs, Good(u, events', files', IdsOf(scenes')),
         u.pc = "removes" => u.n > events,
         tasks' \subseteq tasks \cup {u}
  PROVE  TasksGood'
<1>1. ASSUME NEW t \in tasks PROVE t.n <= events /\ t.n \in Nat
  BY MaxNat DEF ScenesInv, TasksGood, Good, TaskRecs, Ids
<1>2. events \in Nat /\ u.n \in Nat
  BY MaxNat DEF ScenesInv, RestTypes, TaskRecs, Ids
<1>3. QED
  BY <1>1, <1>2 DEF ScenesInv, TasksGood

\* A step that leaves the list, and takes no file away.
LEMMA ListKept ==
  ASSUME ScenesInv, RestTypes', events <= events', files \subseteq files',
         scenes' = scenes, active' = active \/ active' \in IdsOf(scenes),
         \/ tasks' \subseteq tasks
         \/ \E u \in TaskRecs :
              /\ Good(u, events', files', IdsOf(scenes))
              /\ u.pc = "removes" => u.n > events
              /\ tasks' \subseteq tasks \cup {u}
  PROVE  ScenesInv'
<1>1. events \in Nat /\ events' \in Nat
  BY MaxNat DEF ScenesInv, RestTypes
<1>2. \A s \in ToSet(scenes) : s.id \in Nat
  <2>1. ToSet(scenes) \subseteq SceneRecs
    BY EntriesOfList DEF ScenesInv, ListTypes
  <2>2. QED
    BY <2>1, MaxNat DEF SceneRecs, Ids
<1>3. ListTypes' /\ ListGood'
  BY <1>1, <1>2 DEF ScenesInv, ListTypes, ListGood
<1>4. \A t \in tasks : Good(t, events', files', IdsOf(scenes'))
  BY <1>1, StaysGood DEF ScenesInv, TasksGood
<1>5. TasksGood'
  <2>1. CASE tasks' \subseteq tasks
    BY <1>4, <2>1 DEF ScenesInv, TasksGood
  <2>2. CASE \E u \in TaskRecs :
              /\ Good(u, events', files', IdsOf(scenes))
              /\ u.pc = "removes" => u.n > events
              /\ tasks' \subseteq tasks \cup {u}
    BY <1>4, <2>2, OneTask
  <2>3. QED
    BY <2>1, <2>2
<1>6. QED
  BY <1>3, <1>5 DEF ScenesInv

\* A request has a number of its own.
LEMMA EventFacts ==
  ASSUME ScenesInv, Event
  PROVE  /\ events' = events + 1 /\ events' \in 0..MaxEvents /\ events' \in Ids /\ events \in Nat
         /\ events < events' /\ events <= events' /\ events' # 0
BY MaxNat DEF Event, ScenesInv, RestTypes, Ids

\* The first program has the default scene or none.
LEMMA InitScenes == Init => ScenesInv
<1> SUFFICES ASSUME Init PROVE ScenesInv
  OBVIOUS
<1> USE MaxNat
<1>1. events = 0 /\ active = 0 /\ tasks = {} /\ files \in {{}, {<<"video", 0>>}, {<<"image", 0>>}} /\ scenes = Default(files)
  BY DEF Init, ScenesInit
<1>0. air = path /\ token = FALSE /\ alive = FALSE /\ mgr = "starts" /\ 0 \in 0..MaxEvents
  BY DEF Init, ScenesInit
<1>2. /\ 0 \in Ids /\ <<"video", 0>> \in Paths /\ <<"image", 0>> \in Paths
      /\ <<"video", 0>> # <<"image", 0>> /\ <<"video", 0>>[2] = 0 /\ <<"image", 0>>[2] = 0
  BY DEF Paths, Ids
<1>3. TasksGood
  BY <1>1 DEF TasksGood
<1>4. CASE files = {}
  <2>1. scenes = <<>> /\ scenes \in Seq(SceneRecs)
    BY <1>1, <1>4 DEF Default
  <2>2. ToSet(scenes) = {}
    BY <2>1, EntriesOfList
  <2>3. ListTypes /\ ListGood
    BY <2>1, <2>2 DEF ListTypes, ListGood, Unique
  <2>4. path = <<"video", 0>> /\ source = "other"
    BY <2>1 DEF Init, ScenesInit
  <2>5. RestTypes
    BY <1>0, <1>1, <1>2, <1>4, <2>4 DEF RestTypes
  <2>6. QED
    BY <1>3, <2>3, <2>5 DEF ScenesInv
<1>5. ASSUME NEW p \in {<<"video", 0>>, <<"image", 0>>}, files = {p} PROVE ScenesInv
  <2>1. scenes = <<[id |-> 0, path |-> p]>> /\ p \in Paths /\ p[2] = 0
    BY <1>1, <1>2, <1>5 DEF Default
  <2> DEFINE s == [id |-> 0, path |-> p]
  <2>2. s \in SceneRecs /\ s.id = 0 /\ s.path = p
    BY <1>2, <2>1 DEF SceneRecs
  <2> HIDE DEF s
  <2>3. scenes \in Seq(SceneRecs) /\ Unique(scenes) /\ ToSet(scenes) = {s} /\ scenes # <<>>
    BY <2>1, <2>2 DEF Unique, ToSet, s
  <2>4. ActivePath \in Paths
    BY <2>3, ActiveOfSome DEF ActivePath
  <2>5. RestTypes
    <3>1. path = ActivePath /\ source = "scene"
      BY <2>3 DEF Init, ScenesInit
    <3>2. files \subseteq Paths
      BY <1>5, <2>1
    <3>3. QED
      BY <1>0, <1>1, <1>2, <2>4, <3>1, <3>2 DEF RestTypes
  <2>6. ListTypes /\ ListGood
    <3>1. active \in IdsOf(scenes)
      BY <1>1, <2>2, <2>3 DEF IdsOf
    <3>2. s.id <= events /\ s.path[2] = s.id /\ s.path \in files
      BY <1>1, <1>5, <2>1, <2>2
    <3>3. QED
      BY <2>3, <3>1, <3>2 DEF ListTypes, ListGood
  <2>7. QED
    BY <1>3, <2>5, <2>6 DEF ScenesInv
<1>6. QED
  BY <1>1, <1>4, <1>5

\* The requests: a scene is added with a file of its own, and a deletion has the
\* file its scene has.
LEMMA RequestScenes ==
  ASSUME ScenesInv, SceneRequests
  PROVE  ScenesInv'
<1> USE MaxNat
<1>1. ASSUME NEW id \in Ids, ActivateScene(id) PROVE ScenesInv'
  <2>1. PICK u : u = Change(events') /\ tasks' = tasks \cup {u}
    BY <1>1 DEF ActivateScene
  <2>2. u \in TaskRecs /\ Good(u, events', files', IdsOf(scenes)) /\ u.pc # "removes"
    <3>1. 0 \in Ids
      BY DEF Ids
    <3>2. QED
      BY <1>1, <2>1, <3>1, EventFacts, TaskFields DEF Change, Good, ActivateScene
  <2>3. active' \in IdsOf(scenes)
    BY <1>1, PathOfFound DEF ActivateScene, ScenesInv, ListTypes, IdsOf
  <2>4. RestTypes'
    BY <1>1, EventFacts DEF ActivateScene, ScenesInv, RestTypes, manager
  <2>5. QED
    BY <1>1, <2>1, <2>2, <2>3, <2>4, EventFacts, ListKept DEF ActivateScene
<1>2. ASSUME NEW id \in Ids, DeleteScene(id) PROVE ScenesInv'
  <2>1. PICK u : u = Task(events', "delete", "removes", id, PathOf(scenes, id)) /\ tasks' = tasks \cup {u}
    BY <1>2 DEF DeleteScene
  <2>2. PICK s \in ToSet(scenes) : s.id = id /\ PathOf(scenes, id) = s.path /\ s \in SceneRecs
    BY <1>2, PathOfFound, PathOfIs DEF DeleteScene, ScenesInv, ListTypes
  <2>3. s.path \in Paths /\ s.id <= events /\ s.path[2] = s.id /\ events \in Nat
    BY <1>2, <2>2, EventFacts DEF ScenesInv, ListGood, SceneRecs, DeleteScene
  <2>4. id <= events'
    BY <1>2, <2>2, <2>3, EventFacts DEF DeleteScene, Ids
  <2>5. u \in TaskRecs /\ Good(u, events', files', IdsOf(scenes)) /\ u.n > events
    BY <1>2, <2>1, <2>2, <2>3, <2>4, EventFacts, TaskFields DEF Good, DeleteScene
  <2>6. RestTypes'
    BY <1>2, EventFacts DEF DeleteScene, ScenesInv, RestTypes, manager, list
  <2>7. QED
    BY <1>2, <2>1, <2>5, <2>6, EventFacts, ListKept DEF DeleteScene, list
<1>4. ASSUME NEW kind \in {"video", "image"}, UploadFallback(kind) PROVE ScenesInv'
  <2>1. PICK u : u = Task(events', "fallback", IF kind = "image" THEN "renders" ELSE "writes", 0, <<kind, 0>>)
                 /\ tasks' = tasks \cup {u}
    BY <1>4 DEF UploadFallback
  <2>2. 0 \in Ids /\ <<kind, 0>> \in Paths /\ files' = files \cup {<<kind, 0>>}
    BY <1>4 DEF Ids, Paths, UploadFallback
  <2>3. u \in TaskRecs /\ u.pc \in {"renders", "writes"} /\ u.kind = "fallback" /\ u.id = 0
        /\ u.path \in Paths /\ u.n = events'
    BY <1>4, <2>1, <2>2, EventFacts, TaskFields DEF UploadFallback
  <2>4. Good(u, events', files', IdsOf(scenes))
    BY <1>4, <2>3, EventFacts DEF Good, UploadFallback
  <2>5. RestTypes'
    BY <1>4, <2>2, EventFacts DEF UploadFallback, ScenesInv, RestTypes, manager, list
  <2>6. QED
    BY <1>4, <2>1, <2>2, <2>3, <2>4, <2>5, EventFacts, ListKept DEF UploadFallback, list
<1>5. ASSUME NEW p \in files, PutConfig(p) PROVE ScenesInv'
  <2>1. RestTypes'
    BY <1>5, EventFacts DEF PutConfig, ScenesInv, RestTypes, manager, list
  <2>2. QED
    BY <1>5, <2>1, EventFacts, ListKept DEF PutConfig, list
<1>6. CASE QuickRestart
  <2>1. RestTypes'
    BY <1>6, EventFacts DEF QuickRestart, RestartFallback, ScenesInv, RestTypes, manager, list
  <2>2. QED
    BY <1>6, <2>1, EventFacts, ListKept DEF QuickRestart, list
<1>3. ASSUME NEW kind \in {"video", "image"}, UploadScene(kind) PROVE ScenesInv'
  <2> DEFINE p == <<kind, events'>>
             e == [id |-> events', path |-> p]
  <2>1. p \in Paths /\ p[2] = events' /\ e \in SceneRecs /\ e.id = events' /\ e.path = p
    BY <1>3, EventFacts DEF UploadScene, Paths, SceneRecs
  <2>2. /\ scenes' = Append(scenes, e) /\ files' = files \cup {p}
        /\ active' = IF scenes = <<>> THEN events' ELSE active
        /\ source' = IF scenes = <<>> /\ source \in {"scene", "stale"} THEN "other" ELSE source
        /\ UNCHANGED <<path, token, mgr, air, alive>>
    BY <1>3 DEF UploadScene, AddScene, manager
  <2> HIDE DEF p, e
  <2>0. /\ events' = events + 1 /\ events' \in 0..MaxEvents /\ events' \in Ids /\ events \in Nat
    BY <1>3, EventFacts DEF UploadScene
  <2>3. ToSet(scenes') = ToSet(scenes) \cup {e} /\ IdsOf(scenes') = IdsOf(scenes) \cup {events'}
    BY <2>1, <2>2, AppendSet DEF ScenesInv, ListTypes, IdsOf
  <2>4. \A s \in ToSet(scenes) : s.id \in Nat /\ s.id <= events /\ s.path[2] = s.id /\ s.path \in files
    <3>1. ToSet(scenes) \subseteq SceneRecs
      BY EntriesOfList DEF ScenesInv, ListTypes
    <3>2. QED
      BY <3>1 DEF ScenesInv, ListGood, SceneRecs, Ids
  <2>5. ListTypes'
    <3>1. ~\E i \in DOMAIN scenes : scenes[i].id = e.id
      BY <2>0, <2>1, <2>4 DEF ToSet
    <3>2. QED
      BY <2>1, <2>2, <3>1, AppendUnique DEF ScenesInv, ListTypes
  <2>6. ListGood'
    <3>1. \A s \in ToSet(scenes') : s.id <= events' /\ s.path[2] = s.id /\ s.path \in files'
      BY <2>0, <2>1, <2>2, <2>3, <2>4
    <3>2. active' \in IdsOf(scenes')
      BY <2>2, <2>3 DEF ScenesInv, ListGood
    <3>3. QED
      BY <3>1, <3>2 DEF ListGood
  <2>7. RestTypes'
    BY <2>0, <2>1, <2>2 DEF ScenesInv, RestTypes
  <2>8. \A t \in tasks : Good(t, events', files', IdsOf(scenes'))
    <3>1. \A j \in IdsOf(scenes') : j \in IdsOf(scenes) \/ (j \in Nat /\ j > events)
      BY <2>0, <2>3
    <3>2. events' \in Nat /\ events <= events' /\ files \subseteq files'
      BY <2>0, <2>2
    <3>3. QED
      BY <2>0, <3>1, <3>2, StaysGood DEF ScenesInv, TasksGood
  <2>9. TasksGood'
    <3>1. PICK u : u = Task(events', "scene", "renders", events', NoPath)
      OBVIOUS
    <3>2. u \in TaskRecs /\ Good(u, events', files', IdsOf(scenes')) /\ u.pc # "removes"
      BY <2>0, <3>1, TaskFields DEF Good
    <3>3. tasks' \subseteq tasks \cup {u}
      BY <1>3, <3>1 DEF UploadScene
    <3>4. QED
      BY <2>0, <2>7, <2>8, <3>2, <3>3, OneTask
  <2>10. QED
    BY <2>5, <2>6, <2>7, <2>9 DEF ScenesInv
<1>7. QED
  BY <1>1, <1>2, <1>3, <1>4, <1>5, <1>6 DEF SceneRequests

\* A task that moves keeps its number, kind and id.
LEMMA MovedTask ==
  ASSUME ScenesInv, NEW t \in tasks, NEW p \in Paths \cup {NoPath},
         NEW pc \in {"reads", "writes", "signals", "removes", "unlinks", "renders", "updates", "checks"},
         NEW u, u = Task(t.n, t.kind, pc, t.id, p)
  PROVE  /\ t \in TaskRecs /\ u \in TaskRecs
         /\ u.n = t.n /\ u.kind = t.kind /\ u.id = t.id /\ u.pc = pc /\ u.path = p
         /\ t.n <= events /\ t.id <= events
<1>1. t \in TaskRecs /\ Good(t, events, files, IdsOf(scenes))
  BY DEF ScenesInv, TasksGood
<1>2. QED
  BY <1>1, TaskFields DEF Good, TaskRecs

\* The scene of a request to delete it is removed.
LEMMA RemoveScenes ==
  ASSUME ScenesInv, NEW t \in tasks, t.pc = "removes", RemoveScene(t.n, t.id),
         UNCHANGED <<path, token, manager, files, source, events>>
  PROVE  ScenesInv'
<1> USE MaxNat
<1>1. PICK i \in DOMAIN scenes : scenes[i].id = t.id /\ scenes' = RemoveAt(scenes, i)
  BY DEF RemoveScene
<1>2. /\ scenes \in Seq(SceneRecs) /\ Unique(scenes) /\ ToSet(scenes) \subseteq SceneRecs
      /\ scenes[i] \in ToSet(scenes)
  BY EntriesOfList DEF ScenesInv, ListTypes, ToSet
<1>3. scenes' \in Seq(SceneRecs) /\ Unique(scenes') /\ ToSet(scenes') = ToSet(scenes) \ {scenes[i]}
  BY <1>1, <1>2, RemoveAtFacts, RemoveAtUnique, RemoveAtSet
<1>4. IdsOf(scenes') \subseteq IdsOf(scenes) \ {t.id}
  <2>1. ASSUME NEW s \in ToSet(scenes'), s.id = t.id PROVE FALSE
    <3>1. PICK j \in DOMAIN scenes : s = scenes[j] /\ j # i
      BY <1>3 DEF ToSet
    <3>2. QED
      BY <1>1, <1>2, <2>1, <3>1 DEF Unique
  <2>2. QED
    BY <1>3, <2>1 DEF IdsOf
<1>5. /\ scenes' # <<>> => active' \in IdsOf(scenes')
      /\ active' \in Ids
  <2>1. scenes' # <<>> => scenes'[1] \in ToSet(scenes') /\ scenes'[1] \in SceneRecs
    BY <1>2, <1>3, FirstOfList
  <2>2. CASE active = t.id /\ scenes' # <<>>
    BY <2>1, <2>2 DEF RemoveScene, IdsOf, SceneRecs
  <2>3. CASE scenes' = <<>>
    BY <2>3 DEF RemoveScene, ScenesInv, RestTypes
  <2>4. CASE active # t.id /\ scenes' # <<>>
    <3>1. active \in IdsOf(scenes)
      <4>1. scenes # <<>>
        BY <1>1
      <4>2. QED
        BY <4>1 DEF ScenesInv, ListGood
    <3>2. PICK s \in ToSet(scenes) : s.id = active
      BY <3>1 DEF IdsOf
    <3>3. s \in ToSet(scenes')
      BY <1>1, <1>3, <2>4, <3>2
    <3>4. active' = active
      BY <2>4 DEF RemoveScene
    <3>5. QED
      BY <3>2, <3>3, <3>4 DEF IdsOf, ScenesInv, RestTypes
  <2>5. QED
    BY <2>2, <2>3, <2>4
<1>6. ListTypes' /\ ListGood'
  BY <1>3, <1>5 DEF ListTypes, ListGood, ScenesInv
<1>7. RestTypes'
  BY <1>5 DEF ScenesInv, RestTypes, manager
<1>8. PICK u : u = Task(t.n, t.kind, "unlinks", t.id, t.path)
  OBVIOUS
<1>9. PICK v : v = Change(t.n)
  OBVIOUS
<1>10. tasks' \subseteq (tasks \ {t}) \cup {u, v}
  <2>1. {x \in tasks : x.n = t.n /\ x.pc = "removes"} = {t}
    BY DEF ScenesInv, TasksGood
  <2>2. QED
    BY <1>8, <1>9, <2>1 DEF RemoveScene
<1>11. /\ t \in TaskRecs /\ Good(t, events, files, IdsOf(scenes))
  BY DEF ScenesInv, TasksGood
<1>12. u \in TaskRecs /\ Good(u, events', files', IdsOf(scenes')) /\ u.pc = "unlinks"
  BY <1>4, <1>8, <1>11, TaskFields DEF Good, TaskRecs
<1>13. v \in TaskRecs /\ Good(v, events', files', IdsOf(scenes')) /\ v.pc = "reads"
  <2>1. 0 \in Ids /\ 0 <= events
    BY DEF Ids, ScenesInv, RestTypes
  <2>2. QED
    BY <1>9, <1>11, <2>1, TaskFields DEF Good, TaskRecs, Change
<1>14. \A x \in tasks : Good(x, events', files', IdsOf(scenes'))
  BY <1>4 DEF ScenesInv, TasksGood, Good
<1>15. TasksGood'
  BY <1>10, <1>12, <1>13, <1>14 DEF ScenesInv, TasksGood
<1>16. QED
  BY <1>6, <1>7, <1>15 DEF ScenesInv

\* The scene gets the file that was made for it.
LEMMA UpdatesScenes ==
  ASSUME ScenesInv, NEW t \in tasks, UpdatesScene(t)
  PROVE  /\ ScenesInv'
         /\ ToSet(scenes') = {IF s.id = t.id THEN [s EXCEPT !.path = t.path] ELSE s : s \in ToSet(scenes)}
<1> USE MaxNat
<1>1. t \in TaskRecs /\ Good(t, events, files, IdsOf(scenes)) /\ t.pc = "updates"
  BY DEF ScenesInv, TasksGood, UpdatesScene
<1>2. t.path \in Paths /\ t.path[2] = t.id /\ t.id \in Ids
  BY <1>1 DEF Good, TaskRecs
<1> DEFINE new(s) == IF s.id = t.id THEN [s EXCEPT !.path = t.path] ELSE s
<1>3. /\ scenes' = [i \in DOMAIN scenes |-> new(scenes[i])]
      /\ UNCHANGED <<active, path, token, mgr, air, alive, files, source, events>>
      /\ tasks' = (tasks \ {t}) \cup {Task(t.n, t.kind, "checks", t.id, t.path)}
  BY DEF UpdatesScene, manager, Moves, MovesWith
<1>4. ASSUME NEW s \in SceneRecs
      PROVE  new(s) \in SceneRecs /\ new(s).id = s.id /\ new(s).path = IF s.id = t.id THEN t.path ELSE s.path
  BY <1>2 DEF SceneRecs
<1>5. scenes \in Seq(SceneRecs) /\ Unique(scenes) /\ ToSet(scenes) \subseteq SceneRecs
  BY EntriesOfList DEF ScenesInv, ListTypes
<1> HIDE DEF new
<1>6. \A i \in DOMAIN scenes : scenes[i] \in SceneRecs
  BY <1>5
<1>7. scenes' \in Seq(SceneRecs) /\ DOMAIN scenes' = DOMAIN scenes /\ Len(scenes') = Len(scenes)
  BY <1>3, <1>4, <1>5, <1>6
<1>8. Unique(scenes')
  BY <1>3, <1>4, <1>5, <1>6, <1>7 DEF Unique
<1>9. ToSet(scenes') = {new(s) : s \in ToSet(scenes)}
  BY <1>3, <1>7 DEF ToSet
<1>10. IdsOf(scenes') = IdsOf(scenes)
  BY <1>4, <1>5, <1>9 DEF IdsOf
<1>11. ListTypes' /\ ListGood'
  <2>1. ASSUME NEW s \in ToSet(scenes')
        PROVE  s.id <= events' /\ s.path[2] = s.id /\ s.path \in files'
    <3>1. PICK o \in ToSet(scenes) : s = new(o)
      BY <1>9
    <3>2. s.id = o.id /\ s.path = (IF o.id = t.id THEN t.path ELSE o.path) /\ o.id \in IdsOf(scenes)
      BY <1>4, <1>5, <3>1 DEF IdsOf
    <3>3. o.id = t.id => t.path \in files
      BY <1>1, <3>2 DEF Good
    <3>4. QED
      BY <1>2, <1>3, <3>2, <3>3 DEF ScenesInv, ListGood
  <2>2. scenes' # <<>> => scenes # <<>>
    BY <1>5, <1>7
  <2>3. QED
    BY <1>3, <1>7, <1>8, <1>10, <2>1, <2>2 DEF ScenesInv, ListTypes, ListGood
<1>12. RestTypes'
  BY <1>3 DEF ScenesInv, RestTypes
<1>13. TasksGood'
  <2>1. PICK u : u = Task(t.n, t.kind, "checks", t.id, t.path)
    OBVIOUS
  <2>2. u \in TaskRecs /\ Good(u, events', files', IdsOf(scenes')) /\ u.pc = "checks"
    BY <1>2, <1>3, <2>1, MovedTask DEF Good
  <2>3. QED
    BY <1>3, <1>10, <1>12, <2>1, <2>2, OneTask DEF ScenesInv, TasksGood, RestTypes
<1>14. QED
  BY <1>9, <1>11, <1>12, <1>13 DEF ScenesInv, new

\* The goroutines and the handlers that go on: a file is unlinked when its scene is
\* no longer listed, and one is given to a scene when it is there.
LEMMA TaskScenes ==
  ASSUME ScenesInv, NEW t \in tasks, TaskSteps(t) \/ RenderFails(t)
  PROVE  ScenesInv'
<1> USE MaxNat
<1>0. /\ t \in TaskRecs /\ Good(t, events, files, IdsOf(scenes)) /\ events \in Nat /\ events <= events
      /\ t.path \in Paths \cup {NoPath}
  BY DEF ScenesInv, TasksGood, RestTypes, TaskRecs
<1>1. CASE ReadsActive(t)
  <2>1. UNCHANGED <<scenes, active, path, token, mgr, air, alive, files, source, events>>
    BY <1>1 DEF ReadsActive, list, manager
  <2>2. RestTypes'
    BY <2>1 DEF ScenesInv, RestTypes
  <2>3. CASE Ends(t)
    BY <1>0, <2>1, <2>2, <2>3, ListKept DEF Ends
  <2>4. CASE ~Ends(t)
    <3>1. ActivePath \in Paths /\ MovesWith(t, "writes", ActivePath)
      BY <1>1, <2>4, ActiveOfSome DEF ReadsActive, ActivePath, ScenesInv, ListTypes
    <3>2. PICK u : u = Task(t.n, t.kind, "writes", t.id, ActivePath)
      OBVIOUS
    <3>3. u \in TaskRecs /\ Good(u, events', files', IdsOf(scenes)) /\ u.pc = "writes"
      BY <2>1, <3>1, <3>2, MovedTask DEF Good
    <3>4. QED
      BY <1>0, <2>1, <2>2, <3>1, <3>2, <3>3, ListKept DEF MovesWith
  <2>5. QED
    BY <2>3, <2>4
<1>2. CASE WritesPath(t)
  <2>1. /\ UNCHANGED <<scenes, active, token, mgr, air, alive, files, events>>
        /\ t.pc = "writes" /\ path' = t.path /\ source' \in {"scene", "stale", "other"} /\ Moves(t, "signals")
    BY <1>2 DEF WritesPath, UpdateFallbackPath, list, manager
  <2>2. RestTypes'
    BY <1>0, <2>1 DEF ScenesInv, RestTypes, Good
  <2>3. PICK u : u = Task(t.n, t.kind, "signals", t.id, t.path)
    OBVIOUS
  <2>4. u \in TaskRecs /\ Good(u, events', files', IdsOf(scenes)) /\ u.pc = "signals"
    BY <1>0, <2>1, <2>3, MovedTask DEF Good
  <2>5. QED
    BY <1>0, <2>1, <2>2, <2>3, <2>4, ListKept DEF Moves, MovesWith
<1>3. CASE Signals(t)
  <2>1. /\ UNCHANGED <<scenes, active, path, mgr, air, alive, files, source, events>>
        /\ token' = TRUE /\ tasks' \subseteq tasks
    BY <1>3 DEF Signals, RestartFallback, Ends, list, manager
  <2>2. RestTypes'
    BY <2>1 DEF ScenesInv, RestTypes
  <2>3. QED
    BY <1>0, <2>1, <2>2, ListKept
<1>4. CASE Deletes(t)
  <2>1. CASE Ends(t) /\ UNCHANGED <<scenes, active>>
    <3>1. UNCHANGED <<scenes, active, path, token, mgr, air, alive, files, source, events>>
      BY <1>4, <2>1 DEF Deletes, manager
    <3>2. RestTypes'
      BY <3>1 DEF ScenesInv, RestTypes
    <3>3. QED
      BY <1>0, <2>1, <3>1, <3>2, ListKept DEF Ends
  <2>2. CASE RemoveScene(t.n, t.id)
    BY <1>4, <2>2, RemoveScenes DEF Deletes
  <2>3. QED
    BY <1>4, <2>1, <2>2 DEF Deletes
<1>5. CASE Unlinks(t)
  <2>1. /\ UNCHANGED <<scenes, active, path, token, mgr, air, alive, source, events>>
        /\ t.pc = "unlinks" /\ tasks' = tasks \ {t} /\ files' = files \ Leftover(t.path)
    BY <1>5 DEF Unlinks, Ends, list, manager
  <2>2. t.path[2] = t.id /\ t.id \notin IdsOf(scenes)
    BY <1>0, <2>1 DEF Good
  <2>3. \A p \in Leftover(t.path) : p[2] = t.id
    BY <2>2 DEF Leftover
  <2>4. RestTypes'
    BY <2>1 DEF ScenesInv, RestTypes
  <2>5. ListTypes' /\ ListGood'
    BY <2>1, <2>2, <2>3 DEF ScenesInv, ListTypes, ListGood, IdsOf
  <2>6. ASSUME NEW u \in tasks PROVE Good(u, events, files', IdsOf(scenes))
    <3>1. Good(u, events, files, IdsOf(scenes))
      BY DEF ScenesInv, TasksGood
    <3>2. u.pc = "updates" => u.path[2] = u.id
      BY <3>1 DEF Good
    <3>3. QED
      BY <2>1, <2>2, <2>3, <3>1, <3>2 DEF Good
  <2>7. TasksGood'
    BY <2>1, <2>6 DEF ScenesInv, TasksGood
  <2>8. QED
    BY <2>4, <2>5, <2>7 DEF ScenesInv
<1>6. CASE Rendered(t)
  <2> DEFINE pc == IF t.kind = "scene" THEN "updates" ELSE "writes"
             p == <<"render", t.id>>
  <2>1. /\ UNCHANGED <<scenes, active, path, token, mgr, air, alive, source, events>>
        /\ t.pc = "renders" /\ MovesWith(t, pc, p) /\ files' = files \cup {p}
    BY <1>6 DEF Rendered, list, manager
  <2>2. p \in Paths /\ p[2] = t.id
    BY <1>0 DEF Paths, TaskRecs
  <2>3. PICK u : u = Task(t.n, t.kind, pc, t.id, p)
    OBVIOUS
  <2>4. u \in TaskRecs /\ u.pc \in {"updates", "writes"} /\ u.path = p /\ u.id = t.id /\ u.n = t.n
        /\ t.n <= events /\ t.id <= events
    BY <2>2, <2>3, MovedTask
  <2>5. Good(u, events', files', IdsOf(scenes))
    BY <2>1, <2>2, <2>4 DEF Good
  <2>6. RestTypes'
    BY <2>1, <2>2 DEF ScenesInv, RestTypes
  <2>7. QED
    BY <1>0, <2>1, <2>3, <2>4, <2>5, <2>6, ListKept DEF MovesWith
<1>7. CASE UpdatesScene(t)
  BY <1>7, UpdatesScenes
<1>8. CASE ChecksActive(t)
  <2>1. /\ UNCHANGED <<scenes, active, path, token, mgr, air, alive, files, source, events>>
        /\ t.pc = "checks" /\ (Moves(t, "writes") \/ Ends(t))
    BY <1>8 DEF ChecksActive, list, manager
  <2>2. RestTypes'
    BY <2>1 DEF ScenesInv, RestTypes
  <2>3. PICK u : u = Task(t.n, t.kind, "writes", t.id, t.path)
    OBVIOUS
  <2>4. u \in TaskRecs /\ Good(u, events', files', IdsOf(scenes)) /\ u.pc = "writes"
    BY <1>0, <2>1, <2>3, MovedTask DEF Good
  <2>5. QED
    BY <1>0, <2>1, <2>2, <2>3, <2>4, ListKept DEF Moves, MovesWith, Ends
<1>9. CASE RenderFails(t)
  <2>1. /\ UNCHANGED <<scenes, active, path, token, mgr, air, alive, files, source>>
        /\ Event /\ t.pc = "renders"
        /\ Ends(t) \/ (t.kind # "scene" /\ Moves(t, "writes"))
    BY <1>9 DEF RenderFails, list, manager
  <2>2. RestTypes'
    BY <2>1, EventFacts DEF ScenesInv, RestTypes
  <2>3. CASE Ends(t)
    BY <1>0, <2>1, <2>2, <2>3, EventFacts, ListKept DEF Ends
  <2>4. CASE t.kind # "scene" /\ Moves(t, "writes")
    <3>1. PICK u : u = Task(t.n, t.kind, "writes", t.id, t.path)
      OBVIOUS
    <3>2. u \in TaskRecs /\ u.pc = "writes" /\ u.path = t.path /\ t.path \in Paths /\ u.n <= events /\ u.id <= events
      BY <1>0, <2>1, <2>4, <3>1, MovedTask DEF Good
    <3>3. Good(u, events', files', IdsOf(scenes))
      BY <2>1, <3>2, EventFacts DEF Good, TaskRecs, Ids
    <3>4. QED
      BY <1>0, <2>1, <2>2, <2>4, <3>1, <3>2, <3>3, EventFacts, ListKept DEF Moves, MovesWith
  <2>5. QED
    BY <2>1, <2>3, <2>4
<1>10. QED
  BY <1>1, <1>2, <1>3, <1>4, <1>5, <1>6, <1>7, <1>8, <1>9 DEF TaskSteps

\* The manager of the process changes no list and no file.
LEMMA ManagerScenes ==
  ASSUME ScenesInv, Manager \/ ProcDies
  PROVE  ScenesInv'
<1>1. /\ UNCHANGED <<scenes, active, path, files, tasks, source>>
      /\ events' = events \/ Event
  BY DEF Manager, MgrStarts, MgrSpawns, MgrSeesDeath, MgrTakesToken, MgrPauseEnds, ProcDies, quiet, list
<1>2. /\ mgr' \in {mgr, "starts", "spawns", "runs", "pauses"} /\ token' \in {token, FALSE}
      /\ alive' \in {alive, TRUE, FALSE} /\ air' \in {air, path}
  <2>1. CASE MgrStarts
    BY <2>1 DEF MgrStarts
  <2>2. CASE MgrSpawns
    <3>1. alive' = TRUE \/ alive' = FALSE
      <4>1. alive' = (air \in files)
        BY <2>2 DEF MgrSpawns
      <4>2. CASE air \in files
        BY <4>1, <4>2
      <4>3. CASE air \notin files
        BY <4>1, <4>3
      <4>4. QED
        BY <4>2, <4>3
    <3>2. QED
      BY <2>2, <3>1 DEF MgrSpawns
  <2>3. CASE MgrSeesDeath \/ MgrPauseEnds \/ ProcDies
    BY <2>3 DEF MgrSeesDeath, MgrPauseEnds, ProcDies
  <2>4. CASE MgrTakesToken
    BY <2>4 DEF MgrTakesToken
  <2>5. QED
    BY <2>1, <2>2, <2>3, <2>4 DEF Manager
<1>3. events' \in 0..MaxEvents /\ events <= events'
  BY <1>1, EventFacts DEF ScenesInv, RestTypes
<1>4. alive' \in BOOLEAN /\ token' \in BOOLEAN
  BY <1>2 DEF ScenesInv, RestTypes
<1>5. RestTypes'
  BY <1>1, <1>2, <1>3, <1>4 DEF ScenesInv, RestTypes
<1>6. QED
  BY <1>1, <1>3, <1>5, ListKept

\* A new program has the list, or the default scene when there is none.
LEMMA RestartScenes ==
  ASSUME ScenesInv, Event, ScenesRestart
  PROVE  ScenesInv'
<1> USE MaxNat
<1> DEFINE on == ActiveOf(scenes', active')
<1>1. /\ scenes' = IF scenes = <<>> THEN Default(files) ELSE scenes
      /\ active' = IF scenes = <<>> THEN 0 ELSE active
      /\ path' = IF on = NoPath THEN path ELSE on
      /\ source' = IF on = NoPath THEN "other" ELSE "scene"
      /\ token' = FALSE /\ mgr' = "starts" /\ alive' = FALSE /\ tasks' = {}
      /\ air' = air /\ files' = files
  BY DEF ScenesRestart, Boots
<1>2. /\ Default(files) \in Seq(SceneRecs) /\ Unique(Default(files))
      /\ \A s \in ToSet(Default(files)) : s.id = 0 /\ s.path[2] = 0 /\ s.path \in files
  <2>1. CASE Default(files) = <<>>
    <3>1. Default(files) \in Seq(SceneRecs)
      BY <2>1
    <3>2. ToSet(Default(files)) = {}
      BY <2>1, <3>1, EntriesOfList
    <3>3. Unique(Default(files))
      BY <2>1 DEF Unique
    <3>4. QED
      BY <3>1, <3>2, <3>3
  <2>2. CASE Default(files) # <<>>
    <3>1. PICK p \in {<<"video", 0>>, <<"image", 0>>} :
             p \in files /\ Default(files) = <<[id |-> 0, path |-> p]>>
      BY <2>2 DEF Default
    <3> DEFINE s == [id |-> 0, path |-> p]
    <3>2. s \in SceneRecs /\ s.id = 0 /\ s.path = p /\ p[2] = 0
      <4>1. p \in Paths /\ p[2] = 0 /\ 0 \in Ids
        BY <3>1 DEF ScenesInv, RestTypes, Ids
      <4>2. QED
        BY <4>1 DEF SceneRecs
    <3>4. Default(files) = <<s>>
      BY <3>1
    <3> HIDE DEF s
    <3>3. Default(files) \in Seq(SceneRecs) /\ ToSet(Default(files)) = {s} /\ Unique(Default(files))
      BY <3>4, <3>2 DEF ToSet, Unique
    <3>5. QED
      BY <3>1, <3>2, <3>3
  <2>3. QED
    BY <2>1, <2>2
<1>3. ListTypes'
  BY <1>1, <1>2 DEF ScenesInv, ListTypes
<1>4. events' \in 0..MaxEvents /\ events <= events' /\ 0 <= events'
  BY EventFacts
<1>5. ListGood'
  <2>1. CASE scenes = <<>>
    <3>1. scenes' = Default(files) /\ active' = 0
      BY <1>1, <2>1
    <3>2. scenes' # <<>> => \E s \in ToSet(scenes') : s.id = active'
      BY <1>2, <3>1, FirstOfList
    <3>3. QED
      BY <1>1, <1>2, <1>4, <3>1, <3>2 DEF ListGood, IdsOf
  <2>2. CASE scenes # <<>>
    <3>1. ToSet(scenes) \subseteq SceneRecs
      BY EntriesOfList DEF ScenesInv, ListTypes
    <3>2. \A s \in ToSet(scenes) : s.id \in Nat
      BY <3>1 DEF SceneRecs, Ids
    <3>3. QED
      BY <1>1, <1>4, <2>2, <3>2 DEF ScenesInv, ListGood, RestTypes
  <2>3. QED
    BY <2>1, <2>2
<1>6. on = NoPath \/ on \in Paths
  BY <1>3, ActiveOfSome DEF ListTypes
<1> HIDE DEF on
<1>7. active' \in Ids
  BY <1>1 DEF Ids, ScenesInv, RestTypes
<1>8. RestTypes'
  BY <1>1, <1>4, <1>6, <1>7 DEF ScenesInv, RestTypes
<1>9. TasksGood'
  BY <1>1 DEF TasksGood
<1>10. QED
  BY <1>3, <1>5, <1>8, <1>9 DEF ScenesInv

\* The recorder counts its requests and failures with the scenes'.
LEMMA RecorderEvents == RecorderNext => events' = events \/ Event
BY DEF RecorderNext, StartRecording, StopRecording, CallSteps, Creates, Flags, Tests, Clears, Closes,
       SleepEnds, LoopSteps, LoopBegins, LoopRounds, LoopStops, LoopLeaves, LoopFails, LoopLimit,
       RemuxSteps, RemuxBegins, RemuxDone, RemuxRemoves, RemuxFails

\* Every step of the program keeps the scenes.
LEMMA NextScenes == ScenesInv /\ [Next]_vars => ScenesInv'
<1> SUFFICES ASSUME ScenesInv, [Next]_vars PROVE ScenesInv'
  OBVIOUS
<1>1. CASE ScenesNext
  BY <1>1, RequestScenes, TaskScenes, ManagerScenes DEF ScenesNext
<1>2. CASE UNCHANGED scenesVars /\ (events' = events \/ Event)
  <2>1. events' \in 0..MaxEvents /\ events <= events'
    BY <1>2, EventFacts, MaxNat DEF ScenesInv, RestTypes
  <2>2. RestTypes'
    BY <1>2, <2>1 DEF scenesVars, ScenesInv, RestTypes
  <2>3. QED
    BY <1>2, <2>1, <2>2, ListKept DEF scenesVars
<1>3. CASE Restarts
  BY <1>3, RestartScenes DEF Restarts
<1>4. QED
  BY <1>1, <1>2, <1>3, RecorderEvents DEF Next, vars

-----------------------------------------------------------------------------
\* What is to be played, when the list has a scene: the file of the one that is active.
LEMMA ActiveScene ==
  ASSUME ScenesInv, scenes # <<>>
  PROVE  \E s \in ToSet(scenes) : s.id = active /\ s.path = ActivePath
<1>1. PICK s \in ToSet(scenes) : s.id = active
  BY DEF ScenesInv, ListGood, IdsOf
<1>2. QED
  BY <1>1, PathOfIs DEF ScenesInv, ListTypes, ActivePath
\* The same, by the id.
LEMMA ActiveIs ==
  ASSUME NEW sc, sc \in Seq(SceneRecs), Unique(sc), NEW s \in ToSet(sc), NEW id, s.id = id
  PROVE  ActiveOf(sc, id) = s.path
BY PathOfIs

\* A task that will have the path follow.
Follows(t, on, p) ==
  \/ t.pc = "reads"
  \/ t.pc = "writes" /\ t.path = p
  \/ t.pc = "checks" /\ t.id = on /\ t.path = p

\* A step that leaves the path, the active scene and its file.
LEMMA FollowsStill ==
  ASSUME PathFollows, path' = path, source' = "scene" => source = "scene",
         scenes' # <<>> => scenes # <<>> /\ active' = active /\ ActivePath' = ActivePath,
         \/ tasks \subseteq tasks'
         \/ \E t \in tasks : tasks \ {t} \subseteq tasks' /\
              (Follows(t, active, ActivePath) => path = ActivePath \/ \E u \in tasks' : Follows(u, active, ActivePath))
  PROVE  PathFollows'
<1> SUFFICES ASSUME source' = "scene", scenes' # <<>>
             PROVE  path' = ActivePath' \/ \E u \in tasks' : Follows(u, active', ActivePath')
  BY DEF PathFollows, Follows
<1>1. path = ActivePath \/ \E t \in tasks : Follows(t, active, ActivePath)
  BY DEF PathFollows, Follows
<1>2. QED
  BY <1>1 DEF Follows

\* The requests: a change of the active scene is told, and a first scene marked.
LEMMA RequestFollows ==
  ASSUME ScenesInv, PathFollows, SceneRequests
  PROVE  PathFollows'
<1>1. ASSUME NEW id \in Ids, ActivateScene(id) PROVE PathFollows'
  <2>1. PICK u : u = Change(events') /\ tasks' = tasks \cup {u}
    BY <1>1 DEF ActivateScene
  <2>2. u.pc = "reads"
    BY <2>1 DEF Change, Task
  <2>3. QED
    BY <2>1, <2>2 DEF PathFollows
<1>2. ASSUME NEW id \in Ids, DeleteScene(id) PROVE PathFollows'
  <2>1. UNCHANGED <<scenes, active, path, source>> /\ tasks \subseteq tasks'
    BY <1>2 DEF DeleteScene, list
  <2>2. QED
    BY <2>1, FollowsStill DEF ActivePath
<1>3. ASSUME NEW kind \in {"video", "image"}, UploadScene(kind) PROVE PathFollows'
  <2> DEFINE p == <<kind, events'>>
             e == [id |-> events', path |-> p]
  <2>1. e \in SceneRecs
    BY <1>3, EventFacts DEF UploadScene, Paths, SceneRecs
  <2>2. /\ scenes' = Append(scenes, e) /\ path' = path
        /\ active' = IF scenes = <<>> THEN events' ELSE active
        /\ source' = IF scenes = <<>> /\ source \in {"scene", "stale"} THEN "other" ELSE source
        /\ tasks \subseteq tasks'
    BY <1>3 DEF UploadScene, AddScene
  <2> HIDE DEF p, e
  <2>3. ScenesInv'
    BY RequestScenes
  <2>4. CASE scenes = <<>>
    BY <2>2, <2>4 DEF PathFollows
  <2>5. CASE scenes # <<>>
    <3>1. PICK s \in ToSet(scenes) : s.id = active /\ s.path = ActivePath
      BY <2>5, ActiveScene
    <3>2. s \in ToSet(scenes')
      BY <2>1, <2>2, AppendSet DEF ScenesInv, ListTypes
    <3>3. active' = active /\ ActivePath' = ActivePath
      BY <2>2, <2>3, <2>5, <3>1, <3>2, ActiveIs DEF ScenesInv, ListTypes, ActivePath
    <3>4. QED
      BY <2>2, <2>5, <3>3, FollowsStill
  <2>6. QED
    BY <2>4, <2>5
<1>4. ASSUME NEW kind \in {"video", "image"}, UploadFallback(kind) PROVE PathFollows'
  <2>1. UNCHANGED <<scenes, active, path, source>> /\ tasks \subseteq tasks'
    BY <1>4 DEF UploadFallback, list
  <2>2. QED
    BY <2>1, FollowsStill DEF ActivePath
<1>5. ASSUME NEW p \in files, PutConfig(p) PROVE PathFollows'
  BY <1>5 DEF PutConfig, PathFollows
<1>6. CASE QuickRestart
  <2>1. UNCHANGED <<scenes, active, path, source, tasks>>
    BY <1>6 DEF QuickRestart, list
  <2>2. QED
    BY <2>1, FollowsStill DEF ActivePath
<1>7. QED
  BY <1>1, <1>2, <1>3, <1>4, <1>5, <1>6 DEF SceneRequests

\* The goroutines: who reads the active scene writes its path, and who gives it a
\* file checks, and so does the removal of the active scene.
LEMMA TaskFollows ==
  ASSUME ScenesInv, PathFollows, NEW t \in tasks, TaskSteps(t) \/ RenderFails(t)
  PROVE  PathFollows'
<1>0. ScenesInv' /\ t \in TaskRecs /\ t.path \in Paths \cup {NoPath}
  BY TaskScenes DEF ScenesInv, TasksGood, TaskRecs
<1>1. CASE ReadsActive(t)
  <2>1. UNCHANGED <<scenes, active, path, source>> /\ tasks \ {t} \subseteq tasks'
    BY <1>1 DEF ReadsActive, list, MovesWith, Ends
  <2>2. CASE scenes = <<>>
    BY <2>1, <2>2 DEF PathFollows
  <2>3. CASE scenes # <<>>
    <3>1. ActivePath \in Paths /\ ActivePath # NoPath
      BY <2>3, ActiveOfSome, ScenesAssumption DEF ScenesAssumption, ActivePath, ScenesInv, ListTypes
    <3>2. PICK u : u = Task(t.n, t.kind, "writes", t.id, ActivePath)
      OBVIOUS
    <3>3. u \in tasks' /\ Follows(u, active, ActivePath)
      BY <1>1, <3>1, <3>2, MovedTask DEF ReadsActive, MovesWith, Follows
    <3>4. QED
      BY <2>1, <2>3, <3>3, FollowsStill DEF ActivePath
  <2>4. QED
    BY <2>2, <2>3
<1>2. CASE WritesPath(t)
  <2>1. /\ UNCHANGED <<scenes, active>> /\ path' = t.path
        /\ source' = "scene" => t.path = ActivePath
    BY <1>2 DEF WritesPath, UpdateFallbackPath, list
  <2>2. QED
    BY <2>1 DEF PathFollows, ActivePath
<1>3. CASE Signals(t) \/ Unlinks(t) \/ Rendered(t) \/ RenderFails(t)
  <2>1. UNCHANGED <<scenes, active, path, source>> /\ tasks \ {t} \subseteq tasks'
        /\ t.pc \in {"signals", "unlinks", "renders"}
    BY <1>3 DEF Signals, Unlinks, Rendered, RenderFails, list, Moves, MovesWith, Ends
  <2>2. QED
    BY <2>1, FollowsStill DEF ActivePath, Follows
<1>4. CASE Deletes(t) /\ Ends(t) /\ UNCHANGED <<scenes, active>>
  <2>1. UNCHANGED <<scenes, active, path, source>> /\ tasks \ {t} \subseteq tasks' /\ t.pc = "removes"
    BY <1>4 DEF Deletes, Ends
  <2>2. QED
    BY <2>1, FollowsStill DEF ActivePath, Follows
<1>5. CASE Deletes(t) /\ RemoveScene(t.n, t.id)
  <2>1. /\ t.pc = "removes" /\ UNCHANGED <<path, source>>
    BY <1>5 DEF Deletes
  <2>2. CASE active' # active
    <3>1. PICK u : u = Change(t.n) /\ u \in tasks'
      BY <1>5, <2>2 DEF RemoveScene
    <3>2. u.pc = "reads"
      BY <3>1 DEF Change, Task
    <3>3. QED
      BY <3>1, <3>2 DEF PathFollows
  <2>3. CASE scenes' = <<>>
    BY <2>3 DEF PathFollows
  <2>4. CASE active' = active /\ scenes' # <<>>
    <3>1. PICK i \in DOMAIN scenes : scenes[i].id = t.id /\ scenes' = RemoveAt(scenes, i)
      BY <1>5 DEF RemoveScene
    <3>2. /\ scenes \in Seq(SceneRecs) /\ Unique(scenes) /\ scenes # <<>>
          /\ ToSet(scenes') \subseteq ToSet(scenes)
      <4>1. scenes \in Seq(SceneRecs) /\ Unique(scenes)
        BY DEF ScenesInv, ListTypes
      <4>2. QED
        BY <3>1, <4>1, RemoveAtSet
    <3>3. PICK s \in ToSet(scenes') : s.id = active'
      BY <1>0, <2>4 DEF ScenesInv, ListGood, IdsOf
    <3>4. ActivePath' = s.path
      BY <1>0, <3>3, ActiveIs DEF ScenesInv, ListTypes, ActivePath
    <3>5. ActivePath = s.path
      BY <2>4, <3>2, <3>3, ActiveIs DEF ActivePath
    <3>6. {x \in tasks : x.n = t.n /\ x.pc = "removes"} = {t}
      BY <2>1 DEF ScenesInv, TasksGood
    <3>7. tasks \ {t} \subseteq tasks'
      BY <1>5, <3>6 DEF RemoveScene
    <3>8. QED
      BY <2>1, <2>4, <3>2, <3>4, <3>5, <3>7, FollowsStill DEF Follows
  <2>5. QED
    BY <2>2, <2>3, <2>4
<1>6. CASE UpdatesScene(t)
  <2>1. /\ UNCHANGED <<active, path, source>> /\ t.pc = "updates" /\ Moves(t, "checks")
        /\ DOMAIN scenes' = DOMAIN scenes
    BY <1>6 DEF UpdatesScene
  <2>2. PICK u : u = Task(t.n, t.kind, "checks", t.id, t.path) /\ u \in tasks' /\ tasks \ {t} \subseteq tasks'
    BY <2>1 DEF Moves, MovesWith
  <2>3. u.pc = "checks" /\ u.id = t.id /\ u.path = t.path
    BY <1>0, <2>2, MovedTask
  <2>4. ToSet(scenes') = {IF s.id = t.id THEN [s EXCEPT !.path = t.path] ELSE s : s \in ToSet(scenes)}
    BY <1>6, UpdatesScenes
  <2>5. CASE scenes = <<>>
    <3>1. scenes' = <<>>
      BY <1>0, <2>1, <2>5 DEF ScenesInv, ListTypes
    <3>2. QED
      BY <3>1 DEF PathFollows
  <2>6. CASE scenes # <<>>
    <3>1. PICK s \in ToSet(scenes) : s.id = active /\ s.path = ActivePath
      BY <2>6, ActiveScene
    <3>2. s \in SceneRecs
      BY EntriesOfList DEF ScenesInv, ListTypes
    <3>3. CASE active = t.id
      <4> DEFINE r == [s EXCEPT !.path = t.path]
      <4>1. r \in ToSet(scenes')
        BY <2>4, <3>1, <3>3
      <4>2. r.id = active' /\ r.path = t.path
        BY <2>1, <3>1, <3>2 DEF SceneRecs
      <4> HIDE DEF r
      <4>3. ActivePath' = t.path
        BY <1>0, <4>1, <4>2, ActiveIs DEF ScenesInv, ListTypes, ActivePath
      <4>4. QED
        BY <2>1, <2>2, <2>3, <3>3, <4>3 DEF PathFollows
    <3>4. CASE active # t.id
      <4>1. s \in ToSet(scenes')
        BY <2>4, <3>1, <3>4
      <4>2. ActivePath' = ActivePath
        BY <1>0, <2>1, <3>1, <4>1, ActiveIs DEF ScenesInv, ListTypes, ActivePath
      <4>3. QED
        BY <2>1, <2>2, <2>6, <4>2, FollowsStill DEF Follows
    <3>5. QED
      BY <3>3, <3>4
  <2>7. QED
    BY <2>5, <2>6
<1>7. CASE ChecksActive(t)
  <2>1. UNCHANGED <<scenes, active, path, source>> /\ tasks \ {t} \subseteq tasks' /\ t.pc = "checks"
    BY <1>7 DEF ChecksActive, list, Moves, MovesWith, Ends
  <2>2. CASE active # t.id
    BY <2>1, <2>2, FollowsStill DEF ActivePath, Follows
  <2>3. CASE active = t.id
    <3>1. PICK u : u = Task(t.n, t.kind, "writes", t.id, t.path) /\ u \in tasks'
      BY <1>7, <2>3 DEF ChecksActive, Moves, MovesWith
    <3>2. u.pc = "writes" /\ u.path = t.path
      BY <1>0, <3>1, MovedTask
    <3>3. QED
      BY <2>1, <3>1, <3>2, FollowsStill DEF ActivePath, Follows
  <2>4. QED
    BY <2>2, <2>3
<1>8. QED
  BY <1>1, <1>2, <1>3, <1>4, <1>5, <1>6, <1>7 DEF TaskSteps, Deletes

\* A new program plays the active scene, when there is one.
LEMMA RestartFollows ==
  ASSUME ScenesInv, Event, ScenesRestart
  PROVE  PathFollows'
<1>1. /\ path' = IF ActivePath' = NoPath THEN path ELSE ActivePath'
  BY DEF ScenesRestart, Boots, ActivePath
<1>2. scenes' # <<>> => ActivePath' # NoPath
  BY RestartScenes, ActiveOfSome, ScenesAssumption DEF ScenesAssumption, ScenesInv, ListTypes, ActivePath
<1>3. QED
  BY <1>1, <1>2 DEF PathFollows

\* Every step has the path follow.
LEMMA NextFollows == ScenesInv /\ PathFollows /\ [Next]_vars => PathFollows'
<1> SUFFICES ASSUME ScenesInv, PathFollows, [Next]_vars PROVE PathFollows'
  OBVIOUS
<1>1. CASE UNCHANGED <<scenes, active, path, source, tasks>>
  BY <1>1, FollowsStill DEF ActivePath
<1>2. CASE ScenesNext
  <2>1. CASE Manager \/ ProcDies
    BY <1>1, <2>1 DEF Manager, MgrStarts, MgrSpawns, MgrSeesDeath, MgrTakesToken, MgrPauseEnds, ProcDies, quiet, list
  <2>2. QED
    BY <1>2, <2>1, RequestFollows, TaskFollows DEF ScenesNext
<1>3. CASE Restarts
  BY <1>3, RestartFollows DEF Restarts
<1>4. QED
  BY <1>1, <1>2, <1>3 DEF Next, vars, scenesVars

\* Both hold throughout.
LEMMA ScenesInvariant == Spec => [](ScenesInv /\ PathFollows)
<1>1. Init => PathFollows
  BY DEF Init, ScenesInit, PathFollows
<1>2. QED
  BY <1>1, InitScenes, NextScenes, NextFollows, PTL DEF Spec

\* No change of the active scene, of its file or of the list is left without the path
\* that follows it: config.FallbackPath is the active scene's file, or a goroutine is
\* on its way that will make it so, unless something else has written the path
\* (SceneManager, main.go:147-159, handleUploadScene).
THEOREM PathIsFollowed == Spec => []PathFollows
BY ScenesInvariant, PTL

\* A listed scene has its file on disk, in whatever order uploads, the ends of their
\* rendering and deletions come (handleUploadScene, handleDeleteScene).
THEOREM ScenesStayPlayable == Spec => []ScenesPlayable
<1>1. ScenesInv => ScenesPlayable
  BY DEF ScenesInv, ListGood, ToSet, ScenesPlayable
<1>2. QED
  BY <1>1, ScenesInvariant, PTL

-----------------------------------------------------------------------------
\* The recorder: a request is named once, ...
CallRecs == [n: Names, at: {"creates", "flags", "tests", "clears", "closes", "sleeps"}]
RemuxRecs == [n: Names, at: {"begins", "runs", "removes"}, sec: Names]
RecTypes ==
  /\ events \in 0..MaxEvents
  /\ fields \in [file: Names, sec: Names, stop: Names]
  /\ calls \subseteq CallRecs /\ remux \subseteq RemuxRecs
  /\ ts \in [Seconds -> Names] /\ mp4 \in [Seconds -> Names] /\ torn \subseteq Seconds
  /\ begun \in [Names -> Names]
Numbered ==
  /\ \A n \in Names : begun[n] # 0 => n \in 1..events
  /\ \A c \in calls : c.n \in 1..events /\ (c.at = "creates" => begun[c.n] = 0)
\* ... the fields and the conversions name a second in which one has begun, ...
Used(s) == s \in Seconds /\ \E n \in Names : begun[n] = s
NeedsFile == recording \/ \E c \in calls : c.at \in {"flags", "clears", "closes", "sleeps"}
InUse == (NeedsFile => Used(fields.sec)) /\ \A r \in remux : Used(r.sec)
\* ... and a conversion that has its output has taken it from the one recording
\* of its second, and no other will write it.
Safe(n) == ts[begun[n]] = n \/ (mp4[begun[n]] = n /\ begun[n] \notin torn)
Converts(r) ==
  r.at # "begins" =>
    /\ mp4[r.sec] # 0 /\ \A n \in Names : begun[n] = r.sec => mp4[r.sec] = n
    /\ r.at = "removes" => r.sec \notin torn
AllSafe ==
  "second" \notin raced =>
    (\A n \in Names : begun[n] # 0 => Safe(n)) /\ \A r \in remux : Converts(r)
KInv == RecTypes /\ Numbered /\ InUse /\ AllSafe

\* A recording has a second.
LEMMA BegunInSeconds ==
  ASSUME KInv, NEW n \in Names, begun[n] # 0
  PROVE  begun[n] \in Seconds
<1>1. begun[n] \in 0..MaxEvents
  BY DEF KInv, RecTypes, Names
<1>2. QED
  BY <1>1, MaxNat DEF Seconds

\* A step that leaves the fields, the disk and the conversions alone.
LEMMA RecordingsLeft ==
  ASSUME KInv, UNCHANGED <<fields, disk, remux, begun>>,
         events' \in 0..MaxEvents, events <= events',
         "second" \in raced => "second" \in raced',
         calls' \subseteq CallRecs,
         \A c \in calls' : c.n \in 1..events' /\ (c.at = "creates" => begun[c.n] = 0),
         NeedsFile' => NeedsFile
  PROVE  KInv'
<1> USE MaxNat DEF KInv
<1>1. RecTypes'
  BY DEF RecTypes, disk
<1>2. Numbered'
  BY DEF Numbered, RecTypes
<1>3. InUse'
  BY DEF InUse, Used
<1>4. AllSafe'
  BY DEF AllSafe, Safe, Converts, disk
<1>5. QED
  BY <1>1, <1>2, <1>3, <1>4

\* A call of its own number begins ...
LEMMA CallBorn ==
  ASSUME KInv, UNCHANGED <<fields, disk, remux, begun>>, Event, Overlaps,
         NEW at \in {"creates", "clears", "tests"},
         calls' = calls \cup {[n |-> events', at |-> at]},
         recording' = recording, at = "clears" => recording
  PROVE  KInv'
<1> USE MaxNat DEF KInv
<1>1. events' = events + 1 /\ events' \in 1..MaxEvents /\ events' \in Names
  BY DEF Event, RecTypes, Names
<1>2. begun[events'] = 0
  BY <1>1 DEF Numbered, RecTypes
<1>3. calls' \subseteq CallRecs
  BY <1>1 DEF RecTypes, CallRecs
<1>4. \A c \in calls' : c.n \in 1..events' /\ (c.at = "creates" => begun[c.n] = 0)
  BY <1>1, <1>2 DEF Numbered, RecTypes
<1>5. NeedsFile' => NeedsFile
  BY DEF NeedsFile
<1>6. QED
  BY <1>1, <1>3, <1>4, <1>5, RecordingsLeft DEF Overlaps, RecTypes
\* ... and goes on.
LEMMA CallGoesOn ==
  ASSUME KInv, UNCHANGED <<fields, disk, remux, begun, events, raced>>, NEW c \in calls,
         \/ calls' = calls \ {c}
         \/ \E at \in {"clears", "closes", "sleeps"} : CallTo(c, at),
         NeedsFile' => NeedsFile
  PROVE  KInv'
<1> USE MaxNat DEF KInv
<1>1. ASSUME NEW d \in calls', d \notin calls
      PROVE  d \in CallRecs /\ d.n = c.n /\ d.at # "creates"
  BY <1>1 DEF CallTo, RecTypes, CallRecs
<1>2. calls' \subseteq CallRecs
  BY <1>1 DEF RecTypes
<1>3. \A d \in calls' : d.n \in 1..events /\ (d.at = "creates" => begun[d.n] = 0)
  BY <1>1 DEF Numbered
<1>4. QED
  BY <1>2, <1>3, RecordingsLeft DEF RecTypes

\* Start makes a file of a new second, or is marked.
LEMMA CreatesKeeps ==
  ASSUME KInv, NEW c \in calls, Creates(c)
  PROVE  KInv'
<1> USE MaxNat DEF KInv
<1>1. PICK s \in Seconds :
         /\ ts' = [ts EXCEPT ![s] = c.n]
         /\ fields' = [file |-> c.n, sec |-> s, stop |-> c.n]
         /\ begun' = [begun EXCEPT ![c.n] = s]
         /\ raced' = IF \E n \in Names : begun[n] = s THEN raced \cup {"second"} ELSE raced
  BY DEF Creates
<1>2. /\ c \in CallRecs /\ c.at = "creates" /\ CallTo(c, "flags")
      /\ UNCHANGED <<recording, mp4, torn, remux, events>>
      /\ c.n \in Names /\ c.n # 0 /\ c.n \in 1..events /\ begun[c.n] = 0
  BY DEF Creates, RecTypes, CallRecs, Numbered
<1>3. s \in Names /\ s # 0
  BY DEF Names, Seconds
<1>4. /\ begun' \in [Names -> Names] /\ begun'[c.n] = s
      /\ \A n \in Names : n # c.n => begun'[n] = begun[n]
      /\ ts' \in [Seconds -> Names] /\ ts'[s] = c.n
      /\ \A x \in Seconds : x # s => ts'[x] = ts[x]
  BY <1>1, <1>2, <1>3 DEF RecTypes
<1>5. ASSUME NEW d \in calls', d.at = "creates"
      PROVE  d \in calls /\ d # c
  BY <1>2, <1>5 DEF CallTo, CallRecs
<1>6. ASSUME NEW d \in calls'
      PROVE  d \in CallRecs /\ d.n \in 1..events
  BY <1>2, <1>6 DEF CallTo, CallRecs, RecTypes, Numbered
<1>7. RecTypes'
  BY <1>1, <1>2, <1>3, <1>4, <1>6 DEF RecTypes
<1>8. Numbered'
  <2>1. ASSUME NEW d \in calls', d.at = "creates" PROVE begun'[d.n] = 0
    <3>1. d \in CallRecs /\ d.at = c.at /\ d # c
      BY <1>2, <1>5, <1>6, <2>1
    <3>2. d.n # c.n /\ d.n \in Names
      BY <1>2, <3>1 DEF CallRecs
    <3>3. QED
      BY <1>4, <1>5, <2>1, <3>2 DEF Numbered
  <2>2. QED
    BY <1>2, <1>4, <1>6, <2>1 DEF Numbered
<1>9. InUse'
  <2>1. Used(s)'
    BY <1>2, <1>4 DEF Used
  <2>2. ASSUME NEW r \in remux PROVE Used(r.sec)'
    <3>1. PICK n \in Names : r.sec \in Seconds /\ begun[n] = r.sec
      BY DEF InUse, Used
    <3>2. n # c.n
      BY <1>2, <3>1 DEF Seconds
    <3>3. QED
      BY <1>4, <3>1, <3>2 DEF Used
  <2>3. QED
    BY <1>1, <1>2, <2>1, <2>2 DEF InUse
<1>10. AllSafe'
  <2> SUFFICES ASSUME "second" \notin raced'
               PROVE  (\A n \in Names : begun'[n] # 0 => Safe(n)') /\ \A r \in remux : Converts(r)'
    BY <1>2 DEF AllSafe
  <2>1. "second" \notin raced /\ \A n \in Names : begun[n] # s
    BY <1>1
  <2>2. ASSUME NEW n \in Names, begun'[n] # 0 PROVE Safe(n)'
    <3>1. CASE n = c.n
      BY <1>4, <3>1 DEF Safe
    <3>2. CASE n # c.n
      <4>1. begun'[n] = begun[n] /\ begun[n] \in Seconds
        BY <1>4, <2>2, <3>2, BegunInSeconds
      <4>a. Safe(n)
        BY <2>1, <2>2, <4>1 DEF AllSafe
      <4>2. QED
        BY <1>2, <1>4, <2>1, <4>1, <4>a DEF Safe
    <3>3. QED
      BY <3>1, <3>2
  <2>3. ASSUME NEW r \in remux PROVE Converts(r)'
    <3>1. r.sec # s /\ Converts(r)
      BY <2>1 DEF InUse, Used, AllSafe
    <3>2. QED
      BY <1>2, <1>4, <3>1 DEF Converts
  <2>4. QED
    BY <2>2, <2>3
<1>11. QED
  BY <1>7, <1>8, <1>9, <1>10

\* Stop hands the second in the field to a conversion.
LEMMA SleepEndsKeeps ==
  ASSUME KInv, NEW c \in calls, SleepEnds(c)
  PROVE  KInv'
<1> USE MaxNat DEF KInv
<1> DEFINE q == [n |-> c.n, at |-> "begins", sec |-> fields.sec]
<1>1. /\ c \in CallRecs /\ c.at = "sleeps" /\ Used(fields.sec)
      /\ fields' = [fields EXCEPT !.file = 0] /\ remux' = remux \cup {q} /\ calls' = calls \ {c}
      /\ UNCHANGED <<recording, ts, mp4, torn, begun, raced, events>>
  BY DEF SleepEnds, RecTypes, InUse, NeedsFile, disk
<1>2. q \in RemuxRecs /\ q.at = "begins" /\ q.sec = fields.sec
  BY <1>1 DEF RemuxRecs, CallRecs, RecTypes
<1> HIDE DEF q
<1>3. RecTypes'
  <2>1. fields' \in [file: Names, sec: Names, stop: Names]
    <3>1. 0 \in Names
      BY DEF Names
    <3>2. QED
      BY <1>1, <3>1 DEF RecTypes
  <2>2. QED
    BY <1>1, <1>2, <2>1 DEF RecTypes
<1>4. Numbered'
  BY <1>1 DEF Numbered
<1>5. InUse'
  <2>1. fields'.sec = fields.sec /\ (NeedsFile' => NeedsFile)
    BY <1>1 DEF RecTypes, NeedsFile
  <2>2. QED
    BY <1>1, <1>2, <2>1 DEF InUse, Used
<1>6. AllSafe'
  BY <1>1, <1>2 DEF AllSafe, Safe, Converts
<1>7. QED
  BY <1>3, <1>4, <1>5, <1>6

\* A conversion reads and removes what is its own.
LEMMA RemuxKeeps ==
  ASSUME KInv, NEW r \in remux, RemuxSteps(r) \/ RemuxFails(r)
  PROVE  KInv'
<1> USE MaxNat DEF KInv
<1>0. /\ r \in RemuxRecs /\ r.sec \in Seconds
      /\ UNCHANGED <<recording, fields, calls, begun>>
      /\ events' \in 0..MaxEvents /\ events <= events'
      /\ "second" \in raced <=> "second" \in raced'
      /\ NeedsFile' <=> NeedsFile
  BY DEF RecTypes, InUse, Used, RemuxSteps, RemuxBegins, RemuxFails, RemuxDone, RemuxRemoves,
         disk, Event, NeedsFile
<1>1. Numbered'
  BY <1>0 DEF Numbered, RecTypes
<1>2. ASSUME NEW q \in remux', q \notin remux
      PROVE  q \in RemuxRecs /\ q.sec = r.sec /\ q.at \in {"runs", "removes"}
             /\ q = [r EXCEPT !.at = q.at]
  BY <1>0, <1>2 DEF RemuxSteps, RemuxBegins, RemuxFails, RemuxDone, RemuxRemoves, RemuxTo, RemuxRecs
<1>3. remux' \subseteq RemuxRecs
  BY <1>2 DEF RecTypes
<1>4. InUse'
  <2>1. ASSUME NEW q \in remux' PROVE Used(q.sec)
    BY <1>2 DEF InUse
  <2>2. QED
    BY <1>0, <2>1 DEF InUse, Used
<1>5. ts' \in [Seconds -> Names] /\ mp4' \in [Seconds -> Names] /\ torn' \subseteq Seconds
  <2>1. 0 \in Names
    BY DEF Names
  <2>2. CASE RemuxBegins(r)
    BY <1>0, <2>2 DEF RecTypes, RemuxBegins
  <2>3. CASE RemuxDone(r) \/ RemuxFails(r)
    BY <2>3 DEF RecTypes, RemuxDone, RemuxFails, disk
  <2>4. CASE RemuxRemoves(r)
    BY <1>0, <2>1, <2>4 DEF RecTypes, RemuxRemoves
  <2>5. QED
    BY <2>2, <2>3, <2>4 DEF RemuxSteps
<1>6. RecTypes'
  BY <1>0, <1>3, <1>5 DEF RecTypes
<1>7. AllSafe'
  <2> SUFFICES ASSUME "second" \notin raced
               PROVE  (\A n \in Names : begun[n] # 0 => Safe(n)') /\ \A q \in remux' : Converts(q)'
    BY <1>0 DEF AllSafe
  <2>1. /\ \A n \in Names : begun[n] # 0 => Safe(n) /\ begun[n] \in Seconds
        /\ \A q \in remux : Converts(q) /\ q.sec \in Seconds
    <3>1. \A n \in Names : begun[n] # 0 => Safe(n)
      BY DEF AllSafe
    <3>2. \A q \in remux : Converts(q) /\ q.sec \in Seconds
      BY DEF AllSafe, InUse, Used
    <3>3. QED
      BY <3>1, <3>2, BegunInSeconds
  <2>2. CASE RemuxBegins(r) /\ mp4' # mp4
    <3>1. /\ mp4' = [mp4 EXCEPT ![r.sec] = ts[r.sec]] /\ torn' = torn \cup {r.sec} /\ ts' = ts
          /\ ts[r.sec] # 0 /\ mp4[r.sec] = 0 /\ RemuxTo(r, "runs")
      BY <2>2 DEF RemuxBegins
    <3>2. /\ mp4'[r.sec] = ts[r.sec]
          /\ \A s \in Seconds : s # r.sec => mp4'[s] = mp4[s]
      BY <1>0, <3>1 DEF RecTypes
    <3>3. \A n \in Names : begun[n] = r.sec => ts[r.sec] = n
      <4> SUFFICES ASSUME NEW n \in Names, begun[n] = r.sec PROVE ts[r.sec] = n
        OBVIOUS
      <4>1. begun[n] # 0 /\ n # 0
        BY <1>0 DEF Seconds, Numbered, RecTypes
      <4>2. QED
        BY <2>1, <3>1, <4>1 DEF Safe
    <3>4. ASSUME NEW n \in Names, begun[n] # 0 PROVE Safe(n)'
      BY <1>0, <2>1, <3>1, <3>2, <3>3, <3>4 DEF Safe
    <3>5. ASSUME NEW q \in remux' PROVE Converts(q)'
      <4>1. CASE q \in remux
        <5>1. q.at # "begins" => q.sec # r.sec
          BY <2>1, <3>1, <4>1 DEF Converts
        <5>2. QED
          BY <1>0, <2>1, <3>1, <3>2, <4>1, <5>1 DEF Converts
      <4>2. CASE q \notin remux
        <5>1. q.sec = r.sec /\ q.at = "runs"
          BY <1>0, <3>1, <4>2 DEF RemuxTo, RemuxRecs
        <5>2. QED
          BY <1>0, <3>1, <3>2, <3>3, <5>1 DEF Converts
      <4>3. QED
        BY <4>1, <4>2
    <3>6. QED
      BY <3>4, <3>5
  <2>3. CASE RemuxBegins(r) /\ mp4' = mp4
    <3>1. UNCHANGED <<ts, mp4, torn>> /\ remux' = remux \ {r}
      <4>1. ts[r.sec] # 0 /\ mp4[r.sec] = 0 => mp4' = [mp4 EXCEPT ![r.sec] = ts[r.sec]]
        BY <2>3 DEF RemuxBegins
      <4>2. ~(ts[r.sec] # 0 /\ mp4[r.sec] = 0)
        BY <1>0, <2>3, <4>1 DEF RecTypes
      <4>3. QED
        BY <2>3, <4>2 DEF RemuxBegins
    <3>2. QED
      BY <1>0, <2>1, <3>1 DEF Safe, Converts
  <2>4. CASE RemuxFails(r)
    BY <1>0, <2>1, <2>4 DEF RemuxFails, disk, Safe, Converts
  <2>5. CASE RemuxDone(r)
    <3>1. r.at = "runs" /\ torn' = torn \ {r.sec} /\ UNCHANGED <<ts, mp4>> /\ RemuxTo(r, "removes")
      BY <2>5 DEF RemuxDone
    <3>2. \A n \in Names : begun[n] # 0 => Safe(n)'
      BY <1>0, <2>1, <3>1 DEF Safe
    <3>3. ASSUME NEW q \in remux' PROVE Converts(q)'
      <4>1. CASE q \in remux
        BY <1>0, <2>1, <3>1, <4>1 DEF Converts
      <4>2. CASE q \notin remux
        <5>1. Converts(r) /\ q.sec = r.sec
          BY <1>2, <2>1, <4>2
        <5>2. QED
          BY <1>0, <3>1, <5>1 DEF Converts
      <4>3. QED
        BY <4>1, <4>2
    <3>4. QED
      BY <3>2, <3>3
  <2>6. CASE RemuxRemoves(r)
    <3>1. /\ r.at = "removes" /\ ts' = [ts EXCEPT ![r.sec] = 0] /\ UNCHANGED <<mp4, torn>>
          /\ remux' = remux \ {r}
      BY <2>6 DEF RemuxRemoves
    <3>2. ASSUME NEW n \in Names, begun[n] # 0 PROVE Safe(n)'
      <4>1. CASE begun[n] = r.sec
        <5>1. mp4[r.sec] = n /\ r.sec \notin torn
          BY <2>1, <3>1, <4>1 DEF Converts
        <5>2. QED
          BY <1>0, <3>1, <4>1, <5>1 DEF Safe
      <4>2. CASE begun[n] # r.sec
        <5>1. ts'[begun[n]] = ts[begun[n]]
          BY <1>0, <2>1, <3>1, <3>2, <4>2 DEF RecTypes
        <5>2. QED
          BY <1>0, <2>1, <3>1, <3>2, <5>1 DEF Safe
      <4>3. QED
        BY <4>1, <4>2
    <3>3. QED
      BY <1>0, <2>1, <3>1, <3>2 DEF Converts
  <2>7. QED
    BY <2>2, <2>3, <2>4, <2>5, <2>6 DEF RemuxSteps
<1>8. QED
  BY <1>1, <1>4, <1>6, <1>7

\* What calls and loops do besides.
LEMMA CallOrLoopKeeps ==
  ASSUME KInv,
         \/ StartRecording \/ StopRecording
         \/ \E c \in calls : Flags(c) \/ Tests(c) \/ Clears(c) \/ Closes(c)
         \/ \E l \in loops : LoopSteps(l) \/ LoopFails(l) \/ LoopLimit(l)
  PROVE  KInv'
<1> USE MaxNat
<1>1. CASE StartRecording
  BY <1>1, CallBorn DEF StartRecording
<1>2. CASE StopRecording
  BY <1>2, CallBorn DEF StopRecording
<1>3. ASSUME NEW c \in calls, Flags(c) \/ Tests(c) \/ Clears(c) \/ Closes(c) PROVE KInv'
  <2>1. /\ UNCHANGED <<fields, disk, remux, begun, events, raced>>
        /\ \/ calls' = calls \ {c}
           \/ \E at \in {"clears", "closes", "sleeps"} : CallTo(c, at)
    BY <1>3 DEF Flags, Tests, Clears, Closes
  <2>2. NeedsFile' => NeedsFile
    <3>1. CASE Flags(c) \/ Clears(c) \/ Closes(c)
      BY <3>1 DEF Flags, Clears, Closes, NeedsFile
    <3>2. CASE Tests(c)
      BY <3>2 DEF Tests, NeedsFile
    <3>3. QED
      BY <1>3, <3>1, <3>2
  <2>3. QED
    BY <2>1, <2>2, CallGoesOn
<1>4. ASSUME NEW l \in loops, LoopLimit(l) PROVE KInv'
  BY <1>4, CallBorn DEF LoopLimit
<1>5. ASSUME NEW l \in loops, LoopSteps(l) \/ LoopFails(l) PROVE KInv'
  <2>1. /\ UNCHANGED <<recording, fields, calls, disk, remux, begun>>
        /\ events' = events \/ Event
        /\ "second" \in raced => "second" \in raced'
    BY <1>5 DEF LoopSteps, LoopBegins, LoopRounds, LoopStops, LoopLeaves, LoopFails
  <2>2. events' \in 0..MaxEvents /\ events <= events'
    BY <2>1 DEF Event, KInv, RecTypes
  <2>3. calls' \subseteq CallRecs
        /\ \A c \in calls' : c.n \in 1..events' /\ (c.at = "creates" => begun[c.n] = 0)
    BY <2>1, <2>2 DEF KInv, RecTypes, Numbered
  <2>4. NeedsFile' => NeedsFile
    BY <2>1 DEF NeedsFile
  <2>5. QED
    BY <2>1, <2>2, <2>3, <2>4, RecordingsLeft
<1>6. QED
  BY <1>1, <1>2, <1>3, <1>4, <1>5

\* The scenes count their requests and failures, and touch nothing else of it.
LEMMA ScenesEvents == ScenesNext => events' = events \/ Event
BY DEF ScenesNext, SceneRequests, ActivateScene, DeleteScene, UploadScene, UploadFallback,
       PutConfig, QuickRestart, TaskSteps, ReadsActive, WritesPath, Signals, Deletes, Unlinks,
       Rendered, UpdatesScene, ChecksActive, RenderFails, Manager, MgrStarts, MgrSpawns,
       MgrSeesDeath, MgrTakesToken, MgrPauseEnds, ProcDies

\* Every step of the program keeps the recordings.
LEMMA NextKeeps == KInv /\ [Next]_vars => KInv'
<1> SUFFICES ASSUME KInv, [Next]_vars PROVE KInv'
  OBVIOUS
<1> USE MaxNat
<1>1. CASE RecorderNext
  BY <1>1, CallOrLoopKeeps, CreatesKeeps, SleepEndsKeeps, RemuxKeeps DEF RecorderNext, CallSteps
<1>2. CASE UNCHANGED recorderVars /\ (events' = events \/ Event)
  <2>1. events' \in 0..MaxEvents /\ events <= events'
    BY <1>2 DEF Event, KInv, RecTypes
  <2>2. calls' \subseteq CallRecs
        /\ \A c \in calls' : c.n \in 1..events' /\ (c.at = "creates" => begun[c.n] = 0)
    BY <1>2, <2>1 DEF recorderVars, KInv, RecTypes, Numbered
  <2>3. QED
    BY <1>2, <2>1, <2>2, RecordingsLeft DEF recorderVars, disk, NeedsFile
<1>3. CASE Restarts
  <2>1. /\ events' \in 0..MaxEvents /\ events <= events'
        /\ UNCHANGED <<ts, mp4, torn, begun>>
        /\ "second" \in raced => "second" \in raced'
        /\ recording' = FALSE /\ calls' = {} /\ remux' = {}
        /\ fields' = [file |-> 0, sec |-> 0, stop |-> 0]
    BY <1>3 DEF Restarts, RecorderRestart, Event, KInv, RecTypes, disk
  <2>2. RecTypes'
    <3>1. 0 \in Names
      BY DEF Names
    <3>2. fields' \in [file: Names, sec: Names, stop: Names]
      BY <2>1, <3>1
    <3>3. QED
      BY <2>1, <3>2 DEF KInv, RecTypes
  <2>3. Numbered' /\ InUse'
    BY <2>1 DEF KInv, RecTypes, Numbered, InUse, NeedsFile
  <2>4. AllSafe'
    BY <2>1 DEF KInv, AllSafe, Safe
  <2>5. QED
    BY <2>2, <2>3, <2>4 DEF KInv
<1>4. QED
  BY <1>1, <1>2, <1>3, ScenesEvents DEF Next, vars

\* Nothing has been recorded.
LEMMA InitKeeps == Init => KInv
<1> SUFFICES ASSUME Init PROVE KInv
  OBVIOUS
<1> USE MaxNat DEF Init, RecorderInit
<1>1. RecTypes
  BY DEF RecTypes, Names
<1>2. Numbered /\ InUse /\ AllSafe
  BY DEF Numbered, InUse, NeedsFile, AllSafe
<1>3. QED
  BY <1>1, <1>2 DEF KInv

\* What was recorded is on disk, in the .ts or in a whole .mp4, whatever fails,
\* overlaps with the scenes' requests or ends, unless Starts or Stops have
\* overlapped or shared a second (Recorder.Stop, remuxToMP4).
THEOREM RecordingsKept == Spec => []RecordingKept
<1>1. KInv => RecordingKept
  BY DEF KInv, AllSafe, Safe, RecordingKept
<1>2. QED
  BY <1>1, InitKeeps, NextKeeps, PTL DEF Spec

-----------------------------------------------------------------------------
\* A call, a loop and its channel are of one Start; the channels that are closed
\* are of Starts that have begun.
LoopRecs == [n: Names, at: {"begins", "runs", "leaves"}, on: Names]
LoopTypes ==
  /\ recording \in BOOLEAN /\ sub \in Names /\ closed \subseteq Names \ {0}
  /\ loops \subseteq LoopRecs
  /\ raced \subseteq {"calls", "second", "disk", "ffmpeg", "end"}
LoopsNumbered ==
  /\ \A k, l \in loops : k.n = l.n => k = l
  /\ \A c, d \in calls : c.n = d.n => c = d
  /\ \A l \in loops : l.n \in 1..events
  /\ \A c \in calls, l \in loops : c.at \in {"creates", "flags"} => c.n # l.n
ChannelsBegun ==
  /\ NeedsFile => fields.stop # 0
  /\ fields.stop # 0 => begun[fields.stop] # 0
  /\ \A n \in closed : begun[n] # 0
\* In turn, there is one call and one loop, which has the file of the last Start,
\* the channel in the field and the id of the broadcaster; and the flag tells
\* how far the call has come.
InTurn(l) ==
  /\ l.n = fields.file
  /\ l.at = "begins" => l.on = 0
  /\ l.at = "runs" => l.on = fields.stop /\ sub = l.n
Silent == loops = {} /\ fields.file = 0
Phase(c) ==
  /\ c.at = "creates" => ~recording /\ Silent
  /\ c.at = "flags" => ~recording /\ loops = {} /\ fields.file = c.n /\ fields.stop = c.n
                       /\ c.n \notin closed
  /\ c.at \in {"tests", "clears"} => recording
  /\ c.at = "closes" => ~recording
  /\ c.at = "sleeps" => ~recording /\ fields.stop \in closed
Resting ==
  IF recording THEN fields.stop \notin closed /\ \E l \in loops : l.at # "leaves" ELSE Silent
OneByOne ==
  /\ \A c, d \in calls : c = d
  /\ \A k, l \in loops : k = l
  /\ \A l \in loops : InTurn(l)
  /\ \A c \in calls : Phase(c)
  /\ calls = {} => Resting
InTurns == raced \cap {"calls", "disk"} = {}
FedInv == KInv /\ LoopTypes /\ LoopsNumbered /\ ChannelsBegun /\ (InTurns => OneByOne)

\* It says what RecorderFed says when no call is under way.
LEMMA FedIfInTurns == FedInv => RecorderFed
<1> SUFFICES ASSUME FedInv, InTurns, calls = {}
             PROVE  IF recording THEN \E l \in loops : loops = {l} /\ Writing(l)
                    ELSE fields.file = 0 /\ loops = {}
  BY DEF RecorderFed, InTurns
<1>1. OneByOne /\ Resting
  BY DEF FedInv, OneByOne
<1>2. CASE ~recording
  BY <1>1, <1>2 DEF Resting, Silent
<1>3. CASE recording
  <2>1. PICK l \in loops : l.at # "leaves" /\ loops = {l}
    BY <1>1, <1>3 DEF Resting, OneByOne
  <2>2. InTurn(l) /\ fields.stop \notin closed /\ 0 \notin closed /\ l.at \in {"begins", "runs"}
    BY <1>1, <1>3, <2>1 DEF Resting, OneByOne, FedInv, LoopTypes, LoopRecs
  <2>3. QED
    BY <1>3, <2>1, <2>2 DEF InTurn, Writing
<1>4. QED
  BY <1>2, <1>3

\* A request has a name of its own.
LEMMA RecorderEvent ==
  ASSUME KInv, Event
  PROVE  /\ events' = events + 1 /\ events' \in 1..MaxEvents /\ events' \in Names
         /\ events \in Nat /\ events <= events'
BY MaxNat DEF Event, KInv, RecTypes, Names

\* Start, Stop and the limit of a loop: a call is born.
LEMMA CallsBorn ==
  ASSUME FedInv, KInv', Event, Overlaps,
         NEW at \in {"creates", "clears", "tests"}, calls' = calls \cup {[n |-> events', at |-> at]},
         UNCHANGED <<recording, fields, closed, sub, begun>>,
         at = "creates" => ~recording /\ loops' = loops,
         at = "clears" => recording /\ loops' = loops,
         at = "tests" => \E l \in loops : l.at = "runs" /\ sub = l.n /\ LoopTo(l, "leaves")
  PROVE  FedInv'
<1> USE MaxNat
<1>0. PICK c : c = [n |-> events', at |-> at]
  OBVIOUS
<1>1. c.n = events' /\ c.at = at /\ calls' = calls \cup {c}
  BY <1>0
<1>2. events' = events + 1 /\ events' \in Names /\ events \in Nat
  BY RecorderEvent DEF FedInv
<1>3. /\ \A d \in calls : d.n \in 1..events
      /\ \A l \in loops : l.n \in 1..events /\ l \in LoopRecs
  BY DEF FedInv, KInv, Numbered, LoopsNumbered, LoopTypes
<1>4. \A k \in loops' : \E l \in loops :
         k.n = l.n /\ k.on = l.on /\ k \in LoopRecs /\ (k = l \/ (k.at = "leaves" /\ l.at = "runs" /\ at = "tests"))
         /\ (at # "tests" => k = l)
  BY <1>3 DEF LoopTo, LoopRecs
<1>5. \A k, l \in loops' : k.n = l.n => k = l
  BY <1>3 DEF LoopTo, LoopRecs, FedInv, LoopsNumbered
<1>6. LoopTypes'
  <2>1. raced' \subseteq {"calls", "second", "disk", "ffmpeg", "end"}
    BY DEF Overlaps, FedInv, LoopTypes
  <2>2. QED
    BY <1>4, <2>1 DEF FedInv, LoopTypes
<1>7. LoopsNumbered'
  <2>1. \A d, e \in calls' : d.n = e.n => d = e
    BY <1>1, <1>2, <1>3 DEF FedInv, LoopsNumbered
  <2>2. \A l \in loops' : l.n \in 1..events
    BY <1>3, <1>4
  <2>3. \A d \in calls', l \in loops' : d.at \in {"creates", "flags"} => d.n # l.n
    BY <1>1, <1>2, <1>4, <2>2 DEF FedInv, LoopsNumbered
  <2>4. QED
    BY <1>2, <1>5, <2>1, <2>2, <2>3 DEF LoopsNumbered
<1>8. ChannelsBegun'
  <2>1. NeedsFile' => NeedsFile
    BY <1>1 DEF NeedsFile
  <2>2. QED
    BY <2>1 DEF FedInv, ChannelsBegun
<1>9. InTurns' => OneByOne'
  <2> SUFFICES ASSUME InTurns' PROVE OneByOne'
    OBVIOUS
  <2>1. calls = {} /\ InTurns /\ OneByOne /\ Resting
    BY DEF InTurns, Overlaps, FedInv, OneByOne
  <2>2. calls' = {c}
    BY <1>1, <2>1
  <2>3. \A k, l \in loops' : k = l
    BY <1>4, <1>5, <2>1 DEF OneByOne
  <2>4. \A k \in loops' : InTurn(k)'
    BY <1>4, <2>1 DEF OneByOne, InTurn
  <2>5. Phase(c)'
    <3>1. at = "tests" => recording
      BY <2>1 DEF Resting, Silent
    <3>2. at = "creates" => ~recording /\ loops' = {} /\ fields'.file = 0
      BY <2>1 DEF Resting, Silent
    <3>3. QED
      BY <1>1, <3>1, <3>2 DEF Phase, Silent
  <2>6. QED
    BY <2>2, <2>3, <2>4, <2>5 DEF OneByOne
<1>10. QED
  BY <1>6, <1>7, <1>8, <1>9 DEF FedInv

\* Start makes its file and its channel, which nobody has closed.
LEMMA CreatesFed ==
  ASSUME FedInv, KInv', NEW c \in calls, Creates(c)
  PROVE  FedInv'
<1> USE MaxNat
<1>1. PICK s \in Seconds :
         /\ fields' = [file |-> c.n, sec |-> s, stop |-> c.n]
         /\ begun' = [begun EXCEPT ![c.n] = s]
         /\ raced' \in {raced, raced \cup {"second"}}
  BY DEF Creates
<1>2. /\ c.at = "creates" /\ CallTo(c, "flags") /\ c \in CallRecs
      /\ UNCHANGED <<recording, closed, loops, sub, events>>
      /\ c.n \in 1..events /\ c.n \in Names /\ begun[c.n] = 0
  BY DEF Creates, FedInv, KInv, Numbered, RecTypes, CallRecs
<1>3. /\ begun'[c.n] = s /\ s # 0 /\ \A n \in Names : n # c.n => begun'[n] = begun[n]
      /\ fields'.file = c.n /\ fields'.stop = c.n
  BY <1>1, <1>2 DEF FedInv, KInv, RecTypes, Seconds
<1> DEFINE d == [c EXCEPT !.at = "flags"]
<1>4. d.n = c.n /\ d.at = "flags" /\ calls' = (calls \ {c}) \cup {d}
  BY <1>2 DEF CallTo, CallRecs
<1> HIDE DEF d
<1>5. LoopTypes'
  BY <1>1, <1>2 DEF FedInv, LoopTypes
<1>6. LoopsNumbered'
  BY <1>2, <1>4 DEF FedInv, LoopsNumbered
<1>7. c.n \notin closed /\ closed \subseteq Names
  BY <1>2 DEF FedInv, ChannelsBegun, LoopTypes
<1>8. ChannelsBegun'
  BY <1>2, <1>3, <1>7 DEF FedInv, ChannelsBegun, Numbered
<1>9. InTurns' => OneByOne'
  <2> SUFFICES ASSUME InTurns' PROVE OneByOne'
    OBVIOUS
  <2>1. OneByOne
    BY <1>1 DEF InTurns, FedInv
  <2>2. calls = {c} /\ ~recording /\ loops = {}
    BY <1>2, <2>1 DEF OneByOne, Phase, Silent
  <2>3. calls' = {d}
    BY <1>4, <2>2
  <2>4. Phase(d)'
    BY <1>2, <1>3, <1>4, <1>7, <2>2 DEF Phase
  <2>5. QED
    BY <1>2, <2>2, <2>3, <2>4 DEF OneByOne
<1>10. QED
  BY <1>5, <1>6, <1>8, <1>9 DEF FedInv

\* The flag is set, and the loop is started.
LEMMA FlagsFed ==
  ASSUME FedInv, KInv', NEW c \in calls, Flags(c)
  PROVE  FedInv'
<1> USE MaxNat
<1> DEFINE l == [n |-> c.n, at |-> "begins", on |-> 0]
<1>1. /\ c.at = "flags" /\ recording' = TRUE /\ loops' = loops \cup {l} /\ calls' = calls \ {c}
      /\ UNCHANGED <<fields, closed, sub, begun, raced, events>>
      /\ l.n = c.n /\ l.at = "begins" /\ l.on = 0
  BY DEF Flags
<1>2. l \in LoopRecs /\ c.n \in 1..events
  BY DEF LoopRecs, FedInv, KInv, RecTypes, CallRecs, Numbered, Names
<1> HIDE DEF l
<1>3. LoopTypes'
  BY <1>1, <1>2 DEF FedInv, LoopTypes
<1>4. LoopsNumbered'
  BY <1>1, <1>2 DEF FedInv, LoopsNumbered
<1>5. ChannelsBegun'
  <2>1. NeedsFile
    BY <1>1 DEF NeedsFile
  <2>2. QED
    BY <1>1, <2>1 DEF FedInv, ChannelsBegun
<1>6. InTurns' => OneByOne'
  <2> SUFFICES ASSUME InTurns' PROVE OneByOne'
    OBVIOUS
  <2>1. OneByOne
    BY <1>1 DEF InTurns, FedInv
  <2>2. calls = {c} /\ loops = {} /\ fields.file = c.n /\ fields.stop = c.n /\ c.n \notin closed
    BY <1>1, <2>1 DEF OneByOne, Phase
  <2>3. calls' = {} /\ loops' = {l}
    BY <1>1, <2>2
  <2>4. InTurn(l)'
    BY <1>1, <2>2 DEF InTurn
  <2>5. Resting'
    BY <1>1, <2>2, <2>3 DEF Resting
  <2>6. QED
    BY <2>3, <2>4, <2>5 DEF OneByOne
<1>7. QED
  BY <1>3, <1>4, <1>5, <1>6 DEF FedInv

\* A call that goes on, or ends.
LEMMA CallsFed ==
  ASSUME FedInv, KInv', NEW c \in calls, Tests(c) \/ Clears(c) \/ Closes(c)
  PROVE  FedInv'
<1> USE MaxNat
<1>1. /\ UNCHANGED <<fields, loops, sub, begun, raced, events>> /\ c \in CallRecs
      /\ c.at \in {"tests", "clears", "closes"}
  BY DEF Tests, Clears, Closes, FedInv, KInv, RecTypes
<1>2. PICK at \in {"clears", "closes", "sleeps"} :
         /\ \/ CallTo(c, at) /\ (at = "clears" => recording)
            \/ calls' = calls \ {c} /\ c.at = "tests" /\ ~recording
         /\ at = "clears" => c.at = "tests" /\ UNCHANGED <<recording, closed>>
         /\ at = "closes" => c.at = "clears" /\ recording' = FALSE /\ closed' = closed
         /\ at = "sleeps" => c.at = "closes" /\ recording' = recording /\ closed' = closed \cup {fields.stop}
  <2>1. CASE Tests(c)
    <3>1. /\ \/ CallTo(c, "clears") /\ recording
             \/ calls' = calls \ {c} /\ c.at = "tests" /\ ~recording
          /\ c.at = "tests" /\ UNCHANGED <<recording, closed>>
      BY <2>1 DEF Tests
    <3>2. QED
      BY <3>1
  <2>2. CASE Clears(c)
    <3>1. CallTo(c, "closes") /\ c.at = "clears" /\ recording' = FALSE /\ closed' = closed
      BY <2>2 DEF Clears
    <3>2. QED
      BY <3>1
  <2>3. CASE Closes(c)
    <3>1. /\ CallTo(c, "sleeps") /\ c.at = "closes" /\ recording' = recording
          /\ closed' = closed \cup {fields.stop}
      BY <2>3 DEF Closes
    <3>2. QED
      BY <3>1
  <2>4. QED
    BY <2>1, <2>2, <2>3
<1>3. PICK d : d = [c EXCEPT !.at = at]
  OBVIOUS
<1>4. d.n = c.n /\ d.at = at /\ calls' \subseteq (calls \ {c}) \cup {d}
  BY <1>1, <1>2, <1>3 DEF CallTo, CallRecs
<1>5. at = "sleeps" => fields.stop # 0 /\ fields.stop \in Names /\ begun[fields.stop] # 0
  <2>1. at = "sleeps" => NeedsFile
    BY <1>2 DEF NeedsFile
  <2>2. QED
    BY <2>1 DEF FedInv, ChannelsBegun, KInv, RecTypes
<1>6. LoopTypes'
  BY <1>1, <1>2, <1>5 DEF FedInv, LoopTypes
<1>7. LoopsNumbered'
  BY <1>1, <1>4 DEF FedInv, LoopsNumbered
<1>8. ChannelsBegun'
  <2>1. NeedsFile' => NeedsFile
    <3>1. recording' => recording
      BY <1>2
    <3>2. ASSUME NEW e \in calls', e.at \in {"flags", "clears", "closes", "sleeps"}
          PROVE  NeedsFile
      BY <1>2, <1>4, <3>2 DEF NeedsFile
    <3>3. QED
      BY <3>1, <3>2 DEF NeedsFile
  <2>2. \A n \in closed' : begun[n] # 0
    BY <1>2, <1>5 DEF FedInv, ChannelsBegun
  <2>3. QED
    BY <1>1, <2>1, <2>2 DEF FedInv, ChannelsBegun
<1>9. InTurns' => OneByOne'
  <2> SUFFICES ASSUME InTurns' PROVE OneByOne'
    OBVIOUS
  <2>1. OneByOne /\ calls = {c} /\ Phase(c)
    BY <1>1 DEF InTurns, FedInv, OneByOne
  <2>2. CallTo(c, at)
    BY <1>2, <2>1 DEF Phase
  <2>3. calls' = {d}
    BY <1>3, <2>1, <2>2 DEF CallTo
  <2>4. Phase(d)'
    BY <1>1, <1>2, <1>4, <2>1, <2>2 DEF Phase
  <2>5. \A l \in loops : InTurn(l)'
    BY <1>1, <2>1 DEF OneByOne, InTurn
  <2>6. QED
    BY <1>1, <2>1, <2>3, <2>4, <2>5 DEF OneByOne
<1>10. QED
  BY <1>6, <1>7, <1>8, <1>9 DEF FedInv

\* After the sleep the loop has ended.
LEMMA SleepFed ==
  ASSUME FedInv, KInv', NEW c \in calls, SleepEnds(c)
  PROVE  FedInv'
<1> USE MaxNat
<1>1. /\ c.at = "sleeps" /\ Ended /\ fields' = [fields EXCEPT !.file = 0] /\ calls' = calls \ {c}
      /\ UNCHANGED <<recording, closed, loops, sub, begun, raced, events>>
  BY DEF SleepEnds
<1>2. fields'.file = 0 /\ fields'.stop = fields.stop
  BY <1>1 DEF FedInv, KInv, RecTypes
<1>3. LoopTypes' /\ LoopsNumbered'
  BY <1>1 DEF FedInv, LoopTypes, LoopsNumbered
<1>4. ChannelsBegun'
  <2>1. NeedsFile' => NeedsFile
    BY <1>1 DEF NeedsFile
  <2>2. QED
    BY <1>1, <1>2, <2>1 DEF FedInv, ChannelsBegun
<1>5. InTurns' => OneByOne'
  <2> SUFFICES ASSUME InTurns' PROVE OneByOne'
    OBVIOUS
  <2>1. OneByOne /\ calls = {c} /\ ~recording /\ fields.stop \in closed
    BY <1>1 DEF InTurns, FedInv, OneByOne, Phase
  <2>2. loops = {}
    <3>1. ASSUME NEW l \in loops PROVE FALSE
      <4>1. l.at \in {"begins", "runs"} /\ (l.at = "runs" => l.on = fields.stop)
        BY <1>1, <2>1 DEF Ended, FedInv, LoopTypes, LoopRecs, OneByOne, InTurn
      <4>2. QED
        BY <1>1, <2>1, <4>1 DEF Ended
    <3>2. QED
      BY <3>1
  <2>3. QED
    BY <1>1, <1>2, <2>1, <2>2 DEF OneByOne, Resting, Silent
<1>6. QED
  BY <1>3, <1>4, <1>5 DEF FedInv

\* A loop begins with the field's channel and stays with it; it leaves when a
\* Stop has closed it, or by an error.
LEMMA LoopsFed ==
  ASSUME FedInv, KInv', NEW l \in loops, LoopSteps(l) \/ LoopFails(l)
  PROVE  FedInv'
<1> USE MaxNat
<1>0. /\ UNCHANGED <<recording, fields, closed, calls, begun>> /\ l \in LoopRecs
      /\ events' = events \/ Event
      /\ raced' = raced \/ (raced' = raced \cup {"disk"} /\ LoopFails(l))
  BY DEF LoopSteps, LoopBegins, LoopRounds, LoopStops, LoopLeaves, LoopFails, FedInv, LoopTypes
<1>1. events' \in Nat /\ events \in Nat /\ events <= events'
  BY <1>0, RecorderEvent DEF FedInv, KInv, RecTypes
<1>2. CASE LoopLeaves(l)
  <2>1. sub' = 0 /\ loops' = loops \ {l} /\ l.at = "leaves" /\ UNCHANGED <<raced, events>>
    BY <1>2 DEF LoopLeaves
  <2>2. LoopTypes' /\ LoopsNumbered' /\ ChannelsBegun'
    BY <1>0, <2>1 DEF FedInv, LoopTypes, LoopsNumbered, ChannelsBegun, NeedsFile, Names
  <2>3. InTurns' => OneByOne'
    <3> SUFFICES ASSUME InTurns' PROVE OneByOne'
      OBVIOUS
    <3>1. OneByOne /\ loops = {l} /\ loops' = {}
      BY <2>1 DEF InTurns, FedInv, OneByOne
    <3>2. calls # {}
      BY <2>1, <3>1 DEF OneByOne, Resting, Silent
    <3>3. QED
      BY <1>0, <3>1, <3>2 DEF OneByOne, Phase, Silent
  <2>4. QED
    BY <2>2, <2>3 DEF FedInv
<1>3. CASE ~LoopLeaves(l)
  <2>1. PICK k \in LoopRecs :
           /\ loops' = (loops \ {l}) \cup {k} /\ k.n = l.n
           /\ \/ LoopBegins(l) /\ l.at = "begins" /\ k.at = "runs" /\ k.on = fields.stop /\ sub' = l.n
              \/ LoopRounds(l) /\ l.at = "runs" /\ l.on # fields.stop /\ k.at = "runs" /\ k.on = fields.stop /\ sub' = sub
              \/ (LoopStops(l) \/ LoopFails(l)) /\ l.at = "runs" /\ k.at = "leaves" /\ k.on = l.on /\ sub' = sub
    <3>1. fields.stop \in Names
      BY DEF FedInv, KInv, RecTypes
    <3>2. CASE LoopBegins(l)
      <4> DEFINE k == [l EXCEPT !.at = "runs", !.on = fields.stop]
      <4>1. k \in LoopRecs /\ k.n = l.n /\ k.at = "runs" /\ k.on = fields.stop
        BY <1>0, <3>1 DEF LoopRecs
      <4>2. QED
        BY <3>2, <4>1 DEF LoopBegins
    <3>3. CASE LoopRounds(l)
      <4> DEFINE k == [l EXCEPT !.on = fields.stop]
      <4>1. k \in LoopRecs /\ k.n = l.n /\ k.at = l.at /\ k.on = fields.stop
        BY <1>0, <3>1 DEF LoopRecs
      <4>2. QED
        BY <3>3, <4>1 DEF LoopRounds
    <3>4. CASE LoopStops(l) \/ LoopFails(l)
      <4> DEFINE k == [l EXCEPT !.at = "leaves"]
      <4>1. k \in LoopRecs /\ k.n = l.n /\ k.at = "leaves" /\ k.on = l.on
        BY <1>0 DEF LoopRecs
      <4>2. QED
        BY <3>4, <4>1 DEF LoopStops, LoopFails, LoopTo
    <3>5. QED
      BY <1>3, <3>2, <3>3, <3>4 DEF LoopSteps
  <2>2. LoopTypes'
    <3>1. l.n \in Names
      BY <1>0 DEF LoopRecs
    <3>2. QED
      BY <1>0, <2>1, <3>1 DEF FedInv, LoopTypes
  <2>3. LoopsNumbered'
    <3>1. \A j \in loops' : \E i \in loops : j.n = i.n
      BY <2>1
    <3>2. \A i, j \in loops' : i.n = j.n => i = j
      BY <2>1 DEF FedInv, LoopsNumbered
    <3>3. \A j \in loops' : j.n \in 1..events'
      BY <1>1, <3>1 DEF FedInv, LoopsNumbered
    <3>4. QED
      BY <1>0, <3>1, <3>2, <3>3 DEF FedInv, LoopsNumbered
  <2>4. ChannelsBegun'
    BY <1>0 DEF FedInv, ChannelsBegun, NeedsFile
  <2>5. InTurns' => OneByOne'
    <3> SUFFICES ASSUME InTurns' PROVE OneByOne'
      OBVIOUS
    <3>1. InTurns /\ OneByOne /\ loops = {l} /\ loops' = {k} /\ InTurn(l) /\ ~LoopFails(l)
      <4>1. InTurns /\ OneByOne
        BY <1>0 DEF InTurns, FedInv
      <4>2. ~LoopFails(l)
        BY DEF InTurns, LoopFails
      <4>3. QED
        BY <2>1, <4>1, <4>2 DEF OneByOne
    <3>2. ~LoopRounds(l)
      BY <3>1 DEF LoopRounds, InTurn
    <3>3. InTurn(k)'
      BY <1>0, <2>1, <3>1, <3>2 DEF InTurn
    <3>4. calls = {} => Resting'
      <4> SUFFICES ASSUME calls = {} PROVE Resting'
        OBVIOUS
      <4>1. recording /\ fields.stop \notin closed
        BY <3>1 DEF OneByOne, Resting, Silent
      <4>2. ~LoopStops(l)
        BY <3>1, <4>1 DEF LoopStops, InTurn
      <4>3. QED
        BY <1>0, <2>1, <3>1, <4>1, <4>2 DEF Resting
    <3>5. \A c \in calls : Phase(c)'
      BY <1>0, <3>1 DEF OneByOne, Phase, Silent
    <3>6. QED
      BY <1>0, <3>1, <3>3, <3>4, <3>5 DEF OneByOne
  <2>6. QED
    BY <2>2, <2>3, <2>4, <2>5 DEF FedInv
<1>4. QED
  BY <1>2, <1>3

\* Conversions and the scenes are not in the way.
LEMMA OthersFed ==
  ASSUME FedInv, KInv', UNCHANGED <<recording, fields, closed, loops, sub, calls, begun>>,
         events' = events \/ Event, raced' \in {raced, raced \cup {"ffmpeg"}}
  PROVE  FedInv'
<1>1. events' \in Nat /\ events \in Nat /\ events <= events'
  BY RecorderEvent DEF FedInv, KInv, RecTypes
<1>2. LoopTypes' /\ LoopsNumbered' /\ ChannelsBegun'
  BY <1>1 DEF FedInv, LoopTypes, LoopsNumbered, ChannelsBegun, NeedsFile
<1>3. InTurns' => InTurns
  BY DEF InTurns
<1>4. InTurns' => OneByOne'
  BY <1>3 DEF FedInv, OneByOne, InTurn, Phase, Resting, Silent
<1>5. QED
  BY <1>2, <1>4 DEF FedInv

\* Every step of the program keeps the recorder fed.
LEMMA NextFed == FedInv /\ [Next]_vars => FedInv'
<1> SUFFICES ASSUME FedInv, [Next]_vars PROVE FedInv'
  OBVIOUS
<1>0. KInv'
  BY NextKeeps DEF FedInv
<1>1. CASE StartRecording
  BY <1>0, <1>1, CallsBorn DEF StartRecording
<1>2. CASE StopRecording
  BY <1>0, <1>2, CallsBorn DEF StopRecording
<1>3. ASSUME NEW c \in calls, CallSteps(c) PROVE FedInv'
  BY <1>0, <1>3, CreatesFed, FlagsFed, CallsFed, SleepFed DEF CallSteps
<1>4. ASSUME NEW l \in loops, LoopSteps(l) \/ LoopFails(l) PROVE FedInv'
  BY <1>0, <1>4, LoopsFed
<1>5. ASSUME NEW l \in loops, LoopLimit(l) PROVE FedInv'
  BY <1>0, <1>5, CallsBorn DEF LoopLimit
<1>6. ASSUME NEW r \in remux, RemuxSteps(r) \/ RemuxFails(r) PROVE FedInv'
  <2>1. /\ UNCHANGED <<recording, fields, closed, loops, sub, calls, begun>>
        /\ events' = events \/ Event
        /\ raced' \in {raced, raced \cup {"ffmpeg"}}
    BY <1>6 DEF RemuxSteps, RemuxBegins, RemuxDone, RemuxRemoves, RemuxFails
  <2>2. QED
    BY <1>0, <2>1, OthersFed
<1>7. CASE UNCHANGED recorderVars /\ (events' = events \/ Event)
  BY <1>0, <1>7, OthersFed DEF recorderVars
<1>8. CASE Restarts
  <2>1. /\ recording' = FALSE /\ closed' = {} /\ loops' = {} /\ sub' = 0 /\ calls' = {}
        /\ raced' = raced \cup {"end"} /\ fields'.file = 0 /\ fields'.stop = 0 /\ 0 \in Names
    BY <1>8, MaxNat DEF Restarts, RecorderRestart, Names
  <2>2. LoopTypes' /\ LoopsNumbered' /\ ChannelsBegun'
    BY <2>1 DEF FedInv, LoopTypes, LoopsNumbered, ChannelsBegun, NeedsFile
  <2>3. OneByOne'
    BY <2>1 DEF OneByOne, Resting, Silent
  <2>4. QED
    BY <1>0, <2>2, <2>3 DEF FedInv
<1>9. QED
  BY <1>1, <1>2, <1>3, <1>4, <1>5, <1>6, <1>7, <1>8, ScenesEvents DEF Next, vars, RecorderNext

\* It holds throughout.
LEMMA RecorderInvariant == Spec => []FedInv
<1>1. Init => FedInv
  <2> SUFFICES ASSUME Init PROVE FedInv
    OBVIOUS
  <2>1. /\ recording = FALSE /\ closed = {} /\ loops = {} /\ sub = 0 /\ calls = {}
        /\ raced = {} /\ fields.file = 0 /\ fields.stop = 0 /\ 0 \in Names
    BY MaxNat DEF Init, RecorderInit, Names
  <2>2. LoopTypes /\ LoopsNumbered /\ ChannelsBegun
    BY <2>1 DEF LoopTypes, LoopsNumbered, ChannelsBegun, NeedsFile
  <2>3. OneByOne
    BY <2>1 DEF OneByOne, Resting, Silent
  <2>4. QED
    BY <2>2, <2>3, InitKeeps DEF FedInv
<1>2. QED
  BY <1>1, NextFed, PTL DEF Spec

\* As long as Starts and Stops take turns and the disk takes the data, the flag of
\* the recorder tells the truth: it has the one loop, which writes to the file of
\* the last Start on a channel nobody has closed, or none and no file, whatever
\* an earlier loop unsubscribes and reads again (Recorder.recordLoop).
THEOREM RecorderIsFed == Spec => []RecorderFed
BY RecorderInvariant, FedIfInTurns, PTL

-----------------------------------------------------------------------------
\* The state of both keeps its type, whatever mix of requests, failures and
\* restarts there is.
THEOREM StudioTypes == Spec => []StudioTypeOK
<1>1. ScenesInv => ScenesTypeOK
  <2> SUFFICES ASSUME ScenesInv PROVE ScenesTypeOK
    OBVIOUS
  <2>1. scenes \in Seq([id: Ids, path: Paths]) /\ \A i, j \in DOMAIN scenes : scenes[i].id = scenes[j].id => i = j
    BY DEF ScenesInv, ListTypes, SceneRecs, Unique
  <2>2. QED
    BY <2>1 DEF ScenesInv, TasksGood, TaskRecs, RestTypes, ScenesTypeOK
<1>2. FedInv => RecorderTypeOK
  BY DEF FedInv, KInv, RecTypes, CallRecs, RemuxRecs, LoopTypes, LoopRecs, LoopsNumbered, RecorderTypeOK
<1>3. QED
  BY <1>1, <1>2, ScenesInvariant, RecorderInvariant, PTL DEF StudioTypeOK
=============================================================================
