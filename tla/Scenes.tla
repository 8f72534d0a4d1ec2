------------------------------- MODULE Scenes -------------------------------
(***************************************************************************)
(* The fallback scenes of scenes.go, the requests of server.go that change *)
(* them, and the fallback process of switcher.go that plays one.           *)
(*                                                                         *)
(* What is to be played is config.FallbackPath.  A change of the active    *)
(* scene, or of its file, reaches it through goroutines: one reads the     *)
(* active scene, writes the path, and puts a restart token in a channel of *)
(* capacity one; the manager of the process takes the token, ends the      *)
(* process, pauses, and reads the path again.                              *)
(*                                                                         *)
(* A request is named by its number, and so are the scene and the files it *)
(* makes; 0 names the default scene and the files of a fallback upload.    *)
(* A scene's list is saved under the lock that changes it, the path under  *)
(* configMu: the saved copies are never told apart from these.             *)
(*                                                                         *)
(* source is a history variable: what gave the path its value.  It is      *)
(* "stale" when the goroutine of a change of the active scene wrote what   *)
(* had been its file, and was its file no more.                            *)
(***************************************************************************)
EXTENDS Events, Integers, Sequences, SequencesExt

CONSTANT NoPath

VARIABLES
  scenes,   \* sm.scenes: ids and files, in order
  active,   \* sm.activeID
  path,     \* config.FallbackPath
  token,    \* whether restartFallbackCh holds a token
  mgr,      \* where fallbackManagerLoop is
  air,      \* the file its process was started with
  alive,    \* whether that process runs
  files,    \* the files on disk
  tasks,    \* the requests and goroutines under way
  source

scenesVars == <<scenes, active, path, token, mgr, air, alive, files, tasks, source>>

Ids == 0..MaxEvents
Paths == {"video", "image", "render"} \X Ids
ASSUME ScenesAssumption == NoPath \notin Paths

Task(n, kind, pc, id, p) == [n |-> n, kind |-> kind, pc |-> pc, id |-> id, path |-> p]

ScenesTypeOK ==
  /\ scenes \in Seq([id: Ids, path: Paths])
  /\ active \in Ids
  /\ path \in Paths /\ air \in Paths
  /\ token \in BOOLEAN /\ alive \in BOOLEAN
  /\ mgr \in {"starts", "spawns", "runs", "pauses"}
  /\ files \subseteq Paths
  /\ tasks \subseteq [n: Ids, kind: {"change", "delete", "scene", "fallback"},
                      pc: {"reads", "writes", "signals", "removes", "unlinks",
                           "renders", "updates", "checks"},
                      id: Ids, path: Paths \cup {NoPath}]
  /\ \A i, j \in DOMAIN scenes : scenes[i].id = scenes[j].id => i = j
  /\ source \in {"scene", "stale", "other", "config"}

-----------------------------------------------------------------------------
PathOf(sc, id) ==
  IF \E i \in DOMAIN sc : sc[i].id = id
    THEN sc[CHOOSE i \in DOMAIN sc : sc[i].id = id].path ELSE NoPath

\* GetActiveScene: the first one, when the id names none.
ActiveOf(sc, id) ==
  IF PathOf(sc, id) # NoPath THEN PathOf(sc, id)
  ELSE IF sc # <<>> THEN sc[1].path ELSE NoPath
ActivePath == ActiveOf(scenes, active)

\* createDefaultScene: fallback.ts or .mp4 first, then an image.
Default(fs) ==
  IF <<"video", 0>> \in fs THEN <<[id |-> 0, path |-> <<"video", 0>>]>>
  ELSE IF <<"image", 0>> \in fs THEN <<[id |-> 0, path |-> <<"image", 0>>]>>
  ELSE <<>>

\* NewSceneManager, main: the default scene when there is none, and the path
\* of the active scene when there is one.
Boots_Again(sc, id, fs, p) ==
  /\ scenes' = sc \o Default(fs) /\ active' = id
  /\ path' = p /\ source' = "other"
Boots(sc, id, fs, p) ==
  LET booted == IF sc = <<>> THEN Default(fs) ELSE sc
      first == IF sc = <<>> THEN 0 ELSE id
      on == ActiveOf(booted, first)
  IN /\ scenes' = booted /\ active' = first
     /\ path' = IF on = NoPath THEN p ELSE on
     /\ source' = IF on = NoPath THEN "other" ELSE "scene"

ScenesInit ==
  /\ files \in {{}, {<<"video", 0>>}, {<<"image", 0>>}}
  /\ scenes = Default(files) /\ active = 0
  /\ path = IF scenes = <<>> THEN <<"video", 0>> ELSE ActivePath
  /\ source = IF scenes = <<>> THEN "other" ELSE "scene"
  /\ token = FALSE /\ mgr = "starts" /\ alive = FALSE /\ air = path
  /\ tasks = {}

\* The program ends, whatever it was doing, and is started again.
ScenesRestart ==
  /\ Boots(scenes, active, files, path)
  /\ token' = FALSE /\ mgr' = "starts" /\ alive' = FALSE /\ tasks' = {}
  /\ UNCHANGED <<air, files>>

-----------------------------------------------------------------------------
manager == <<mgr, air, alive>>
list == <<scenes, active>>

\* (a mutant: the channel has no buffer)
RestartFallback_Unbuffered == token' = (token \/ mgr = "runs")
\* RestartFallback: a token that is there already will do.
RestartFallback == token' = TRUE

\* UpdateFallbackPath, for a task of one of the kinds.
UpdateFallbackPath(p, kind) ==
  /\ path' = p
  /\ source' = IF p = ActivePath THEN "scene"
               ELSE IF kind = "change" THEN "stale" ELSE "other"

MovesWith(t, pc, p) == tasks' = (tasks \ {t}) \cup {Task(t.n, t.kind, pc, t.id, p)}
Moves(t, pc) == MovesWith(t, pc, t.path)
Ends(t) == tasks' = tasks \ {t}
Change(n) == Task(n, "change", "reads", 0, NoPath)

\* onSceneChange, in a goroutine of its own ...
ReadsActive(t) ==
  /\ t.pc = "reads"
  /\ IF ActivePath = NoPath THEN Ends(t) ELSE MovesWith(t, "writes", ActivePath)
  /\ UNCHANGED <<list, path, token, manager, files, source, events>>
\* ... which ends as the uploads do.
WritesPath(t) ==
  /\ t.pc = "writes"
  /\ UpdateFallbackPath(t.path, t.kind)
  /\ Moves(t, "signals")
  /\ UNCHANGED <<list, token, manager, files, events>>
Signals(t) ==
  /\ t.pc = "signals"
  /\ RestartFallback
  /\ Ends(t)
  /\ UNCHANGED <<list, path, manager, files, source, events>>

-----------------------------------------------------------------------------
\* AddScene: the first one is the active one, and nobody is told.
AddScene(id, p) ==
  /\ scenes' = Append(scenes, [id |-> id, path |-> p])
  /\ active' = IF scenes = <<>> THEN id ELSE active
  /\ source' = IF scenes = <<>> /\ source \in {"scene", "stale"} THEN "other" ELSE source

\* ActivateScene
ActivateScene(id) ==
  /\ Event
  /\ PathOf(scenes, id) # NoPath /\ active # id
  /\ active' = id
  /\ tasks' = tasks \cup {Change(events')}
  /\ UNCHANGED <<scenes, path, token, manager, files, source>>

\* RemoveScene: the first of those left takes over from the active one.
RemoveScene_Untold(n, id) ==
  /\ \E i \in DOMAIN scenes : scenes[i].id = id /\ scenes' = RemoveAt(scenes, i)
  /\ active' = IF active = id /\ scenes' # <<>> THEN scenes'[1].id ELSE active
  /\ tasks' = (tasks \ {t \in tasks : t.n = n /\ t.pc = "removes"})
        \cup {Task(n, t.kind, "unlinks", t.id, t.path) : t \in {u \in tasks : u.n = n /\ u.pc = "removes"}}
RemoveScene(n, id) ==
  /\ \E i \in DOMAIN scenes : scenes[i].id = id /\ scenes' = RemoveAt(scenes, i)
  /\ active' = IF active = id /\ scenes' # <<>> THEN scenes'[1].id ELSE active
  /\ tasks' = (tasks \ {t \in tasks : t.n = n /\ t.pc = "removes"})
        \cup {Task(n, t.kind, "unlinks", t.id, t.path) : t \in {u \in tasks : u.n = n /\ u.pc = "removes"}}
        \cup (IF active' # active THEN {Change(n)} ELSE {})

\* handleDeleteScene: the file the scene has now ...
DeleteScene_FileFirst(id) ==
  /\ Event
  /\ id # 0 /\ PathOf(scenes, id) # NoPath
  /\ tasks' = tasks \cup {Task(events', "delete", "removes", id, PathOf(scenes, id))}
  /\ files' = files \ {PathOf(scenes, id)}
  /\ UNCHANGED <<list, path, token, manager, source>>
DeleteScene(id) ==
  /\ Event
  /\ id # 0 /\ PathOf(scenes, id) # NoPath
  /\ tasks' = tasks \cup {Task(events', "delete", "removes", id, PathOf(scenes, id))}
  /\ UNCHANGED <<list, path, token, manager, files, source>>
\* ... the scene ...
Deletes(t) ==
  /\ t.pc = "removes"
  /\ IF PathOf(scenes, t.id) = NoPath
       THEN Ends(t) /\ UNCHANGED <<scenes, active>>
       ELSE RemoveScene(t.n, t.id)
  /\ UNCHANGED <<path, token, manager, files, source, events>>
\* ... and then that file, with the image it was made from.
Leftover(p) == {p} \cup (IF p[1] = "render" THEN {<<"image", p[2]>>} ELSE {})
Unlinks(t) ==
  /\ t.pc = "unlinks"
  /\ files' = files \ Leftover(t.path)
  /\ Ends(t)
  /\ UNCHANGED <<list, path, token, manager, source, events>>

\* handleUploadScene: a video is a scene; an image is one too, while FFmpeg
\* makes a video of it.
UploadScene(kind) ==
  /\ Event
  /\ files' = files \cup {<<kind, events'>>}
  /\ AddScene(events', <<kind, events'>>)
  /\ tasks' = IF kind = "image"
                THEN tasks \cup {Task(events', "scene", "renders", events', NoPath)} ELSE tasks
  /\ UNCHANGED <<path, token, manager>>

\* handleUploadFallback: no scene, and the path is changed by the handler, or
\* by the goroutine when the image is done or has failed.
UploadFallback(kind) ==
  /\ Event
  /\ files' = files \cup {<<kind, 0>>}
  /\ tasks' = tasks \cup
       {Task(events', "fallback", IF kind = "image" THEN "renders" ELSE "writes", 0, <<kind, 0>>)}
  /\ UNCHANGED <<list, path, token, manager, source>>

\* FFmpeg has made the video, or has failed.
Rendered(t) ==
  /\ t.pc = "renders"
  /\ files' = files \cup {<<"render", t.id>>}
  /\ MovesWith(t, IF t.kind = "scene" THEN "updates" ELSE "writes", <<"render", t.id>>)
  /\ UNCHANGED <<list, path, token, manager, source, events>>
RenderFails(t) ==
  /\ t.pc = "renders"
  /\ Event
  /\ IF t.kind = "scene" THEN Ends(t) ELSE Moves(t, "writes")
  /\ UNCHANGED <<list, path, token, manager, files, source>>

\* The scene gets its new file ...
UpdatesScene(t) ==
  /\ t.pc = "updates"
  /\ scenes' = [i \in DOMAIN scenes |->
                  IF scenes[i].id = t.id THEN [scenes[i] EXCEPT !.path = t.path] ELSE scenes[i]]
  /\ Moves(t, "checks")
  /\ UNCHANGED <<active, path, token, manager, files, source, events>>
\* ... which is to be played when the scene is the active one.
ChecksActive(t) ==
  /\ t.pc = "checks"
  /\ IF active = t.id THEN Moves(t, "writes") ELSE Ends(t)
  /\ UNCHANGED <<list, path, token, manager, files, source, events>>

\* PUT /api/config sends the whole configuration, the path with it.
PutConfig(p) ==
  /\ Event
  /\ p # path /\ path' = p /\ source' = "config"
  /\ UNCHANGED <<list, token, manager, files, tasks>>

\* The quick action restart-fallback.
QuickRestart ==
  /\ Event
  /\ RestartFallback
  /\ UNCHANGED <<list, path, manager, files, tasks, source>>

-----------------------------------------------------------------------------
quiet == <<list, path, files, tasks, source>>

\* fallbackManagerLoop: the arguments ...
MgrStarts ==
  /\ mgr = "starts" /\ mgr' = "spawns"
  /\ air' = path
  /\ UNCHANGED <<quiet, token, alive, events>>
\* ... the process, which ends at once when its file is not there ...
MgrSpawns ==
  /\ mgr = "spawns" /\ mgr' = "runs"
  /\ alive' = (air \in files)
  /\ UNCHANGED <<quiet, token, air, events>>
ProcDies ==
  /\ alive /\ alive' = FALSE
  /\ Event
  /\ UNCHANGED <<quiet, token, mgr, air>>
\* ... its end, or a token ...
MgrSeesDeath_Never ==
  /\ mgr = "runs" /\ ~alive /\ token /\ mgr' = "pauses"
  /\ UNCHANGED <<quiet, token, air, alive, events>>
MgrSeesDeath ==
  /\ mgr = "runs" /\ ~alive /\ mgr' = "pauses"
  /\ UNCHANGED <<quiet, token, air, alive, events>>
MgrTakesToken ==
  /\ mgr = "runs" /\ token /\ mgr' = "pauses"
  /\ token' = FALSE /\ alive' = FALSE
  /\ UNCHANGED <<quiet, air, events>>
\* ... and a pause of a second.
MgrPauseEnds ==
  /\ mgr = "pauses" /\ mgr' = "starts"
  /\ UNCHANGED <<quiet, token, air, alive, events>>

Manager == MgrStarts \/ MgrSpawns \/ MgrSeesDeath \/ MgrTakesToken \/ MgrPauseEnds
TaskSteps(t) ==
  \/ ReadsActive(t) \/ WritesPath(t) \/ Signals(t)
  \/ Deletes(t) \/ Unlinks(t) \/ Rendered(t) \/ UpdatesScene(t) \/ ChecksActive(t)

SceneRequests ==
  \/ \E id \in Ids : ActivateScene(id) \/ DeleteScene(id)
  \/ \E kind \in {"video", "image"} : UploadScene(kind) \/ UploadFallback(kind)
  \/ \E p \in files : PutConfig(p)
  \/ QuickRestart
ScenesNext ==
  \/ SceneRequests
  \/ \E t \in tasks : TaskSteps(t) \/ RenderFails(t)
  \/ Manager \/ ProcDies

\* FFmpeg ends, goroutines and the manager go on.
ScenesFairness ==
  /\ WF_scenesVars(Manager)
  /\ \A n \in Ids, kind \in {"change", "delete", "scene", "fallback"} :
       WF_scenesVars(\E t \in tasks : t.n = n /\ t.kind = kind /\ TaskSteps(t))

-----------------------------------------------------------------------------
\* The path is the active scene's file, or a goroutine is on its way that will
\* make it so: no change of the active scene, of its file or of the list is
\* left without one.  It does not hold once something else has written the
\* path, or a goroutine an active scene that was one no more (scenes.go:215,
\* main.go:148), and for a first scene (scenes.go:152).
PathFollows ==
  source = "scene" /\ scenes # <<>> =>
    \/ path = ActivePath
    \/ \E t \in tasks :
         \/ t.pc = "reads"
         \/ t.pc = "writes" /\ t.path = ActivePath
         \/ t.pc = "checks" /\ t.id = active /\ t.path = ActivePath

\* A process that was started with another path than today's will be restarted:
\* a token is in the channel or about to be put there, whenever in the manager's
\* round it is put (switcher.go:285, 886).  A PUT of the configuration restarts
\* nothing.
RestartNotLost ==
  mgr \in {"spawns", "runs"} /\ air # path =>
    token \/ source = "config" \/ \E t \in tasks : t.pc = "signals"

\* A scene of the list can be played: no order of uploads, the end of their
\* rendering and deletions, which look at the list before they change it and
\* at the disk after, takes the file of a scene away (server.go:1068-1091).
ScenesPlayable == \A i \in DOMAIN scenes : scenes[i].path \in files

\* When requests and failures are over, a process plays the path, if its file is
\* there, unless a PUT of the configuration wrote it; and the path is the active
\* scene's file, unless that PUT, an upload of a fallback, a first scene or a
\* goroutine that is late left another there (switcher.go:886-940, main.go:146-158).
AirFollows ==
  <>[](/\ source # "config" /\ path \in files => mgr = "runs" /\ alive /\ air = path
       /\ source = "scene" /\ scenes # <<>> => path = ActivePath)

\* "Called when active scene changes" (scenes.go:30), to "Trigger fallback restart"
\* (scenes.go:215): when these changes set the path last, what ends up on air is a
\* file of the active scene, be it the image or the video made of it.
ActiveSceneAirs ==
  <>[](source \in {"scene", "stale"} /\ scenes # <<>> =>
         mgr = "runs" /\ alive /\ air[2] = ActivePath[2])
=============================================================================
