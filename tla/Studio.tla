------------------------------- MODULE Studio -------------------------------
(***************************************************************************)
(* The control plane: the scenes with the fallback process, and the        *)
(* recorder, behind one API server, in one program that ends and is        *)
(* started again as a whole (main.go).                                     *)
(***************************************************************************)
EXTENDS Scenes, Recorder

vars == <<scenesVars, recorderVars, events>>

Init == events = 0 /\ ScenesInit /\ RecorderInit

\* A crash, or the end of main: cancel, StopAll, recorder.Stop.
Restarts == Event /\ ScenesRestart /\ RecorderRestart

Next ==
  \/ ScenesNext /\ UNCHANGED recorderVars
  \/ RecorderNext /\ UNCHANGED scenesVars
  \/ Restarts

Spec == Init /\ [][Next]_vars /\ ScenesFairness /\ RecorderFairness

\* Both keep their state well formed.
StudioTypeOK == ScenesTypeOK /\ RecorderTypeOK
=============================================================================
