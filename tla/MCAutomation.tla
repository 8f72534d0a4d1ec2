---------------------------- MODULE MCAutomation ----------------------------
(***************************************************************************)
(* The scheduler, the auto-switch engine and the preview for TLC.  They    *)
(* share nothing but the callback the first two end in, which changes      *)
(* nothing (Switcher.SwitchScene): the interleavings of the three add no   *)
(* behaviour to any, so that a behaviour has one of them at work, and the  *)
(* others with an empty list or switched off.                              *)
(***************************************************************************)
EXTENDS Scheduler, AutoSwitch, Preview

VARIABLE works

vars == <<now, schedulerVars, autoVars, previewVars, works, events>>

Init ==
  /\ events = 0
  /\ works \in {"schedules", "rules", "preview"}
  /\ SchedulerInit /\ (works # "schedules" => schedules = <<>>)
  /\ AutoInit
  /\ works # "rules" => rules = <<>> /\ world = CHOOSE w \in Worlds : TRUE
  /\ IF works = "preview" THEN PreviewInit ELSE PreviewIdle

SchedulesWork ==
  works = "schedules" /\ SchedulerNext /\ UNCHANGED <<autoVars, previewVars, works>>
RulesWork ==
  works = "rules" /\ AutoNext /\ UNCHANGED <<now, schedulerVars, previewVars, works>>
PreviewWorks ==
  works = "preview" /\ PreviewNext /\ UNCHANGED <<now, schedulerVars, autoVars, works>>

Next == SchedulesWork \/ RulesWork \/ PreviewWorks

Spec ==
  /\ Init /\ [][Next]_vars
  /\ WF_<<autoVars, events>>(works = "rules" /\ Evaluate)
  /\ WF_<<autoVars, events>>(works = "rules" /\ AutoTick)
  /\ PreviewFairness

\* All three keep their state well formed.
AutomationTypeOK == SchedulerTypeOK /\ AutoTypeOK /\ PreviewTypeOK
=============================================================================
