\* The program idles when the preview is off.
CONSTANTS
  MaxEvents = 2
  ScheduleIds = {s1, s2}
  Window = 2
  Minute = 3
  Day = 6
  Starts = {0}
  Dates = {1}
  LastFired = {1}
  MaxTime = 7
  RuleIds = {r1, r2}
  Triggers = {"srt_timeout", "bitrate_drop"}
  Durations = {0, 2}
  MaxDuration = 2
  Sizes = {"small", "large"}
  AtBoot = "small"
SPECIFICATION Spec
INVARIANTS AutomationTypeOK FiresOnce HeldLongEnough
PROPERTIES NotMissed RuleFires PreviewFollows
CHECK_DEADLOCK FALSE
