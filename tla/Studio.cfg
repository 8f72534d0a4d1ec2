\* Any three of: requests, failures, restarts.  The program idles when it has
\* no request.
CONSTANTS
  NoPath = NoPath
  MaxEvents = 3
SPECIFICATION Spec
INVARIANTS
  StudioTypeOK
  PathFollows
  RestartNotLost
  ScenesPlayable
  RecorderFed
  RecordingKept
PROPERTIES
  AirFollows
  RecorderConverts
CHECK_DEADLOCK FALSE
