\* As Studio.cfg: three events are an upload of a scene and two activations.
CONSTANTS
  NoPath = NoPath
  MaxEvents = 3
SPECIFICATION Spec
PROPERTY ActiveSceneAirs
CHECK_DEADLOCK FALSE
