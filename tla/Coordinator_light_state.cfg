SPECIFICATION FairSpec
CONSTANTS
  Services = {s1}
  Poller = poll
  Unloader = unload
  Threshold = 3
  None = None
  Closed = Closed
INVARIANT KeepsLightState
CHECK_DEADLOCK FALSE
