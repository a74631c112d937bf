SPECIFICATION FairSpec
CONSTANTS
  Services = {s1}
  Poller = poll
  Unloader = unload
  Threshold = 3
  None = None
  Closed = Closed
PROPERTY StaticDataFetched
CHECK_DEADLOCK FALSE
