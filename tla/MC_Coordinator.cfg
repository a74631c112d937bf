SPECIFICATION FairSpec
CONSTANTS
  Services = {s1}
  Poller = poll
  Unloader = unload
  Threshold = 3
  None = None
  Closed = Closed
INVARIANTS TypeOK SettingsExclusive
PROPERTIES PollsRecover CallsEnd
CHECK_DEADLOCK FALSE
