SPECIFICATION FairSpec
CONSTANTS
  Tasks = {t1, t2}
  MsgIds = {m1}
  Attempts = 2
  CounterLimit = 3
  MaxCalls = 2
  MaxHandshakes = 2
  None = None
INVARIANTS TypeOK NonceUnique AnswersAreOwn AtMostOnce ExpiredMeansUnsent LockStep
PROPERTIES NoSendAfterClose LockReleased ChannelSpec
