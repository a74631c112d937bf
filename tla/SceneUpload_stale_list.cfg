SPECIFICATION FairSpec
CONSTANTS
  Uploads = {u1}
  Ids = {1, 2}
  Limit = 1
  Names = {a}
  MaxOthers = 2
  None = None
CHECK_DEADLOCK FALSE
PROPERTY ReturnsListed
