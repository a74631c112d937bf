SPECIFICATION Spec
CONSTANTS
  Tasks = {t1, t2}
  KexRetries = 1
  MaxCalls = 2
  MaxKeys = 3
  None = None
SYMMETRY Symmetry
CHECK_DEADLOCK FALSE
INVARIANTS TypeOK AnswersInStep ExpiredMeansUnexecuted ContextsAccounted CurrentNotRetired
