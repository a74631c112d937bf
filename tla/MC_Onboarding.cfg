SPECIFICATION Spec
CONSTANTS
  Tasks = {t1, t2}
  MaxTokens = 2
  MaxEntries = 2
  MaxResets = 1
SYMMETRY Symmetry
INVARIANTS TypeOK NothingLeftOpen OneEntry
PROPERTIES SuccessMeansUsable RejectedMeansInvalid
