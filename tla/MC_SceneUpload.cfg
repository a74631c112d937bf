SPECIFICATION Spec
CONSTANTS
  Uploads = {u1, u2}
  Ids = {1, 2, 3}
  Limit = 2
  Names = {a, b}
  MaxOthers = 2
  None = None
SYMMETRY Symmetry
CHECK_DEADLOCK FALSE
INVARIANTS TypeOK RefusedMeansUnwritten
PROPERTIES NeverReplaces WithinLimit NamesUnique PlaysVerified
