SPECIFICATION Spec
CONSTANTS
  Entities = {e1, e2}
  Urls = {u1, u2}
  Scenes = {s1, s2}
  Effects = {f1}
  MaxLoads = 3
  MaxCalls = 2
  MaxChanges = 3
  None = None
SYMMETRY Symmetry
CHECK_DEADLOCK FALSE
INVARIANTS TypeOK OffersCurrent LoadShown BusyMeansCall ShownIsOwn
