CONSTANTS
  Pages = {page1}
  Handlers = {h1, h2}
  MaxMessages = 2
  MaxCloses = 1
  MaxSelects = 1
SPECIFICATION Spec
SYMMETRY HandlerSymmetry
INVARIANTS
  PagesCatchUp
  BadgeAgrees
  ClosedRetries
CHECK_DEADLOCK FALSE
