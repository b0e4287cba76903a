SPECIFICATION CalSpec
CONSTANTS
  Tools = {tool}
  Together = FALSE
  Runs = 2
  Cuts = 1
  Cap = 6
  Swing = 26
  Faces = 6
INVARIANTS
    FitEvidence
PROPERTIES
    NeverTorn
    FileAsConfirmed
CHECK_DEADLOCK FALSE
