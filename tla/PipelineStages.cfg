\* Three stages, two kiosks, two requests at a time.
SPECIFICATION Spec
CONSTANTS
  Stage = {s1, s2, s3}
  Kiosk = {k1, k2}
  Writer = {w1, w2}
  Idle = Idle
  NoStage = NoStage
  Absent = Absent
  MaxRequests = 3
SYMMETRY StageSymmetry
INVARIANTS TypeOK DefaultsAreRivals
PROPERTIES LoneRequestSettles
CHECK_DEADLOCK FALSE
