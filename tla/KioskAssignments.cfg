\* Two kiosks, two locations, two requests at a time.
SPECIFICATION Spec
CONSTANTS
  Kiosk = {k1, k2}
  Location = {a, b}
  Installation = {i1}
  Writer = {w1, w2}
  Idle = Idle
  Unused = Unused
  MaxRows = 3
  MaxRequests = 3
SYMMETRY KioskSymmetry
INVARIANTS TypeOK OpenRowsAreRivals
PROPERTIES LoneRequestSettles
CHECK_DEADLOCK FALSE
