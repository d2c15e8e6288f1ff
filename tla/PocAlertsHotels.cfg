\* Two hotels, runs one after the other: partial writes, shared digests, repeated steps.
SPECIFICATION MCSpec
CONSTANTS
  Hotels = {h1, h2}
  Pocs = {p1}
  NoPoc = NoPoc
  Runs = {r1}
  Cooldown = 2
  WeekLen = 2
  Cap = 1
  MaxRetries = 1
  MaxNow = 3
  MaxMails = 2
SYMMETRY HotelSymmetry
INVARIANTS TypeOK StampSurvives NobodyForgotten
PROPERTIES AlertSpacing
