\* Two digests of one hash. A run that has ended does nothing more.
SPECIFICATION FairSpec
CONSTANTS
  d1 = d1
  d2 = d2
  m1 = m1
  k1 = k1
  Events = {d1, d2}
  Keys = {k1}
  NoKey = NoKey
  KeyOf <- MCKeyOf
  MaxRetries = 2
CHECK_DEADLOCK FALSE
INVARIANTS TypeOK EndTellsTruth CopiesAreBounded
PROPERTIES NoResendAfterReturn EveryRequestSettles
