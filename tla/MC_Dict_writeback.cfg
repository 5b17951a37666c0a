SPECIFICATION Spec
CONSTANTS
  c1 = c1
  c2 = c2
  k1 = k1
  k2 = k2
  Client = {c1, c2}
  Key = {k1}
  Value = {1, 2}
  Absent = Absent
  NoTtl = NoTtl
  NoCall = NoCall
  Uses <- MCShared
  Ttls <- MCTtls
  MaxTime = 3
  SampleSize = 1
  SampleRounds = 1
PROPERTY ExpireKeepsValue
CHECK_DEADLOCK FALSE
