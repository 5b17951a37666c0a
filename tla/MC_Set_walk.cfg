SPECIFICATION Spec
CONSTANTS
  c1 = c1
  c2 = c2
  k1 = k1
  k2 = k2
  Client = {c1, c2}
  Key = {k1}
  Member = {1, 2}
  MapId = {1, 2}
  Absent = Absent
  NoTtl = NoTtl
  NoCall = NoCall
  NoResult = NoResult
  Uses <- MCShared
  Names <- MCFew
  Ttls <- MCTtls
  MaxTime = 3
  SampleSize = 2
  SampleRounds = 1
INVARIANT NeverCrashes
CHECK_DEADLOCK FALSE
