SPECIFICATION FairSpec
CONSTANTS
  c1 = c1
  c2 = c2
  k1 = k1
  k2 = k2
  Client = {c1, c2}
  Key = {k1, k2}
  Value = {1}
  Absent = Absent
  NoTtl = NoTtl
  NoCall = NoCall
  Uses <- MCOwn
  Ttls <- MCTtls
  MaxTime = 3
  SampleSize = 2
  SampleRounds = 2
INVARIANTS
  TypeOK
  PassiveTargetsExpired
  CopiesCurrent
PROPERTIES
  CommandsAtomic
  ExpiredEventuallyGone
CHECK_DEADLOCK FALSE
