SPECIFICATION FairSpec
CONSTANTS
  s1 = s1
  s2 = s2
  p1 = p1
  p2 = p2
  t1 = t1
  t2 = t2
  Conn = {s1, s2, p1}
  Topic = {t1, t2}
  None = None
  May <- MCMay
  Wants <- MCDiffer
  MaxSent <- MCSent
  Buffer = 2
INVARIANTS
  TypeOK
  RegisteredOpen
  PublisherOrder
  OwnSubscription
PROPERTIES
  UnsubscribedEnds
  QueueDrains
CHECK_DEADLOCK FALSE
