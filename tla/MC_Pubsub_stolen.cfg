SPECIFICATION Spec
CONSTANTS
  s1 = s1
  s2 = s2
  p1 = p1
  p2 = p2
  t1 = t1
  t2 = t2
  Conn = {s1, s2}
  Topic = {t1, t2}
  None = None
  May <- MCMay
  Wants <- MCDiffer
  MaxSent <- MCSent
  Buffer = 1
INVARIANT OwnChannel
CHECK_DEADLOCK FALSE
