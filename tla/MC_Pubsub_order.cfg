SPECIFICATION Spec
CONSTANTS
  s1 = s1
  s2 = s2
  p1 = p1
  p2 = p2
  t1 = t1
  t2 = t2
  Conn = {s1, s2, p1, p2}
  Topic = {t1}
  None = None
  May <- MCTwo
  Wants <- MCSame
  MaxSent <- MCSent
  Buffer = 2
INVARIANT SameOrder
CHECK_DEADLOCK FALSE
