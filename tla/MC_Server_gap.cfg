SPECIFICATION Spec
CONSTANTS
  m1 = m1
  m2 = m2
  a = a
  Conn = {m1, a}
  Auth = FALSE
  May <- MCMay
  MaxSent <- MCSent
  MaxUnread = 1
  Buffer = 1
  MayClose = FALSE
PROPERTY StreamsAll
CHECK_DEADLOCK FALSE
