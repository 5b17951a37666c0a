SPECIFICATION FairSpec
CONSTANTS
  m1 = m1
  m2 = m2
  a = a
  Conn = {m1, a}
  Auth = TRUE
  May <- MCMay
  MaxSent <- MCSent
  MaxUnread = 1
  Buffer = 1
  MayClose = TRUE
INVARIANTS
  TypeOK
  MonitorsOpen
  MonitorStream
  CloseSavesAnswered
PROPERTIES
  HandlersEnd
  CloseEnds
CHECK_DEADLOCK FALSE
