SPECIFICATION Spec
CONSTANTS
  c1 = c1
  c2 = c2
  k1 = k1
  f1 = f1
  f2 = f2
  Client = {c1, c2}
  Key = {k1}
  Value <- MCValue
  Field = {f1, f2}
  Absent = Absent
  Workload <- MCWorkload
  Setups <- MCTtl
PROPERTIES
  DeadlineSurvives
CHECK_DEADLOCK FALSE
