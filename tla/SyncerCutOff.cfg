\* Nothing but a request ever syncs the interface.
CONSTANTS
  NULL = NULL
  NoRow = NoRow
  NoPeer = NoPeer
  Idle = Idle
  Users = {u1}
  Procs = {p1}
  Quotas <- MCQuotas
  DayLimits <- MCDayLimits
  TimeSteps = {36}
  MaxBytes <- MCMaxBytes
  MaxTime = 36
SPECIFICATION CalmSpec
PROPERTY ExhaustedEventuallyCutOff
