\* One user: rows are independent, and one exercises every interleaving.
CONSTANTS
  NULL = NULL
  NoRow = NoRow
  NoPeer = NoPeer
  Idle = Idle
  Users = {u1}
  Procs = {p1}
  Quotas <- MCQuotas
  DayLimits <- MCDayLimits
  TimeSteps = {36}
  MaxBytes <- MCMaxBytes
  MaxTime = 36
SPECIFICATION FairSpec
INVARIANTS
  TypeOK
  RecordedWithinCarried
  DaysChargedHavePassed
PROPERTIES
  SyncNeverRefunds
  ExhaustedEventuallyDisabled
