CONSTANTS
  p1 = p1
  p2 = p2
  a1 = a1
  a2 = a2
  t1 = t1
  other = other
  NULL = NULL
  Proxies = {p1, p2}
  Timers = {t1}
  Addresses = {a1, a2, other}
  AddrOf <- TwoDevices
  MaxDelay = 2
  MaxLag = 2
  MaxLead = 1
  MaxQueued = 2
  UsecAsMs = 2
  SpuriousWakeups = TRUE
  PersistentTimers = FALSE
SPECIFICATION Spec
INVARIANTS TypeOK LockDiscipline SleepJustified ReturnedEventIsQueued
