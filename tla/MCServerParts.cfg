SPECIFICATION Spec
CONSTANTS
  Script <- SchemaScript
  Connections = {c, d, e}
  MaxRequests = 3
  Callers = {p, q, r}
  Keys = {k, l}
  NoKey = NoKey
  MaxCalls = 3
  Migrators = {m, n}
  Writers = {v, w}
  OldRows = {a, b}
  Emails = {f, g}
  None = None
INVARIANTS CleanExit CheckHolds
PROPERTIES ShutsDown ImplementsFifoLock EveryCallerRuns EveryoneFinishes
CHECK_DEADLOCK FALSE
