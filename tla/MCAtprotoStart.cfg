SPECIFICATION StartSpec
CONSTANTS
  Clients = {c, d, e}
  Attempts = {k1, k2, k3, k4}
  NoClient = NoClient
  NoEntry = NoEntry
  Window = 2
  MaxStarts = 1
  MaxClients = 2
  MaxEntries = 3
  CookieAge = 2
  Margin = 1
  Resolve = 1
  MaxClock = 4
SYMMETRY Symmetry
INVARIANTS StartsBounded CookieFindsState
CHECK_DEADLOCK FALSE
