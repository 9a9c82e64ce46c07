SPECIFICATION ConsentSpec
CONSTANTS
  Actors = {a1, a2}
  Sessions = {s1, s2}
  Grants = {g1, g2, g3}
  Codes = {c1}
  Devices = {d1}
  RefreshTokens = {}
  AccessTokens = {}
  NoRow = NoRow
  NoGrant = NoGrant
  NoActor = NoActor
  NoSession = NoSession
  NoFlow = NoFlow
  Day = 2
  MaxLifetime = 2
  DeviceLifetime = 2
  SessionLifetime = 2
  SweepBatch = 1
  MaxClock = 0
INVARIANTS EndedRootIssuesNothing DeviceConsentFresh
PROPERTIES SwitchConcludes
CHECK_DEADLOCK FALSE
