SPECIFICATION MCSpec
CONSTANTS
  Requests = {p, q}
  Actors = {a1}
  Sessions = {s1, s2}
  Grants = {g1}
  Codes = {c1}
  Devices = {d1}
  RefreshTokens = {r1, r2, r3}
  FirstRefresh = {r1}
  AccessTokens = {t1, t2}
  NoRow = NoRow
  NoGrant = NoGrant
  NoActor = NoActor
  NoKey = NoKey
  Day = 1
  MaxLifetime = 2
  DeviceLifetime = 1
  SessionLifetime = 2
  TokenLifetime = 1
  SweepBatch = 2
  MaxClock = 4
  EndpointClock = 3
SYMMETRY Symmetry
INVARIANTS TokensWithinBinding TokensWithinRoot RedeemedOnce EndedFamilyRefuses RefusalEndsFamily
PROPERTIES EvidenceKept LogoutIsFinal
CHECK_DEADLOCK FALSE
