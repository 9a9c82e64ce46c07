SPECIFICATION Spec
CONSTANTS
  Requests = {r1, r2}
  GoogleSubjects = {g}
  Dids = {d}
  Emails = {e, admin}
  AdminEmail = admin
  None = None
INVARIANT RacingCallbackRecovers
CHECK_DEADLOCK FALSE
