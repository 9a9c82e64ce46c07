SPECIFICATION MCSpec
CONSTANTS
  Requests = {r1, r2, r3}
  GoogleSubjects = {g}
  Dids = {d}
  Emails = {e, admin}
  AdminEmail = admin
  None = None
  Credentials = {c1}
  Calls = {q1, q2, q3}
  LeaseSeconds = 1
  MaxGrant = 3
  MaxTime = 3
  MaxChanges = 2
SYMMETRY Symmetry
INVARIANTS AccountsSound Authorised LeaseResidual
CHECK_DEADLOCK FALSE
