\* Requests, logins and administrators at the same time.
SPECIFICATION Spec
CONSTANTS
  None = None
  Users = {u1, u2}
  Devices = {d1, d2}
  Workers = {w1, w2}
  Tokens = {k1, k2}
  RowIds = {r1, r2}
  Limits = {1}
  Lifetimes = {1, 2}
  MaxNow = 2
  Requests = {"login", "logout", "heartbeat", "register", "update", "mode b", "create", "edit", "kick", "delete"}
SYMMETRY AccountsSymmetry
CONSTRAINT Focus
INVARIANTS AccountsTypeOK DisabledStaysOut
PROPERTIES ImplementsOwners EndedStaysEnded
CHECK_DEADLOCK FALSE
