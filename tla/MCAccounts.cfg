SPECIFICATION Spec
CONSTANTS
  Names = {root, alice, bob}
  Admin = root
  Emails = {e}
  NoEmail = noEmail
  Sessions = {s1, s2}
  Tokens = {t1, t2, t3}
  Requests = {r1, r2}
  NoName = noName
  NoKey = noKey
  MaxRequests = 5
  MaxFaults = 1
SYMMETRY Symmetry
INVARIANTS TypeOK CredentialsRevoked NoLateAccess TokenSpentOnce OrphanNeedsFault Audited
CHECK_DEADLOCK FALSE
