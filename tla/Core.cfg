\* Two registered users and an id for a third: races over sessions, and over accounts.
SPECIFICATION RaceSpec
CONSTANTS
  None = None
  u1 = u1  u2 = u2  u3 = u3
  ea = ea  eb = eb
  n1 = n1  n2 = n2
  rawA = rawA  rawAUpper = rawAUpper  rawB = rawB  rawBad = rawBad
  UserId = {u1, u2, u3}
  Token = {t1, t2, t3}
  Email = {ea, eb}
  Name = {n1}
  RawEmail = {rawA, rawAUpper, rawB, rawBad}
  Normalize <- NormalizeAll
  InitUsers <- TwoRegistered
  LoggedIn = {u1, u2}
  AuthProc = {p1, p2}
  UserProc = {q1, q2}
  RefreshTTL = 2
  MaxClock = 2
SYMMETRY Symmetry
INVARIANTS TypeOK OneLivePerChain OneRotationPerToken ExpiryChain UniqueEmail
PROPERTIES ImplementsLineage RevocationStaysWithUser NoLostUpdate
