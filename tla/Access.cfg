\* One account, two sessions, and access tokens that outlive what they stand for.
SPECIFICATION AccessSpec
CONSTANTS
  None = None
  u1 = u1  u2 = u2  u3 = u3
  ea = ea  eb = eb
  n1 = n1  n2 = n2
  rawA = rawA  rawAUpper = rawAUpper  rawB = rawB  rawBad = rawBad
  UserId = {u1}
  Token = {t1, t2}
  Email = {ea}
  Name = {n1}
  RawEmail = {rawA, rawBad}
  Normalize <- NormalizeOne
  InitUsers <- OneRegistered
  LoggedIn = {}
  AuthProc = {p1}
  UserProc = {q1}
  RefreshTTL = 5
  MaxClock = 5
  AccessTTL = 2
  Leeway = 2
  Second = 2
  MaxSkew = 1
SYMMETRY Symmetry
INVARIANTS LifetimeKept FadesOut
