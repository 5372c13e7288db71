\* Two requests present one live token, or one presents a token that was wiped.
SPECIFICATION ReuseSpec
CONSTANTS
  None = None
  u1 = u1  u2 = u2  u3 = u3
  ea = ea  eb = eb
  n1 = n1  n2 = n2
  rawA = rawA  rawAUpper = rawAUpper  rawB = rawB  rawBad = rawBad
  UserId = {u1}
  Token = {t1, t2, t3}
  Email = {ea}
  Name = {n1}
  RawEmail = {rawA, rawBad}
  Normalize <- NormalizeOne
  InitUsers <- OneRegistered
  LoggedIn = {}
  AuthProc = {p1, p2}
  UserProc = {}
  RefreshTTL = 1
  MaxClock = 0
SYMMETRY Symmetry
INVARIANTS OnlyKnownReuseWipes
