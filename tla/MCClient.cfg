CONSTANTS
  Forms = {f1, f2}
  Tokens = {t1, t2}
  MaxKeys = 2
  MaxAttempts = 2
  MaxUnderWay = 2
  NoKey = NoKey
  NoToken = NoToken
  NoAttempt = NoAttempt
SYMMETRY Alike
SPECIFICATION Spec
INVARIANTS
  SubmissionsPostOnce
PROPERTIES
  SessionsEnd
CHECK_DEADLOCK FALSE
