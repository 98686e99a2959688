SPECIFICATION Spec
CONSTANTS
  Slots = {s1, s2, s3}
  Tokens = {t1, t2}
  Codes = {c1}
  SoftFail = 2
  HardFail = 4
  FailWindow = 2
  VerifyTime = 2
  MaxDoublings = 2
  CoolOff <- MCCoolOff
  UnlockEnabled = TRUE
  MaxTime = 5
  MaxTamper = 5
SYMMETRY Symmetry
INVARIANT HardLockHasNoSession
