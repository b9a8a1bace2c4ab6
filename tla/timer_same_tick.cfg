SPECIFICATION Spec
CONSTANTS
  TimeOuts = {t1, t2, t3}
  Word = 16
  MaxAhead = 3
  Misuses = {"same tick"}
INVARIANTS
  NoneOverdue
