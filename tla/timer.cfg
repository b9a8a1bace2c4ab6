SPECIFICATION FairSpec
CONSTANTS
  TimeOuts = {t1, t2, t3}
  Word = 12
  MaxAhead = 5
  Misuses = {}
PROPERTIES
  Noticed
  CountdownSpec
