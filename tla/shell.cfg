\* The bounds are explained in MCShell and in the README.
SPECIFICATION Spec
CONSTANTS
  Subjects = {"table", "clock", "game", "mutex", "format", "fpu", "interrupts"}
  Params <- Typed
  ShellId = 31
  Moments <- Times
  MaxReads = 2
  Rows = 8
  Cols = 9
  MaxStage = 2
  StageData <- Maps
  Runs = 2
  Count = 2
  Rounds = 1
  Depth = 2
  Word = 32
  Items <- Conversions
  Sizes = {0, 1, 3, 5, 6}
  MaxItems = 2
  Slots = {s1, s2, s3}
  NoSlot = none
  Values = {1, 2}
  Clean = 0
  Vectors = {0, 7, 12, 14, 20, 21, 32, 33}
  Stacks = {1, 2}
INVARIANTS
  RunsTyped
  AheadOnlyAtNoon
  WeekdayRight
  InsideWalls
  ClearedFairly
  OneInside
  InBuffer
  MeansAsInC
  FpuOwn
  Transparent
PROPERTIES
  AllCounted
CHECK_DEADLOCK FALSE
