SPECIFICATION FairSpec
CONSTANTS
  Thread = {t1, t2}
  Slot = {s1, s2}
  Head = Head
  Tail = Tail
  Null = Null
  Op = {1}
  SHOT_N = 2
  MAX_AWAIT_TIME = 0
  StatInit = {0}
  DetachMode = "quiescent"
  MayThrow = {}
  MaxCalls = 2
INVARIANTS HeldByExecutor
PROPERTIES ApplyReturns
