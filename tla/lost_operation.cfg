SPECIFICATION Spec
CONSTANTS
  Thread = {t1, t2}
  Slot = {s1, s2}
  Head = Head
  Tail = Tail
  Null = Null
  Op = {1}
  SHOT_N = 2
  MAX_AWAIT_TIME = 0
  StatInit = {0}
  DetachMode = "never"
  MayThrow = {}
  MaxCalls = 3
SYMMETRY Symmetry
PROPERTIES CompleteOnReturn
