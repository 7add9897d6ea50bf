SPECIFICATION Spec
CONSTANTS
  Thread = {t1, t2}
  Slot = {s1, s2}
  Head = Head
  Tail = Tail
  Null = Null
  Op = {1}
  SHOT_N = 1
  MAX_AWAIT_TIME = 64
  StatInit = {0}
  DetachMode = "never"
  MayThrow = {}
  MaxCalls = 1
SYMMETRY Symmetry
INVARIANTS ShotFits
