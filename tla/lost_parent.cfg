SPECIFICATION Spec
CONSTANTS
  Thread = {t1, t2}
  Slot = {s1, s2, s3}
  Head = Head
  Tail = Tail
  Null = Null
  Op = {1}
  SHOT_N = 2
  MAX_AWAIT_TIME = 1
  StatInit = {0}
  DetachMode = "any"
  MayThrow = {}
  MaxCalls = 2
SYMMETRY Symmetry
INVARIANTS DequeueFindsParent
