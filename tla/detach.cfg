SPECIFICATION Spec
CONSTANTS
  Thread = {t1, t2}
  Slot = {s1, s2, s3}
  Head = Head
  Tail = Tail
  Null = Null
  Op = {1}
  SHOT_N = 2
  MAX_AWAIT_TIME = 1
  StatInit = {0}
  DetachMode = "any"
  MayThrow = {"std", "other"}
  MaxCalls = 2
SYMMETRY Symmetry
INVARIANTS MutualExclusion GenerationBound OwnedSlotLive AssertHolds
PROPERTIES LockSpec
