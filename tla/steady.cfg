SPECIFICATION Spec
CONSTANTS
  Thread = {t1, t2, t3}
  Slot = {s1, s2, s3}
  Head = Head
  Tail = Tail
  Null = Null
  Op = {1}
  SHOT_N = 3
  MAX_AWAIT_TIME = 2
  StatInit = {0}
  DetachMode = "never"
  MayThrow = {}
  MaxCalls = 2
SYMMETRY Symmetry
CONSTRAINT Undisturbed
INVARIANTS TypeOK NoUndefinedBehaviour WaitingIsQueued TasksAreWaiting
PROPERTIES ApplySpec
