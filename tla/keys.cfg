SPECIFICATION Spec
CONSTANTS
  Thread = {t1, t2}
  Object = {o1, o2, o3}
  Slot = {s1, s2, s3, s4}
  Key = {k1, k2}
  Null = Null
  None = None
SYMMETRY Symmetry
INVARIANTS SlotIsOwn OrphanedOnce NothingForgotten
