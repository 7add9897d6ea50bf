SPECIFICATION Spec
CONSTANTS
  Thread = {t1, t2}
  Op = {1, 2, 3, 4}
  Key = {1, 2}
  Value = {0, 1}
  Empty = 0
  Absent = Absent
  SIZE = 2
  Index <- IndexAround
SYMMETRY Symmetry
PROPERTIES StorageLinearizable ArrayLinearizable
