CONSTANTS
  u1 = u1
  u2 = u2
  u3 = u3
  w1 = w1
  w2 = w2
  Junk = Junk
  Users = {u1, u2, u3}
  Kernel = Kernel
  NULL = NULL
  Word = {w1, w2}
  Entry = w1
  PageWord = {NULL, Junk}
  MaxDepth = 2
  TickWrap = 2
SYMMETRY UserSymmetry
SPECIFICATION Spec
INVARIANTS RingClosed LinkedThreadsComplete UserInItsOwnSpace IInv
PROPERTIES ResumesAsInterrupted
