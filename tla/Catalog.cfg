\* Every directory of up to two files, and two requests.
SPECIFICATION Spec
CONSTANTS
  None = None
  a = a
  A = A
  b = b
  x = x
  y = y
  Ids = {a, A, b}
  Folded <- FoldCase
  Directories <- SmallDirectories
  Requests = {r1, r2}
SYMMETRY Symmetric
INVARIANTS TypeOK WholeDirectory LookedUpTogether
