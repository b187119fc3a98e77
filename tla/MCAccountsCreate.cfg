SPECIFICATION MCSpec
CONSTANTS
  Ids = {u1, u2, u3}
  Procs = {p1}
  None = None
  Browsers = {b1}
  Editors = {e1}
  MaxTime = 0
  MaxPasswords = 0
SYMMETRY Symmetry
INVARIANTS ApprovedByAnAdmin
