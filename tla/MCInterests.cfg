SPECIFICATION Spec
CONSTANTS
  Categories = {a, b}
  Users = {u1, u2}
  Nobody = nobody
  Loops = {l1}
  MaxDepth = 3
  MaxGrids = 2
  MaxChoices = 2
SYMMETRY Symmetry
INVARIANTS
  TypeOK
  DueAhead
  UploadsOwn
  AddShowsChoices
