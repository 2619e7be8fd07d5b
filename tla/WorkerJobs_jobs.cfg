SPECIFICATION Spec
CONSTANTS
  Nobody = Nobody
  Workers = {a, b, c}
  Jobs = {j1, j2}
  Depth = 2
  MaxOpen = 2
  MaxFor = 1
  Budget = 3
  Asked = {a}
INVARIANTS TypeOK ToldWhenEnded OpenJobIsWorkedOn OpenJobsBounded NoWaitingCircle
SYMMETRY Symmetry
