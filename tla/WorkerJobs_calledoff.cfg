SPECIFICATION Spec
CONSTANTS
  Nobody = Nobody
  Workers = {a, b, c}
  Jobs = {j1}
  Depth = 2
  MaxOpen = 2
  MaxFor = 1
  Budget = 3
  Asked = {a}
PROPERTIES CalledOffIsStopped
