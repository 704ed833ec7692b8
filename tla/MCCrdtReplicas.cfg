SPECIFICATION Spec
CONSTANTS
  Nodes = {a, b}
  Elements = {x, y}
  Amounts = {0, 2}
  MaxOps = 2
  MaxWire = 3
INVARIANTS ValuesExact VersionsTellContents MergesAgree RefusedIsEmpty
SYMMETRY Symmetry
