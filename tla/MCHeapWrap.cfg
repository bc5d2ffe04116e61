CONSTANTS
  Base = 4
  Size = 8
  Word = 24
  Sizes = {2, 20}
  Alignments = {1}
  DefaultAlign = 2
  MinTail = 2
SPECIFICATION Spec
INVARIANTS
  Disjoint
