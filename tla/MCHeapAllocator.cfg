CONSTANTS
  Base = 4
  Size = 8
  Word = 24
  Sizes = {0, 2, 5}
  Alignments = {1, 4}
  DefaultAlign = 2
  MinTail = 2
SPECIFICATION Spec
INVARIANTS
  TypeOK
  Disjoint
  IndicesAgree
  Coalesced
PROPERTIES
  BytesKept
