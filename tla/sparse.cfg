SPECIFICATION Spec
CONSTANTS
  LG_8 = 5
  LG_256 = 7
  FieldSize = 2
  OffMax = 127
  BLOCKSIZE = 4
  SPARSES_IN_OLDGNU_HEADER = 1
  SPARSES_IN_SPARSE_HEADER = 2
  Formats = {"gnu", "pax0", "pax1"}
  Contents <- MCContents
  Outputs = {"file", "pipe", "skip", "compare"}
  MaxChanges = 1
  MaxBlocks = 16
INVARIANTS Restored ComparisonSees NextMemberFound
PROPERTY SparseEnds
