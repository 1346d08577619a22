CONSTANTS
  n1 = n1
  n2 = n2
  NoName = NoName
  Names <- MCNames
  Archives <- MCClosedArchives
  Offered <- MCOffered
  BF = 3
  ArchiveFactor = 2
SPECIFICATION FairSpec
PROPERTY OldMembersIntact
CHECK_DEADLOCK FALSE
