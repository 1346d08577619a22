CONSTANTS
  n1 = n1
  n2 = n2
  NoName = NoName
  Names <- MCNames
  Archives <- MCArchives
  Offered <- MCOffered
  BF = 3
  ArchiveFactor = 3
SPECIFICATION FairSpec
INVARIANT AppendsExactly AddedIsReachable
PROPERTY OldMembersIntact Termination
CHECK_DEADLOCK FALSE
