CONSTANTS
  n1 = n1
  n2 = n2
  NoName = NoName
  Names <- MCNames
  Doomed <- MCDoomed
  Archives <- MCArchives
  Calls <- MCCalls
  BF = 3
  ArchiveFactor = 3
  MemberSizes = {0, 1, 4}
  Extensions = {{"none", "long"}, {"pax"}, {"none", "junk"}}
  PipedExtensions = {{"none", "long", "junk"}}
  MaxMembers = 3
  Cuts = {0, 1, 3, 4, 5}
  MaxReads = 12
SPECIFICATION FairSpec
INVARIANT TypeOK WritesBehindReads UnreadIntact OutputIsPrefix NeverAborts DeletesExactly
PROPERTY SkippedIntact Termination
CHECK_DEADLOCK FALSE
