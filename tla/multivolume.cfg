CONSTANTS
  f1 = f1
  f2 = f2
  NoName = NoName
  Names <- MCNames
  Files <- MCFiles
  BF = 3
  MaxVolumes = 4
  Settings <- MCSettings
SPECIFICATION MVSpec
INVARIANT MembersWritten ContinuationMatches MembersIntact CompleteArchiveRead ReadsBack
PROPERTY WellFormedArchive NextVolumeAccepted ExtractionEnds
CHECK_DEADLOCK FALSE
