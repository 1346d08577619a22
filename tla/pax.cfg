SPECIFICATION Spec
CONSTANTS
  BF = 6
  PerBlock = 2
  Oversized <- MCOversized
  Settings <- MCSettings
INVARIANTS DeliveredAsPromised VolumesFit
