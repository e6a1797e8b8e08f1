SPECIFICATION PollingSpec
CONSTANTS
  Chan = {aica, ext1, ext2}
  None = None
  NumSlots = 4
  BytesPerPoll = 2
  Lengths <- MCLengths
PROPERTIES
  TransferWhole
