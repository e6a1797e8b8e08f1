SPECIFICATION FairSpec
CONSTANTS
  Chan = {aica, ext1, ext2}
  None = None
  NumSlots = 4
  BytesPerPoll = 2
  Lengths <- MCLengths
INVARIANTS
  TypeOK
  OneEntryPerChannel
  CompletionPending
  SignalledOnTime
PROPERTIES
  TransferCompletes
