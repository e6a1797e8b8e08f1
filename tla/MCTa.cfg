SPECIFICATION Spec
CONSTANTS
  a = a
  b = b
  Data = {a, b}
  Capacity = 6
  Sent <- MCSent
  Words = 2
  MaxVerts = 4
INVARIANTS
  TypeOK
  ParserInStep
  EndsAreOfClosedLists
  QuadIntact
PROPERTIES
  PictureStays
  KeepsPromise
