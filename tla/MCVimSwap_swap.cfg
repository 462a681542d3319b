CONSTANTS
  FileLines = 4
  PageLines = 2
  LongLines = {5}
  MaxUsed = 3
  MaxPtr = 3
  MaxChanges = 2
  Rooms = {4, 20}
  Stops = {0, 3}
SPECIFICATION Spec
INVARIANTS
  SwapInv
  BlockNumbers
  CleanIsInFile
  Recoverable
PROPERTIES
  ImplementsText
