CONSTANTS
  FileLines = 4
  PageLines = 2
  LongLines = {}
  MaxUsed = 6
  MaxPtr = 3
  MaxChanges = 1
  Rooms = {20}
  Stops = {0}
SPECIFICATION Spec
INVARIANTS
  SyncedRecovers
