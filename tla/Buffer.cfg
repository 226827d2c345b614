\* Two buffers, room for one byte to prepend and one to write at first.
SPECIFICATION Spec
CONSTANTS
  Objects = {b1, b2}
  Base = 2
  kCheapPrepend = 1
  kInitialSize = 1
  ExtraSize = 2
  Int32Size = 1
  MaxSize = 4
  MaxChunk = 2
INVARIANTS
  ContentKept
  RoomIsMade
