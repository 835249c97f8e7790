CONSTANTS
  ChunkSize = 2
  NumPoses = 5
  Window = 1
  SeqMod = 8
  MaxLog = 6
  Absent = Absent
SPECIFICATION FairSpec
INVARIANTS
  OnlyTailBuffered
PROPERTIES
  ImplementsChannel
  StreamEnds
CHECK_DEADLOCK FALSE
